---------------------------- MODULE QueueProofs ----------------------------
(***************************************************************************)
(* The mutex of a queue and its conditions, for any threads and requests;  *)
(* and, for queues of either order but the heap's, whose recursion is out  *)
(* of the prover's reach: no wakeup is lost, and every step of a call is a *)
(* step of QueueSpec.                                                      *)
(***************************************************************************)
EXTENDS Queue, SyncProofs, FiniteSetTheorems

MInv ==
    /\ CInv
    /\ queueKind \in Queues /\ unfinishedTasks \in Nat
    /\ pc \in [Threads -> {"idle", "acquire", "check", "exit"}]
    /\ \A t \in Threads : Holds(t, "mutex") <=> pc[t] \in {"check", "exit"} /\ ~IsWaiting(t)
    /\ ~Notified("mutex") => \E t \in Threads : Holds(t, "mutex") /\ pc[t] = "exit"
    /\ \A t \in Threads : IsWaiting(t) => pc[t] = "check"
-----------------------------------------------------------------------------
LEMMA MInvImpliesTypeOK == MInv => TypeOK
  BY CInvImpliesTypeOK DEF MInv, TypeOK

LEMMA AllShareTheMutex ==
    /\ "mutex" \in Locks
    /\ \A c \in Conds : LockOf[c] = "mutex"
    /\ Notified("mutex") <=> \A c \in Conds : todo[c] = <<>>
    /\ {"not_empty", "not_full", "all_tasks_done"} = Conds
  BY QueueAssumption DEF Notified

LEMMA InitMInv == Init => MInv
<1> SUFFICES ASSUME Init PROVE MInv
  OBVIOUS
<1>1. CInv
  BY InitCInv DEF Init
<1>2. Notified("mutex") /\ \A t \in Threads : ~IsWaiting(t) /\ ~Holds(t, "mutex")
  BY AllShareTheMutex, ConditionAssumption DEF Init, ConditionInit, IsWaiting, NotWaiting, Holds
<1> QED
  BY <1>1, <1>2 DEF Init, MInv

\* A thread inside a try block runs alone.
LEMMA RunsAlone ==
    ASSUME MInv, NEW t \in Threads, pc[t] = "check", Runs(t, "mutex")
    PROVE  /\ Notified("mutex")
           /\ \A u \in Threads \ {t} : ~Holds(u, "mutex")
  BY DEF MInv, Runs, Holds

\* How a call leaves its try block, or blocks in it.
Leaves(t) ==
    /\ UNCHANGED <<holder, waitVars, queueKind>>
    /\ pc' = [pc EXCEPT ![t] = "exit"]
    /\ unfinishedTasks' \in Nat
    /\ UNCHANGED notifyVars \/ \E c \in Conds, n \in Nat : StartNotify(c, n)
Blocks(t) ==
    \E c \in Conds, timed \in BOOLEAN : Wait(t, c, timed) /\ UNCHANGED queueVars

LEMMA TryShape ==
    ASSUME MInv, NEW t \in Threads, Try(t)
    PROVE  /\ pc[t] = "check" /\ Runs(t, "mutex")
           /\ Leaves(t) \/ Blocks(t)
<1>1. unfinishedTasks \in Nat
  BY DEF MInv
<1>2. ASSUME NEW error, Raise(t, error) PROVE Leaves(t)
  BY <1>1, <1>2 DEF Raise, Leave, Goto, Leaves
<1>3. ASSUME NEW c \in Conds, NEW error, BlockOn(t, c, error) PROVE Leaves(t) \/ Blocks(t)
  <2>1. (call[t].mode = "timed") \in BOOLEAN
    OBVIOUS
  <2> QED
    BY <1>2, <1>3, <2>1 DEF BlockOn, Blocks
<1>4. CASE Put(t)
  <2>1. unfinishedTasks + 1 \in Nat /\ 1 \in Nat
    BY <1>1
  <2> QED
    BY <1>2, <1>3, <1>4, <2>1, AllShareTheMutex DEF Put, At, Leave, Goto, Leaves
<1>5. CASE Get(t)
  <2>1. 1 \in Nat
    OBVIOUS
  <2> QED
    BY <1>1, <1>2, <1>3, <1>5, <2>1, AllShareTheMutex DEF Get, At, Leave, Goto, Leaves
<1>6. CASE TaskDone(t)
  <2>1. unfinishedTasks > 0 => unfinishedTasks - 1 \in Nat
    BY <1>1
  <2>2. 1 \in Nat /\ Len(waiters["all_tasks_done"]) \in Nat
    BY AllShareTheMutex, LenProperties DEF MInv, CInv, CTypes
  <2> QED
    BY <1>2, <1>6, <2>1, <2>2, AllShareTheMutex DEF TaskDone, At, Leave, Goto, Leaves, StartNotifyAll
<1>7. CASE Join(t)
  BY <1>2, <1>7, AllShareTheMutex DEF Join, At, Blocks
<1> QED
  BY <1>4, <1>5, <1>6, <1>7 DEF Try

LEMMA TryKeepsMInv ==
    ASSUME MInv, NEW t \in Threads, Try(t)
    PROVE  MInv'
<1>1. pc[t] = "check" /\ Runs(t, "mutex") /\ Notified("mutex") /\ (Leaves(t) \/ Blocks(t))
  BY TryShape, RunsAlone
<1>2. CASE Leaves(t)
  <2>1. CInv'
    <3>1. CASE UNCHANGED notifyVars
      BY <1>2, <3>1, StutterKeeps DEF Leaves, MInv, conditionVars, waitVars, notifyVars
    <3>2. ASSUME NEW c \in Conds, NEW n \in Nat, StartNotify(c, n) PROVE CInv'
      <4>1. holder' = holder /\ holder["mutex"] # Nobody /\ holder \in [Locks -> Threads \cup {Nobody}]
        BY <1>1, <1>2, ConditionAssumption DEF Leaves, Runs, Holds, MInv, CInv, CTypes
      <4>2. todo[c] = <<>> /\ UNCHANGED waitVars /\ CInv
        BY <1>1, <1>2, AllShareTheMutex DEF Leaves, MInv
      <4> QED
        BY <3>2, <4>1, <4>2, AllShareTheMutex, NotifyKeeps
    <3> QED
      BY <1>2, <3>1, <3>2 DEF Leaves
  <2>2. holder' = holder /\ waiting' = waiting /\ Holds(t, "mutex")
    BY <1>1, <1>2 DEF Leaves, waitVars, Runs
  <2> QED
    BY <1>1, <1>2, <2>1, <2>2 DEF Leaves, MInv, Holds, IsWaiting, Runs
<1>3. CASE Blocks(t)
  <2>1. PICK c \in Conds, timed \in BOOLEAN : Wait(t, c, timed) /\ UNCHANGED queueVars
    BY <1>3 DEF Blocks
  <2>2. CInv'
    BY <1>1, <2>1, AllShareTheMutex, WaitKeeps DEF MInv, Runs
  <2>3. /\ holder' = [holder EXCEPT !["mutex"] = Nobody] /\ todo' = todo
        /\ waiting' = [waiting EXCEPT ![t] = [at |-> "waiter", cond |-> c, timed |-> timed]]
    BY <2>1, AllShareTheMutex DEF Wait, Unlock, notifyVars
  <2>4. /\ IsWaiting(t)' /\ \A u \in Threads : ~Holds(u, "mutex")'
        /\ \A u \in Threads \ {t} : IsWaiting(u)' = IsWaiting(u)
    BY <2>3, AllShareTheMutex, ConditionAssumption DEF MInv, CInv, CTypes, IsWaiting, Holds
  <2>5. Notified("mutex")'
    BY <1>1, <2>3 DEF Notified
  <2>6. \A u \in Threads \ {t} : ~(pc[u] \in {"check", "exit"} /\ ~IsWaiting(u))
    BY <1>1, RunsAlone DEF MInv
  <2> QED
    BY <1>1, <2>1, <2>2, <2>4, <2>5, <2>6 DEF MInv, queueVars
<1> QED
  BY <1>1, <1>2, <1>3

LEMMA CallKeepsMInv ==
    ASSUME MInv, NEW t \in Threads, Call(t)
    PROVE  MInv'
<1>1. /\ pc[t] = "idle" /\ pc' = [pc EXCEPT ![t] = "acquire"]
      /\ UNCHANGED <<conditionVars, unfinishedTasks, queueKind>>
  BY DEF Call, Goto
<1>2. CInv'
  BY <1>1, StutterKeeps DEF MInv
<1> QED
  BY <1>1, <1>2 DEF MInv, conditionVars, Holds, IsWaiting, Notified

LEMMA LockingKeepsMInv ==
    ASSUME MInv, NEW t \in Threads, Locking(t)
    PROVE  MInv'
<1>1. CASE Acquire(t)
  <2>1. /\ pc[t] = "acquire" /\ pc' = [pc EXCEPT ![t] = "check"] /\ Lock(t, "mutex")
        /\ UNCHANGED <<waitVars, notifyVars, unfinishedTasks, queueKind>>
    BY <1>1 DEF Acquire, Goto
  <2>2. CInv'
    BY <2>1, AllShareTheMutex, LockKeeps DEF MInv
  <2>3. \A u \in Threads : ~Holds(u, "mutex") /\ (Holds(u, "mutex")' <=> u = t) /\ IsWaiting(u)' = IsWaiting(u)
    BY <2>1, AllShareTheMutex, ConditionAssumption DEF Lock, Holds, IsWaiting, waitVars, MInv, CInv, CTypes
  <2>4. Notified("mutex")'
    BY <2>1, <2>3 DEF MInv, Notified, notifyVars
  <2> QED
    BY <2>1, <2>2, <2>3, <2>4 DEF MInv
<1>2. CASE Restore(t) /\ UNCHANGED queueVars
  <2>1. /\ waiting[t].at = "restore" /\ Lock(t, "mutex") /\ waiting[t].cond \in Conds
        /\ waiting' = [waiting EXCEPT ![t] = NotWaiting] /\ UNCHANGED notifyVars
    BY <1>2, ReturnsClean, AllShareTheMutex DEF Restore, MInv
  <2>2. CInv'
    BY <1>2, RestoreKeeps DEF MInv
  <2>3. /\ \A u \in Threads : ~Holds(u, "mutex") /\ (Holds(u, "mutex")' <=> u = t)
        /\ \A u \in Threads \ {t} : IsWaiting(u)' = IsWaiting(u)
        /\ IsWaiting(t) /\ ~IsWaiting(t)'
    BY <2>1, AllShareTheMutex, ConditionAssumption DEF Lock, Holds, IsWaiting, NotWaiting, MInv, CInv, CTypes
  <2>4. Notified("mutex")'
    BY <2>1, <2>3 DEF MInv, Notified, notifyVars
  <2> QED
    BY <1>2, <2>1, <2>2, <2>3, <2>4 DEF MInv, queueVars
<1> QED
  BY <1>1, <1>2 DEF Locking

LEMMA ExitKeepsMInv ==
    ASSUME MInv, NEW t \in Threads, Exit(t)
    PROVE  MInv'
<1>1. /\ pc[t] = "exit" /\ Notified("mutex") /\ Unlock("mutex")
      /\ pc' = [pc EXCEPT ![t] = "idle"] /\ expired' = expired \ {t}
      /\ UNCHANGED <<waiters, woken, waiting, notifyVars, unfinishedTasks, queueKind>>
  BY DEF Exit, Goto
<1>2. CInv'
  BY <1>1, AllShareTheMutex, UnlockKeeps DEF MInv, CInv, CTypes
<1>3. ~IsWaiting(t) /\ Holds(t, "mutex")
  BY <1>1 DEF MInv
<1>4. \A u \in Threads : ~Holds(u, "mutex")' /\ IsWaiting(u)' = IsWaiting(u)
  BY <1>1, AllShareTheMutex, ConditionAssumption DEF Unlock, Holds, IsWaiting, MInv, CInv, CTypes
<1>5. Notified("mutex")'
  BY <1>1 DEF Notified, notifyVars
<1>6. \A u \in Threads \ {t} : ~Holds(u, "mutex")
  BY <1>3 DEF Holds
<1> QED
  BY <1>1, <1>2, <1>3, <1>4, <1>5, <1>6 DEF MInv

LEMMA ByItselfKeepsMInv ==
    ASSUME MInv, NEW t \in Threads, ByItself(t)
    PROVE  MInv'
<1>1. CInv'
  BY WaitStepKeeps DEF ByItself, MInv
<1>2. UNCHANGED <<holder, todo>> /\ UNCHANGED queueVars
  BY DEF ByItself, WaitStep, WakeUp, TimeOut, RemoveWaiter, notifyVars
<1>3. IsWaiting(t) /\ \E a \in {"waiter", "remove", "restore"} : waiting' = [waiting EXCEPT ![t].at = a]
  BY DEF ByItself, WaitStep, WakeUp, TimeOut, RemoveWaiter, IsWaiting
<1>4. \A u \in Threads : IsWaiting(u)' = IsWaiting(u)
  <2>1. PICK a \in {"waiter", "remove", "restore"} : waiting' = [waiting EXCEPT ![t].at = a]
    BY <1>3
  <2>2. waiting'[t].at = a /\ \A u \in Threads \ {t} : waiting'[u] = waiting[u]
    BY <1>3, <2>1, WaitGoesOn DEF MInv, CInv
  <2> QED
    BY <1>3, <2>2 DEF IsWaiting
<1> QED
  BY <1>1, <1>2, <1>4 DEF MInv, queueVars, Holds, Notified

LEMMA WakingKeepsMInv ==
    ASSUME MInv, Waking
    PROVE  MInv'
<1>1. PICK c \in Conds : NotifyStep(c) /\ UNCHANGED queueVars
  BY DEF Waking
<1>2. CInv'
  BY <1>1, NotifyStepKeeps DEF MInv
<1>3. UNCHANGED <<holder, waiting>>
  BY <1>1 DEF NotifyStep, ReleaseWaiter, RemoveNotified
<1>4. ~Notified("mutex")
  <2>1. todo[c] # <<>>
    BY <1>1 DEF NotifyStep, ReleaseWaiter, RemoveNotified, MInv, CInv, NotifyOK
  <2> QED
    BY <2>1, AllShareTheMutex
<1> QED
  BY <1>1, <1>2, <1>3, <1>4 DEF MInv, queueVars, Holds, IsWaiting

LEMMA NextKeepsMInv == MInv /\ [Next]_vars => MInv'
<1> SUFFICES ASSUME MInv, [Next]_vars PROVE MInv'
  OBVIOUS
<1>1. CASE UNCHANGED vars
  BY <1>1, StutterKeeps DEF MInv, vars, queueVars, conditionVars, Holds, IsWaiting, Notified
<1>2. CASE Waking
  BY <1>2, WakingKeepsMInv
<1>3. ASSUME NEW t \in Threads, Call(t) \/ Locking(t) \/ Try(t) \/ Exit(t) \/ ByItself(t) PROVE MInv'
  BY <1>3, CallKeepsMInv, LockingKeepsMInv, TryKeepsMInv, ExitKeepsMInv, ByItselfKeepsMInv
<1> QED
  BY <1>1, <1>2, <1>3 DEF Next

\* Threads inside a queue's operations hold its mutex one at a time, and a notify() is
\* over before it is let go, for any threads, requests and queues.
THEOREM TypeCorrect == Spec => []TypeOK
  BY InitMInv, NextKeepsMInv, MInvImpliesTypeOK, PTL DEF Spec
-----------------------------------------------------------------------------
\* No lost wakeup. Of the threads that wait, those that no notify() has met yet sleep, even
\* if they are about to give up; the others are coming, and so are those that have the
\* mutex to do what the condition is about.
Op(c) == IF c = "not_empty" THEN "get" ELSE IF c = "not_full" THEN "put" ELSE "join"
Sleeping(c) == ToSet(waiters[c]) \ ToSet(todo[c])
Looking(c) == {t \in Threads : At(t, Op(c)) /\ call[t].mode # "negative"}
Coming(c) == {t \in Threads : IsWaiting(t) /\ waiting[t].cond = c /\ t \notin Sleeping(c)} \cup Looking(c)

\* The conditions at which items and slots are waited for.
Ends == {"not_empty", "not_full"}

Items == {r.item : r \in UNION {Requests(q) : q \in Queues}}
NoHeap == \A q \in Queues : q.order # "priority"

CallsOK ==
    /\ queue \in Seq(Items)
    /\ call = [t \in Threads |-> call[t]]
    /\ \A t \in Threads : call[t].op = "put" => call[t].item \in Items
    /\ \A t \in Threads : IsWaiting(t) =>
          /\ call[t].op = Op(waiting[t].cond)
          /\ waiting[t].cond # "all_tasks_done" => call[t].mode # "negative"

\* What is there for those who wait: items, or slots.
There(c) == IF c = "not_empty" THEN Len(queue) ELSE queueKind.maxsize - Len(queue)
EndOK(c) == Sleeping(c) # {} => There(c) <= Cardinality(Coming(c))

Balance ==
    /\ \A c \in Ends : EndOK(c)
    /\ Sleeping("all_tasks_done") # {} => unfinishedTasks > 0

WInv == MInv /\ CallsOK /\ Balance

LEMMA EndsAreConds == Ends \subseteq Conds
  BY AllShareTheMutex DEF Ends

\* The threads that sleep are those on the lists, but for some that will wake by themselves.
LEMMA WInvImpliesNobodyForgotten ==
    ASSUME IsFiniteSet(Threads), WInv
    PROVE  NobodyForgotten
<1>1. ASSUME NEW c \in Conds
      PROVE  /\ Parked(c) \subseteq Sleeping(c)
             /\ Coming(c) \subseteq OnTheWay(c, Op(c)) /\ OnTheWay(c, Op(c)) \subseteq Threads
  <2>1. Parked(c) \subseteq Sleeping(c)
    BY DEF Parked, Sleeping, WInv, MInv, CInv, SleeperOK
  <2> QED
    BY <2>1 DEF Coming, Looking, OnTheWay
<1>2. ASSUME NEW c \in Conds
      PROVE  /\ Cardinality(Coming(c)) \in Nat /\ Cardinality(OnTheWay(c, Op(c))) \in Nat
             /\ Cardinality(Coming(c)) <= Cardinality(OnTheWay(c, Op(c)))
  <2>1. IsFiniteSet(OnTheWay(c, Op(c)))
    BY <1>1, FS_Subset
  <2>2. IsFiniteSet(Coming(c)) /\ Cardinality(Coming(c)) <= Cardinality(OnTheWay(c, Op(c)))
    BY <1>1, <2>1, FS_Subset
  <2> QED
    BY <2>1, <2>2, FS_CardinalityType
<1>3. Op("not_empty") = "get" /\ Op("not_full") = "put"
  BY DEF Op
<1>4. Len(queue) \in Nat /\ queueKind.maxsize \in Nat
  BY LenProperties, QueueAssumption DEF WInv, CallsOK, MInv
<1>5. Parked("not_empty") # {} => Len(queue) <= Cardinality(OnTheWay("not_empty", "get"))
  BY <1>1, <1>2, <1>3, <1>4, EndsAreConds DEF WInv, Balance, EndOK, There, Ends
<1>6. Parked("not_full") # {} => queueKind.maxsize - Len(queue) <= Cardinality(OnTheWay("not_full", "put"))
  BY <1>1, <1>2, <1>3, <1>4, EndsAreConds DEF WInv, Balance, EndOK, There, Ends
<1>7. Parked("all_tasks_done") # {} => unfinishedTasks > 0
  BY <1>1, AllShareTheMutex DEF WInv, Balance
<1> QED
  BY <1>5, <1>6, <1>7 DEF NobodyForgotten

LEMMA InitWInv == Init => WInv
<1> SUFFICES ASSUME Init PROVE WInv
  OBVIOUS
<1>1. \A c \in Conds : Sleeping(c) = {}
  BY DEF Init, ConditionInit, Sleeping, ToSet
<1>2. <<>> \in Seq(Items)
  BY EmptySeq
<1> QED
  BY <1>1, <1>2, InitMInv, AllShareTheMutex, EndsAreConds
  DEF Init, ConditionInit, WInv, CallsOK, Balance, EndOK, Idle, IsWaiting, NotWaiting

\* What a step may do to those who wait for items or slots: nothing;
LEMMA ComingAreCounted ==
    ASSUME IsFiniteSet(Threads), NEW c
    PROVE  /\ IsFiniteSet(Coming(c)) /\ Cardinality(Coming(c)) \in Nat
           /\ IsFiniteSet(Coming(c)') /\ Cardinality(Coming(c)') \in Nat
           /\ Cardinality(Coming(c))' = Cardinality(Coming(c)')
<1>1. Coming(c) \subseteq Threads /\ Coming(c)' \subseteq Threads
  BY DEF Coming, Looking
<1>2. IsFiniteSet(Coming(c)) /\ IsFiniteSet(Coming(c)')
  BY <1>1, FS_Subset
<1> QED
  BY <1>2, FS_CardinalityType

LEMMA EndStays ==
    ASSUME IsFiniteSet(Threads), NEW c, EndOK(c),
           Sleeping(c)' \subseteq Sleeping(c), Coming(c) \subseteq Coming(c)',
           There(c) \in Int, There(c)' \in Int, There(c)' <= There(c)
    PROVE  EndOK(c)'
<1>1. Cardinality(Coming(c)) <= Cardinality(Coming(c)')
  BY ComingAreCounted, FS_Subset
<1> QED
  BY <1>1, ComingAreCounted DEF EndOK

\* one who was coming takes what there was;
LEMMA EndTaken ==
    ASSUME IsFiniteSet(Threads), NEW c, EndOK(c), NEW t,
           Sleeping(c)' \subseteq Sleeping(c), Coming(c) \ {t} \subseteq Coming(c)',
           There(c) \in Int, There(c)' \in Int, There(c)' <= There(c) - 1
    PROVE  EndOK(c)'
<1>1. /\ IsFiniteSet(Coming(c) \ {t})
      /\ Cardinality(Coming(c)) - 1 <= Cardinality(Coming(c) \ {t}) /\ Cardinality(Coming(c) \ {t}) \in Nat
  <2>1. /\ IsFiniteSet(Coming(c) \ {t})
        /\ Cardinality(Coming(c) \ {t}) = IF t \in Coming(c) THEN Cardinality(Coming(c)) - 1 ELSE Cardinality(Coming(c))
    BY ComingAreCounted, FS_RemoveElement
  <2>2. Cardinality(Coming(c) \ {t}) \in Nat
    BY <2>1, FS_CardinalityType
  <2> QED
    BY <2>1, <2>2, ComingAreCounted
<1>2. Cardinality(Coming(c) \ {t}) <= Cardinality(Coming(c)')
  BY <1>1, ComingAreCounted, FS_Subset
<1> QED
  BY <1>1, <1>2, ComingAreCounted DEF EndOK

\* nothing is there;
LEMMA EndHasNothing ==
    ASSUME IsFiniteSet(Threads), NEW c, There(c)' \in Int, There(c)' <= 0
    PROVE  EndOK(c)'
BY ComingAreCounted DEF EndOK

\* something more is there, and the first on the list is notified, who was asleep.
LEMMA EndNotified ==
    ASSUME IsFiniteSet(Threads), MInv, NEW c \in Conds, EndOK(c), todo[c] = <<>>,
           StartNotify(c, 1), UNCHANGED <<waiters, waiting>>, Looking(c) = {},
           There(c) \in Int, There(c)' \in Int, There(c)' <= There(c) + 1
    PROVE  EndOK(c)'
<1> DEFINE s == waiters[c]
           h == Head(s)
<1>1. /\ s \in Seq(Threads) /\ IsInjective(s) /\ Len(s) \in Nat
      /\ \A t \in ToSet(s) : IsWaiting(t) /\ waiting[t].cond = c
  BY LenProperties DEF MInv, CInv, CTypes, ListOK
<1>2. ToSet(<<>>) = {}
  BY DEF ToSet
<1>3. CASE s = <<>>
  BY <1>2, <1>3 DEF EndOK, Sleeping
<1>4. CASE s # <<>>
  <2>1. Len(s) \in Nat \ {0} /\ h \in ToSet(s) /\ h = s[1] /\ h \in Threads
    BY <1>1, <1>4, EmptySeq, WithoutHead, HeadTailProperties
  <2>2. todo'[c] = SubSeq(s, 1, 1)
    BY <2>1 DEF StartNotify, MInv, CInv, CTypes
  <2>3. ToSet(todo'[c]) = {h}
    <3>1. \A i \in 1 .. 1 : s[i] \in Threads
      BY <2>1
    <3>2. /\ SubSeq(s, 1, 1) \in Seq(Threads)
          /\ Len(SubSeq(s, 1, 1)) = IF 1 <= 1 THEN 1 - 1 + 1 ELSE 0
          /\ \A i \in 1 .. 1 - 1 + 1 : SubSeq(s, 1, 1)[i] = s[1 + i - 1]
      BY <3>1, SubSeqProperties
    <3> DEFINE r == SubSeq(s, 1, 1)
    <3> HIDE DEF r
    <3>4. r \in Seq(Threads) /\ Len(r) = 1 /\ r[1] = h
      BY <2>1, <3>2 DEF r
    <3>5. ToSet(r) = {r[i] : i \in 1 .. 1}
      BY <3>4, ElementsOf
    <3> QED
      BY <2>2, <3>4, <3>5 DEF r
  <2>4. Sleeping(c) = ToSet(s) /\ Sleeping(c)' = ToSet(s) \ {h}
    BY <1>2, <2>3 DEF Sleeping
  <2>5. h \notin Coming(c) /\ Coming(c) \cup {h} \subseteq Coming(c)'
    BY <1>1, <2>1, <2>4 DEF Coming, IsWaiting
  <2>6. IsFiniteSet(Coming(c) \cup {h}) /\ Cardinality(Coming(c) \cup {h}) = Cardinality(Coming(c)) + 1
    BY <2>5, ComingAreCounted, FS_AddElement
  <2>7. Cardinality(Coming(c)) + 1 <= Cardinality(Coming(c)')
    BY <2>5, <2>6, ComingAreCounted, FS_Subset
  <2> QED
    BY <2>1, <2>4, <2>7, ComingAreCounted DEF EndOK
<1> QED
  BY <1>3, <1>4

\* Steps that take nobody off the way to a queue they do not change.
LEMMA MoreComing ==
    ASSUME IsFiniteSet(Threads), Balance, queueKind \in Queues, queue \in Seq(Items),
           UNCHANGED <<queue, unfinishedTasks, queueKind>>,
           \A c \in Conds : Sleeping(c)' \subseteq Sleeping(c),
           \A c \in Ends : Coming(c) \subseteq Coming(c)'
    PROVE  Balance'
<1>1. ASSUME NEW c \in Ends PROVE EndOK(c)'
  <2>1. There(c) \in Int /\ There(c)' = There(c)
    BY LenProperties, QueueAssumption DEF There
  <2> QED
    BY <2>1, EndsAreConds, EndStays DEF Balance
<1> QED
  BY <1>1, AllShareTheMutex DEF Balance

LEMMA CallKeeps ==
    ASSUME IsFiniteSet(Threads), WInv, NEW t \in Threads, Call(t)
    PROVE  WInv'
<1>1. MInv /\ MInv' /\ CallsOK /\ Balance /\ queueKind \in Queues /\ queue \in Seq(Items)
  BY CallKeepsMInv DEF WInv, MInv, CallsOK
<1>2. PICK r \in Requests(queueKind) : call' = [call EXCEPT ![t] = r]
  BY DEF Call
<1>3. /\ pc[t] = "idle" /\ pc' = [pc EXCEPT ![t] = "acquire"]
      /\ UNCHANGED <<holder, waiters, woken, waiting, expired, todo, released, queue, unfinishedTasks, queueKind>>
  BY DEF Call, Goto, conditionVars
<1>4. call'[t] = r /\ r.item \in Items /\ \A u \in Threads \ {t} : call'[u] = call[u]
  BY <1>1, <1>2 DEF CallsOK, Items
<1>5. ~IsWaiting(t)
  BY <1>1, <1>3 DEF MInv
<1>6. CallsOK'
  <2>1. call' = [u \in Threads |-> call'[u]]
    BY <1>1, <1>2 DEF CallsOK
  <2> QED
    BY <1>1, <1>3, <1>4, <1>5, <2>1 DEF CallsOK, IsWaiting
<1>7. ASSUME NEW c \in Conds PROVE Sleeping(c)' = Sleeping(c) /\ Coming(c) \subseteq Coming(c)'
  <2>1. Sleeping(c)' = Sleeping(c)
    BY <1>3 DEF Sleeping
  <2>2. Looking(c) \subseteq Looking(c)'
    BY <1>1, <1>3, <1>4 DEF Looking, At, Runs, Holds, IsWaiting, MInv
  <2> QED
    BY <1>3, <2>1, <2>2 DEF Coming, IsWaiting
<1>8. Balance'
  BY <1>1, <1>3, <1>7, MoreComing, AllShareTheMutex DEF Ends
<1> QED
  BY <1>1, <1>6, <1>8 DEF WInv

LEMMA LockingKeeps ==
    ASSUME IsFiniteSet(Threads), WInv, NEW t \in Threads, Locking(t)
    PROVE  WInv'
<1>1. MInv /\ MInv' /\ CallsOK /\ Balance /\ queueKind \in Queues /\ queue \in Seq(Items)
  BY LockingKeepsMInv DEF WInv, MInv, CallsOK
<1>2. UNCHANGED <<waiters, todo, queue, unfinishedTasks, call, queueKind>> /\ holder["mutex"] = Nobody
  <2>1. Restore(t) => holder["mutex"] = Nobody /\ UNCHANGED <<waiters, todo>>
    BY <1>1, ReturnsClean, AllShareTheMutex DEF Restore, Lock, notifyVars, MInv
  <2> QED
    BY <2>1 DEF Locking, Acquire, Lock, waitVars, notifyVars, queueVars
<1>3. \A c \in Conds : Sleeping(c)' = Sleeping(c) /\ Looking(c) = {}
  BY <1>2, ConditionAssumption DEF Sleeping, Looking, At, Runs, Holds
<1>4. CASE Acquire(t)
  <2>1. UNCHANGED waiting
    BY <1>4 DEF Acquire, waitVars
  <2>2. CallsOK'
    BY <1>1, <1>2, <2>1 DEF CallsOK, IsWaiting
  <2>3. \A c \in Ends : Coming(c) \subseteq Coming(c)'
    BY <1>3, <2>1, EndsAreConds DEF Coming, IsWaiting
  <2> QED
    BY <1>1, <1>2, <1>3, <2>2, <2>3, MoreComing DEF WInv
<1>5. CASE Restore(t) /\ UNCHANGED queueVars
  <2>1. /\ IsWaiting(t) /\ waiting[t].cond \in Conds
        /\ waiting' = [waiting EXCEPT ![t] = NotWaiting] /\ holder' = [holder EXCEPT !["mutex"] = t] /\ pc' = pc
    <3>1. waiting[t].cond \in Conds
      BY <1>1, <1>5, ReturnsClean DEF MInv
    <3> QED
      BY <1>5, <3>1, AllShareTheMutex DEF Restore, Lock, IsWaiting, queueVars
  <2>2. ~IsWaiting(t)' /\ Holds(t, "mutex")' /\ \A u \in Threads \ {t} : waiting'[u] = waiting[u]
    BY <1>1, <2>1, AllShareTheMutex DEF MInv, CInv, CTypes, IsWaiting, NotWaiting, Holds
  <2>3. CallsOK'
    BY <1>1, <1>2, <2>2 DEF CallsOK, IsWaiting
  <2>4. pc[t] = "check"
    BY <1>1, <2>1 DEF MInv
  <2>5. ASSUME NEW c \in Ends PROVE Coming(c) \subseteq Coming(c)'
    <3>1. CASE waiting[t].cond = c
      <4>1. t \in Looking(c)'
        BY <1>1, <1>2, <2>1, <2>2, <2>4, <3>1 DEF Looking, At, Runs, CallsOK, Ends
      <4> QED
        BY <1>3, <2>2, <4>1, EndsAreConds DEF Coming, IsWaiting
    <3>2. CASE waiting[t].cond # c
      BY <1>3, <2>2, <3>2, EndsAreConds DEF Coming, IsWaiting
    <3> QED
      BY <3>1, <3>2
  <2> QED
    BY <1>1, <1>2, <1>3, <2>3, <2>5, MoreComing DEF WInv
<1> QED
  BY <1>4, <1>5 DEF Locking

LEMMA ExitKeeps ==
    ASSUME IsFiniteSet(Threads), WInv, NEW t \in Threads, Exit(t)
    PROVE  WInv'
<1>1. MInv /\ MInv' /\ CallsOK /\ Balance /\ queueKind \in Queues /\ queue \in Seq(Items)
  BY ExitKeepsMInv DEF WInv, MInv, CallsOK
<1>2. /\ pc[t] = "exit" /\ call' = [call EXCEPT ![t] = Idle]
      /\ UNCHANGED <<waiters, waiting, todo, queue, unfinishedTasks, queueKind>>
  BY DEF Exit, notifyVars
<1>3. ~IsWaiting(t) /\ Holds(t, "mutex")
  BY <1>1, <1>2 DEF MInv
<1>4. \A c \in Conds : Looking(c) = {}
  BY <1>1, <1>2, <1>3 DEF Looking, At, Runs, Holds
<1>5. CallsOK'
  <2>1. /\ call' = [u \in Threads |-> call'[u]] /\ call'[t] = Idle
        /\ \A u \in Threads \ {t} : call'[u] = call[u]
    BY <1>1, <1>2 DEF CallsOK
  <2> QED
    BY <1>1, <1>2, <1>3, <2>1 DEF CallsOK, IsWaiting, Idle
<1>6. /\ \A c \in Conds : Sleeping(c)' = Sleeping(c)
      /\ \A c \in Ends : Coming(c) \subseteq Coming(c)'
  BY <1>2, <1>4, EndsAreConds DEF Sleeping, Coming, IsWaiting
<1> QED
  BY <1>1, <1>2, <1>5, <1>6, MoreComing DEF WInv

LEMMA ByItselfKeeps ==
    ASSUME IsFiniteSet(Threads), WInv, NEW t \in Threads, ByItself(t)
    PROVE  WInv'
<1>1. MInv /\ MInv' /\ CallsOK /\ Balance /\ queueKind \in Queues /\ queue \in Seq(Items)
  BY ByItselfKeepsMInv DEF WInv, MInv, CallsOK
<1>2. /\ UNCHANGED <<holder, todo, queue, unfinishedTasks, call, pc, queueKind>> /\ IsWaiting(t)
      /\ waiters' = waiters \/ (waiters' = [waiters EXCEPT ![waiting[t].cond] = RemoveFirst(@, t)])
  BY DEF ByItself, WaitStep, WakeUp, TimeOut, RemoveWaiter, notifyVars, queueVars, IsWaiting
<1>3. \A u \in Threads : IsWaiting(u)' = IsWaiting(u) /\ (IsWaiting(u) => waiting'[u].cond = waiting[u].cond)
  <2>1. PICK a \in {"waiter", "remove", "restore"} : waiting' = [waiting EXCEPT ![t].at = a]
    BY DEF ByItself, WaitStep, WakeUp, TimeOut, RemoveWaiter
  <2>2. /\ waiting'[t].at = a /\ waiting'[t].cond = waiting[t].cond
        /\ \A u \in Threads \ {t} : waiting'[u] = waiting[u]
    BY <1>1, <1>2, <2>1, WaitGoesOn DEF MInv, CInv
  <2> QED
    BY <1>2, <2>2 DEF IsWaiting
<1>4. ASSUME NEW c \in Conds PROVE Sleeping(c)' \subseteq Sleeping(c)
  <2>1. waiters[c] \in Seq(Threads) /\ IsInjective(waiters[c]) /\ waiters \in [Conds -> Seq(Threads)]
    BY <1>1 DEF MInv, CInv, CTypes, ListOK
  <2>2. ToSet(RemoveFirst(waiters[c], t)) \subseteq ToSet(waiters[c])
    BY <2>1, RemovedOnce
  <2> QED
    BY <1>2, <2>1, <2>2 DEF Sleeping
<1>5. CallsOK'
  BY <1>1, <1>2, <1>3 DEF CallsOK
<1>6. ASSUME NEW c \in Ends PROVE Coming(c) \subseteq Coming(c)'
  <2>1. Looking(c) \subseteq Looking(c)'
    BY <1>2, <1>3 DEF Looking, At, Runs, Holds
  <2> QED
    BY <1>3, <1>4, <2>1, EndsAreConds DEF Coming
<1> QED
  BY <1>1, <1>2, <1>4, <1>5, <1>6, MoreComing DEF WInv

LEMMA WakingKeeps ==
    ASSUME IsFiniteSet(Threads), WInv, Waking
    PROVE  WInv'
<1>1. MInv /\ MInv' /\ CallsOK /\ Balance /\ queueKind \in Queues /\ queue \in Seq(Items)
  BY WakingKeepsMInv DEF WInv, MInv, CallsOK
<1>2. PICK d \in Conds : NotifyStep(d) /\ UNCHANGED queueVars
  BY DEF Waking
<1>3. UNCHANGED <<holder, waiting, queue, unfinishedTasks, call, pc, queueKind>>
  BY <1>2 DEF NotifyStep, ReleaseWaiter, RemoveNotified, queueVars
<1>4. ASSUME NEW c \in Conds PROVE Sleeping(c)' = Sleeping(c)
  <2>1. CASE ReleaseWaiter(d)
    BY <2>1 DEF ReleaseWaiter, Sleeping
  <2>2. CASE RemoveNotified(d)
    <3>1. /\ released[d] # Nobody
          /\ waiters' = [waiters EXCEPT ![d] = RemoveFirst(waiters[d], released[d])]
          /\ todo' = [todo EXCEPT ![d] = Tail(todo[d])]
      BY <2>2 DEF RemoveNotified
    <3>2. /\ waiters \in [Conds -> Seq(Threads)] /\ todo \in [Conds -> Seq(Threads)]
          /\ IsInjective(waiters[d]) /\ IsInjective(todo[d])
          /\ todo[d] # <<>> /\ released[d] = Head(todo[d])
      BY <1>1, <3>1 DEF MInv, CInv, CTypes, ListOK, NotifyOK
    <3>3. ToSet(RemoveFirst(waiters[d], released[d])) = ToSet(waiters[d]) \ {released[d]}
      BY <3>2, RemovedOnce
    <3>4. ToSet(Tail(todo[d])) = ToSet(todo[d]) \ {released[d]} /\ released[d] \in ToSet(todo[d])
      BY <3>2, WithoutHead
    <3> QED
      BY <3>1, <3>2, <3>3, <3>4 DEF Sleeping
  <2> QED
    BY <1>2, <2>1, <2>2 DEF NotifyStep
<1>5. CallsOK'
  BY <1>1, <1>3 DEF CallsOK, IsWaiting
<1>6. ASSUME NEW c \in Ends PROVE Coming(c) \subseteq Coming(c)'
  BY <1>3, <1>4, EndsAreConds DEF Coming, Looking, At, Runs, Holds, IsWaiting
<1> QED
  BY <1>1, <1>3, <1>4, <1>5, <1>6, MoreComing DEF WInv

\* A step inside a try block is taken while nothing is notified and nobody else looks.
LEMMA TryAlone ==
    ASSUME WInv, NEW t \in Threads, pc[t] = "check", Runs(t, "mutex")
    PROVE  /\ ~IsWaiting(t)
           /\ \A c \in Conds :
                 /\ todo[c] = <<>> /\ Sleeping(c) = ToSet(waiters[c])
                 /\ Looking(c) \subseteq {t}
                 /\ t \in Coming(c) => t \in Looking(c)
<1>1. ~IsWaiting(t) /\ MInv /\ \A c \in Conds : todo[c] = <<>>
  BY RunsAlone, AllShareTheMutex DEF WInv, Runs
<1>2. ToSet(<<>>) = {}
  BY DEF ToSet
<1>3. \A c \in Conds : Looking(c) \subseteq {t}
  BY <1>1, RunsAlone DEF Looking, At, Runs
<1> QED
  BY <1>1, <1>2, <1>3 DEF Sleeping, Coming

LEMMA FrontIsShorter ==
    ASSUME NEW S, NEW s \in Seq(S), s # <<>>
    PROVE  Front(s) \in Seq(S) /\ Len(Front(s)) = Len(s) - 1
<1>1. Len(s) \in Nat \ {0} /\ \A i \in 1 .. Len(s) : s[i] \in S
  BY LenProperties, EmptySeq, ElementOfSeq
<1>2. 1 \in Nat /\ Len(s) - 1 \in Nat /\ \A i \in 1 .. Len(s) - 1 : s[i] \in S
  BY <1>1
<1>3. /\ SubSeq(s, 1, Len(s) - 1) \in Seq(S)
      /\ Len(SubSeq(s, 1, Len(s) - 1)) = IF 1 <= Len(s) - 1 THEN (Len(s) - 1) - 1 + 1 ELSE 0
  BY <1>2, SubSeqProperties
<1> DEFINE r == SubSeq(s, 1, Len(s) - 1)
<1> HIDE DEF r
<1>4. r \in Seq(S) /\ Len(r) = IF 1 <= Len(s) - 1 THEN (Len(s) - 1) - 1 + 1 ELSE 0
  BY <1>3 DEF r
<1> DEFINE n == Len(s)
<1> HIDE DEF n
<1>5. n \in Nat \ {0} /\ Len(r) = IF 1 <= n - 1 THEN (n - 1) - 1 + 1 ELSE 0
  BY <1>1, <1>4 DEF n
<1>6. Len(r) = n - 1
  BY <1>5
<1> QED
  BY <1>4, <1>6 DEF Front, r, n

LEMMA ThereIsNumber ==
    ASSUME WInv, NEW c
    PROVE  Len(queue) \in Nat /\ queueKind.maxsize \in Nat /\ There(c) \in Int
  BY LenProperties, QueueAssumption DEF WInv, MInv, CallsOK, There

\* A call that leaves its try block takes nobody else off the way.
LEMMA LeaveIsAlone ==
    ASSUME WInv, NEW t \in Threads, pc[t] = "check", Runs(t, "mutex"),
           NEW a, Leave(t, a), MInv', queue' \in Seq(Items)
    PROVE  /\ CallsOK'
           /\ \A c \in Conds : Sleeping(c)' \subseteq Sleeping(c) /\ Coming(c) \ {t} \subseteq Coming(c)'
<1>1. /\ UNCHANGED <<waiters, waiting, queueKind>> /\ ~IsWaiting(t)
      /\ call' = [call EXCEPT ![t] = Answer(a)]
  BY TryAlone DEF Leave, waitVars
<1>2. /\ call' = [u \in Threads |-> call'[u]] /\ call'[t] = Answer(a)
      /\ \A u \in Threads \ {t} : call'[u] = call[u]
  BY <1>1 DEF WInv, CallsOK
<1>3. CallsOK'
  BY <1>1, <1>2 DEF WInv, CallsOK, IsWaiting, Answer
<1>4. ASSUME NEW c \in Conds
      PROVE  Sleeping(c)' \subseteq Sleeping(c) /\ Coming(c) \ {t} \subseteq Coming(c)'
  <2>1. Sleeping(c)' \subseteq Sleeping(c)
    BY <1>1, TryAlone DEF Sleeping
  <2> QED
    BY <1>1, <2>1, TryAlone DEF Coming, IsWaiting
<1> QED
  BY <1>3, <1>4

\* One who leaves empty-handed was not coming, or there was nothing.
LEMMA LeavesThingsAlone ==
    ASSUME IsFiniteSet(Threads), WInv, NEW t \in Threads, pc[t] = "check", Runs(t, "mutex"),
           NEW a, Leave(t, a), MInv', UNCHANGED queue,
           \A c \in Ends : t \in Looking(c) => There(c) <= 0
    PROVE  CallsOK' /\ \A c \in Ends : EndOK(c)'
<1>1. queue' \in Seq(Items) /\ UNCHANGED queueKind
  BY DEF WInv, CallsOK, Leave
<1>2. CallsOK'
  BY <1>1, LeaveIsAlone
<1>3. ASSUME NEW c \in Ends PROVE EndOK(c)'
  <2>1. c \in Conds /\ EndOK(c)
    BY EndsAreConds DEF WInv, Balance
  <2>2. There(c)' = There(c) /\ There(c) \in Int
    BY <1>1, ThereIsNumber DEF There
  <2>3. CASE t \in Looking(c)
    BY <2>2, <2>3, EndHasNothing
  <2>4. CASE t \notin Looking(c)
    <3>1. t \notin Coming(c)
      BY <2>1, <2>4, TryAlone
    <3>2. Sleeping(c)' \subseteq Sleeping(c) /\ Coming(c) \subseteq Coming(c)'
      BY <1>1, <2>1, <3>1, LeaveIsAlone
    <3> QED
      BY <2>1, <2>2, <3>2, EndStays
  <2> QED
    BY <2>3, <2>4
<1> QED
  BY <1>2, <1>3

LEMMA RaiseKeeps ==
    ASSUME IsFiniteSet(Threads), WInv, NEW t \in Threads, pc[t] = "check", Runs(t, "mutex"),
           NEW a, Raise(t, a), MInv',
           \A c \in Ends : t \in Looking(c) => There(c) <= 0
    PROVE  WInv'
<1>1. Leave(t, a) /\ UNCHANGED <<notifyVars, queue, unfinishedTasks>>
  BY DEF Raise
<1>2. CallsOK' /\ \A c \in Ends : EndOK(c)'
  BY <1>1, LeavesThingsAlone
<1>3. Sleeping("all_tasks_done")' = Sleeping("all_tasks_done")
  BY <1>1 DEF Leave, waitVars, notifyVars, Sleeping
<1> QED
  BY <1>1, <1>2, <1>3 DEF WInv, Balance

\* One who waits has found nothing there.
LEMMA BlocksKeeps ==
    ASSUME IsFiniteSet(Threads), WInv, NEW t \in Threads, pc[t] = "check", Runs(t, "mutex"),
           NEW c \in Conds, NEW timed, Wait(t, c, timed), UNCHANGED queueVars, MInv',
           call[t].op = Op(c), c # "all_tasks_done" => call[t].mode # "negative",
           IF c \in Ends THEN There(c) <= 0 ELSE unfinishedTasks > 0
    PROVE  WInv'
<1>1. /\ UNCHANGED <<todo, queue, unfinishedTasks, call, pc, queueKind>>
      /\ waiters' = [waiters EXCEPT ![c] = Append(waiters[c], t)]
      /\ waiting' = [waiting EXCEPT ![t] = [at |-> "waiter", cond |-> c, timed |-> timed]]
  BY DEF Wait, notifyVars, queueVars
<1>2. /\ waiting'[t].cond = c /\ IsWaiting(t)'
      /\ \A u \in Threads \ {t} : waiting'[u] = waiting[u]
  BY <1>1 DEF WInv, MInv, CInv, CTypes, IsWaiting
<1>3. CallsOK'
  BY <1>1, <1>2 DEF WInv, CallsOK, IsWaiting
<1>4. \A d \in Conds : There(d)' = There(d) /\ There(d) \in Int
  BY <1>1, ThereIsNumber DEF There
<1>5. ASSUME NEW d \in Conds, d # c
      PROVE  Sleeping(d)' = Sleeping(d) /\ Coming(d) \subseteq Coming(d)'
  <2>1. Sleeping(d)' = Sleeping(d)
    BY <1>1, <1>5 DEF Sleeping, WInv, MInv, CInv, CTypes
  <2>2. Op(d) # Op(c)
    BY <1>5, AllShareTheMutex DEF Op
  <2>3. Looking(d) = {}
    BY <2>2, TryAlone DEF Looking, At
  <2> QED
    BY <1>2, <2>1, <2>3, TryAlone DEF Coming, IsWaiting
<1>6. ASSUME NEW d \in Ends PROVE EndOK(d)'
  <2>1. d \in Conds /\ EndOK(d)
    BY EndsAreConds DEF WInv, Balance
  <2>2. CASE d = c
    BY <1>4, <2>1, <2>2, EndHasNothing
  <2>3. CASE d # c
    <3>1. Sleeping(d)' \subseteq Sleeping(d) /\ Coming(d) \subseteq Coming(d)'
      BY <1>5, <2>1, <2>3
    <3> QED
      BY <1>4, <2>1, <3>1, EndStays
  <2> QED
    BY <2>2, <2>3
<1>7. Sleeping("all_tasks_done")' # {} => unfinishedTasks' > 0
  BY <1>1, <1>5, AllShareTheMutex DEF WInv, Balance, Ends
<1> QED
  BY <1>3, <1>6, <1>7 DEF WInv, Balance

LEMMA PutKeeps ==
    ASSUME IsFiniteSet(Threads), NoHeap, WInv, NEW t \in Threads, Put(t), MInv'
    PROVE  WInv'
<1>1. pc[t] = "check" /\ Runs(t, "mutex") /\ call[t].op = "put"
  BY DEF Put, At
<1>2. \A c \in Ends : t \in Looking(c) => c = "not_full" /\ call[t].mode # "negative"
  BY <1>1 DEF Looking, At, Op, Ends
<1>3. Full => There("not_full") <= 0
  BY ThereIsNumber DEF Full, There
<1>4. CASE Bounded /\ call[t].mode = "negative" /\ Raise(t, "ValueError")
  BY <1>1, <1>2, <1>4, RaiseKeeps
<1>5. CASE Full /\ call[t].mode # "negative" /\ BlockOn(t, "not_full", "Full")
  <2>1. CASE Raise(t, "Full")
    BY <1>1, <1>2, <1>3, <1>5, <2>1, RaiseKeeps
  <2>2. CASE Wait(t, "not_full", call[t].mode = "timed") /\ UNCHANGED queueVars
    <3>1. "not_full" \in Conds /\ "not_full" \in Ends /\ call[t].op = Op("not_full")
      BY <1>1, AllShareTheMutex DEF Ends, Op
    <3> QED
      BY <1>1, <1>3, <1>5, <2>2, <3>1, BlocksKeeps
  <2> QED
    BY <1>5, <2>1, <2>2 DEF BlockOn
<1>6. CASE /\ ~Full /\ ~(Bounded /\ call[t].mode = "negative")
           /\ queue' = Stored(call[t].item)
           /\ unfinishedTasks' = unfinishedTasks + 1
           /\ StartNotify("not_empty", 1)
           /\ Leave(t, "done")
  <2> DEFINE x == call[t].item
  <2>0. queueKind.order # "priority"
    BY DEF NoHeap, WInv, MInv
  <2>1. queue' = Append(queue, x) /\ x \in Items /\ queue \in Seq(Items) /\ queueKind' = queueKind
    BY <1>1, <1>6, <2>0 DEF Stored, Leave, WInv, CallsOK
  <2> HIDE DEF x
  <2>2. queue' \in Seq(Items) /\ Len(queue') = Len(queue) + 1
    BY <2>1, AppendProperties
  <2>3. CallsOK' /\ \A c \in Conds : Sleeping(c)' \subseteq Sleeping(c) /\ Coming(c) \ {t} \subseteq Coming(c)'
    BY <1>1, <1>6, <2>2, LeaveIsAlone
  <2>4. \A c \in Ends : c \in Conds /\ EndOK(c) /\ todo[c] = <<>>
    BY <1>1, EndsAreConds, TryAlone DEF WInv, Balance
  <2>5. "not_full" \in Ends /\ "not_empty" \in Ends
    BY DEF Ends
  <2>6. EndOK("not_full")'
    <3>1. There("not_full")' = There("not_full") - 1 /\ There("not_full") \in Int
      BY <2>1, <2>2, ThereIsNumber DEF There
    <3>2. There("not_full")' \in Int /\ There("not_full")' <= There("not_full") - 1
      BY <3>1
    <3>3. /\ Sleeping("not_full")' \subseteq Sleeping("not_full")
          /\ Coming("not_full") \ {t} \subseteq Coming("not_full")'
      BY <2>3, <2>4, <2>5
    <3> QED
      BY <2>4, <2>5, <3>1, <3>2, <3>3, EndTaken
  <2>7. EndOK("not_empty")'
    <3>1. There("not_empty")' = There("not_empty") + 1 /\ There("not_empty") \in Int
      BY <2>1, <2>2, ThereIsNumber DEF There
    <3>2. There("not_empty") + 1 \in Int
      BY <3>1
    <3>3. Looking("not_empty") = {}
      BY <1>1, <1>2, <2>4, <2>5, TryAlone
    <3>4. UNCHANGED <<waiters, waiting>> /\ MInv
      BY <1>6 DEF Leave, waitVars, WInv
    <3> QED
      BY <1>6, <2>4, <2>5, <3>1, <3>2, <3>3, <3>4, EndNotified
  <2>8. unfinishedTasks' > 0
    BY <1>6 DEF WInv, MInv
  <2> QED
    BY <2>3, <2>6, <2>7, <2>8 DEF WInv, Balance, Ends
<1> QED
  BY <1>4, <1>5, <1>6 DEF Put

LEMMA GetKeeps ==
    ASSUME IsFiniteSet(Threads), NoHeap, WInv, NEW t \in Threads, Get(t), MInv'
    PROVE  WInv'
<1>1. pc[t] = "check" /\ Runs(t, "mutex") /\ call[t].op = "get"
  BY DEF Get, At
<1>2. \A c \in Ends : t \in Looking(c) => c = "not_empty" /\ call[t].mode # "negative"
  BY <1>1 DEF Looking, At, Op, Ends
<1>3. queue = <<>> => There("not_empty") <= 0
  BY DEF There
<1>4. CASE call[t].mode = "negative" /\ Raise(t, "ValueError")
  BY <1>1, <1>2, <1>4, RaiseKeeps
<1>5. CASE queue = <<>> /\ call[t].mode # "negative" /\ BlockOn(t, "not_empty", "Empty")
  <2>1. CASE Raise(t, "Empty")
    BY <1>1, <1>2, <1>3, <1>5, <2>1, RaiseKeeps
  <2>2. CASE Wait(t, "not_empty", call[t].mode = "timed") /\ UNCHANGED queueVars
    <3>1. "not_empty" \in Conds /\ "not_empty" \in Ends /\ call[t].op = Op("not_empty")
      BY <1>1, AllShareTheMutex DEF Ends, Op
    <3> QED
      BY <1>1, <1>3, <1>5, <2>2, <3>1, BlocksKeeps
  <2> QED
    BY <1>5, <2>1, <2>2 DEF BlockOn
<1>6. CASE /\ queue # <<>> /\ call[t].mode # "negative"
           /\ queue' = Rest
           /\ StartNotify("not_full", 1)
           /\ Leave(t, Next1)
           /\ UNCHANGED unfinishedTasks
  <2>1. queue \in Seq(Items) /\ Len(queue) \in Nat \ {0} /\ queueKind' = queueKind
    BY <1>6, LenProperties, EmptySeq DEF Leave, WInv, CallsOK
  <2>2. queue' \in Seq(Items) /\ Len(queue') = Len(queue) - 1
    <3>1. /\ Tail(queue) \in Seq(Items) /\ Len(Tail(queue)) = Len(queue) - 1
          /\ Front(queue) \in Seq(Items) /\ Len(Front(queue)) = Len(queue) - 1
      BY <1>6, <2>1, HeadTailProperties, FrontIsShorter
    <3>2. queueKind.order \in {"fifo", "lifo"}
      BY QueueAssumption DEF NoHeap, WInv, MInv
    <3> QED
      BY <1>6, <3>1, <3>2 DEF Rest
  <2>3. CallsOK' /\ \A c \in Conds : Sleeping(c)' \subseteq Sleeping(c) /\ Coming(c) \ {t} \subseteq Coming(c)'
    BY <1>1, <1>6, <2>2, LeaveIsAlone
  <2>4. \A c \in Ends : c \in Conds /\ EndOK(c) /\ todo[c] = <<>>
    BY <1>1, EndsAreConds, TryAlone DEF WInv, Balance
  <2>5. "not_full" \in Ends /\ "not_empty" \in Ends
    BY DEF Ends
  <2>6. EndOK("not_empty")'
    <3>1. There("not_empty")' = There("not_empty") - 1 /\ There("not_empty") \in Int
      BY <2>1, <2>2, ThereIsNumber DEF There
    <3>2. There("not_empty")' \in Int /\ There("not_empty")' <= There("not_empty") - 1
      BY <3>1
    <3>3. /\ Sleeping("not_empty")' \subseteq Sleeping("not_empty")
          /\ Coming("not_empty") \ {t} \subseteq Coming("not_empty")'
      BY <2>3, <2>4, <2>5
    <3> QED
      BY <2>4, <2>5, <3>1, <3>2, <3>3, EndTaken
  <2>7. EndOK("not_full")'
    <3>1. There("not_full")' = There("not_full") + 1 /\ There("not_full") \in Int
      BY <2>1, <2>2, ThereIsNumber DEF There
    <3>2. There("not_full") + 1 \in Int
      BY <3>1
    <3>3. Looking("not_full") = {}
      BY <1>1, <1>2, <2>4, <2>5, TryAlone
    <3>4. UNCHANGED <<waiters, waiting>> /\ MInv
      BY <1>6 DEF Leave, waitVars, WInv
    <3> QED
      BY <1>6, <2>4, <2>5, <3>1, <3>2, <3>3, <3>4, EndNotified
  <2>8. Sleeping("all_tasks_done")' \subseteq Sleeping("all_tasks_done")
    BY <2>3, AllShareTheMutex
  <2> QED
    BY <1>6, <2>3, <2>6, <2>7, <2>8 DEF WInv, Balance, Ends
<1> QED
  BY <1>4, <1>5, <1>6 DEF Get

\* The task_done() that leaves none unfinished wakes everybody.
LEMMA TaskDoneKeeps ==
    ASSUME IsFiniteSet(Threads), WInv, NEW t \in Threads, TaskDone(t), MInv'
    PROVE  WInv'
<1>1. pc[t] = "check" /\ Runs(t, "mutex") /\ call[t].op = "task_done"
  BY DEF TaskDone, At
<1>2. \A c \in Ends : t \notin Looking(c)
  BY <1>1 DEF Looking, At, Op, Ends
<1>3. CASE Raise(t, "ValueError")
  BY <1>1, <1>2, <1>3, RaiseKeeps
<1>4. CASE /\ unfinishedTasks > 0
           /\ unfinishedTasks' = unfinishedTasks - 1
           /\ IF unfinishedTasks = 1 THEN StartNotifyAll("all_tasks_done") ELSE UNCHANGED notifyVars
           /\ Leave(t, "done")
           /\ UNCHANGED queue
  <2>1. CallsOK' /\ \A c \in Ends : EndOK(c)'
    BY <1>1, <1>2, <1>4, LeavesThingsAlone
  <2>2. CASE unfinishedTasks = 1
    <3> DEFINE s == waiters["all_tasks_done"]
    <3>1. s \in Seq(Threads) /\ Len(s) \in Nat /\ "all_tasks_done" \in Conds
      BY AllShareTheMutex, LenProperties DEF WInv, MInv, CInv, CTypes
    <3>2. /\ todo' = [todo EXCEPT !["all_tasks_done"] = SubSeq(s, 1, Len(s))]
          /\ waiters' = waiters
      BY <1>4, <2>2 DEF StartNotifyAll, StartNotify, Leave, waitVars
    <3>3. SubSeq(s, 1, Len(s)) = s
      BY <3>1, SubSeqFull
    <3>4. Sleeping("all_tasks_done")' = {}
      BY <3>1, <3>2, <3>3 DEF Sleeping, WInv, MInv, CInv, CTypes
    <3> QED
      BY <2>1, <3>4 DEF WInv, Balance
  <2>3. CASE unfinishedTasks # 1
    <3>1. unfinishedTasks' > 0
      BY <1>4, <2>3 DEF WInv, MInv
    <3> QED
      BY <2>1, <3>1 DEF WInv, Balance
  <2> QED
    BY <2>2, <2>3
<1> QED
  BY <1>3, <1>4 DEF TaskDone

LEMMA JoinKeeps ==
    ASSUME IsFiniteSet(Threads), WInv, NEW t \in Threads, Join(t), MInv'
    PROVE  WInv'
<1>1. pc[t] = "check" /\ Runs(t, "mutex") /\ call[t].op = "join"
  BY DEF Join, At
<1>2. \A c \in Ends : t \notin Looking(c)
  BY <1>1 DEF Looking, At, Op, Ends
<1>3. CASE Raise(t, "done")
  BY <1>1, <1>2, <1>3, RaiseKeeps
<1>4. CASE unfinishedTasks > 0 /\ Wait(t, "all_tasks_done", FALSE) /\ UNCHANGED queueVars
  <2>1. "all_tasks_done" \in Conds /\ "all_tasks_done" \notin Ends /\ call[t].op = Op("all_tasks_done")
    BY <1>1, AllShareTheMutex DEF Ends, Op
  <2> QED
    BY <1>1, <1>4, <2>1, BlocksKeeps
<1> QED
  BY <1>3, <1>4 DEF Join

LEMMA NextKeepsWInv == IsFiniteSet(Threads) /\ NoHeap /\ WInv /\ [Next]_vars => WInv'
<1> SUFFICES ASSUME IsFiniteSet(Threads), NoHeap, WInv, [Next]_vars PROVE WInv'
  OBVIOUS
<1>1. MInv /\ MInv'
  BY NextKeepsMInv DEF WInv
<1>2. CASE UNCHANGED vars
  <2>1. CallsOK'
    BY <1>2 DEF WInv, CallsOK, vars, conditionVars, queueVars, IsWaiting
  <2>2. /\ \A c \in Conds : Sleeping(c)' = Sleeping(c) /\ Coming(c)' = Coming(c)
        /\ UNCHANGED <<queue, unfinishedTasks, queueKind>>
    BY <1>2 DEF vars, conditionVars, queueVars, Sleeping, Coming, Looking, At, Runs, Holds, IsWaiting
  <2>3. Balance'
    BY <2>2, EndsAreConds, MoreComing DEF WInv, MInv, CallsOK
  <2> QED
    BY <1>1, <2>1, <2>3 DEF WInv
<1>3. CASE Waking
  BY <1>3, WakingKeeps
<1>4. ASSUME NEW t \in Threads, Try(t) PROVE WInv'
  BY <1>1, <1>4, PutKeeps, GetKeeps, TaskDoneKeeps, JoinKeeps DEF Try
<1>5. ASSUME NEW t \in Threads, Call(t) \/ Locking(t) \/ Exit(t) \/ ByItself(t) PROVE WInv'
  BY <1>5, CallKeeps, LockingKeeps, ExitKeeps, ByItselfKeeps
<1> QED
  BY <1>2, <1>3, <1>4, <1>5 DEF Next

\* Nobody sleeps in put(), get() or join() unless everything there is has somebody on the
\* way to it, for any finite set of threads and any requests to FIFO and LIFO queues.
THEOREM NoWakeupLost ==
    ASSUME IsFiniteSet(Threads), NoHeap
    PROVE  Spec => []NobodyForgotten
<1>1. Init => WInv
  BY InitWInv
<1>2. WInv /\ [Next]_vars => WInv'
  BY NextKeepsWInv
<1>3. WInv => NobodyForgotten
  BY WInvImpliesNobodyForgotten
<1> QED
  BY <1>1, <1>2, <1>3, PTL DEF Spec
-----------------------------------------------------------------------------
\* Every step is a step of QueueSpec. A LIFO queue keeps its items in the order opposite to
\* the one in which it returns them.
LEMMA Reversed ==
    ASSUME NEW S, NEW s \in Seq(S)
    PROVE  /\ Reverse(s) \in Seq(S) /\ Len(Reverse(s)) = Len(s) /\ Len(s) \in Nat
           /\ \A i \in 1 .. Len(s) : Reverse(s)[i] = s[Len(s) - i + 1]
<1> DEFINE n == Len(s)
<1>1. n \in Nat /\ \A i \in 1 .. n : s[i] \in S
  BY LenProperties, ElementOfSeq
<1> HIDE DEF n
<1>2. \A i \in 1 .. n : (n - i) + 1 \in 1 .. n
  BY <1>1
<1>3. Reverse(s) = [i \in 1 .. n |-> s[(n - i) + 1]]
  BY DEF Reverse, n
<1>4. Reverse(s) \in [1 .. n -> S]
  BY <1>1, <1>2, <1>3
<1>5. Reverse(s) \in Seq(S) /\ Len(Reverse(s)) = n
  BY <1>1, <1>3, <1>4
<1> QED
  BY <1>1, <1>3, <1>5 DEF n

LEMMA ReversedAppend ==
    ASSUME NEW S, NEW s \in Seq(S), NEW x \in S
    PROVE  Reverse(Append(s, x)) = Cons(x, Reverse(s))
<1> DEFINE n == Len(s)
           a == Append(s, x)
           l == Reverse(a)
           q == Reverse(s)
           one == <<x>>
           r == one \o q
<1>1. /\ a \in Seq(S) /\ Len(a) = n + 1 /\ n \in Nat
      /\ \A i \in 1 .. n : a[i] = s[i]
      /\ a[n + 1] = x
  BY AppendProperties, LenProperties
<1>2. q \in Seq(S) /\ Len(q) = n /\ \A i \in 1 .. n : q[i] = s[n - i + 1]
  BY Reversed
<1>3. one \in Seq(S) /\ Len(one) = 1 /\ one[1] = x
  <2>1. <<>> \in Seq(S) /\ Len(<<>>) = 0
    BY EmptySeq
  <2>2. one = Append(<<>>, x)
    OBVIOUS
  <2> QED
    BY <2>1, <2>2, AppendProperties
<1> HIDE DEF n, a, q, one
<1>4. l \in Seq(S) /\ Len(l) = n + 1 /\ \A i \in 1 .. n + 1 : l[i] = a[(n + 1) - i + 1]
  <2>1. l \in Seq(S) /\ Len(l) = Len(a) /\ \A i \in 1 .. Len(a) : l[i] = a[Len(a) - i + 1]
    BY <1>1, Reversed
  <2> HIDE DEF l
  <2> QED
    BY <1>1, <2>1
<1>5. /\ r \in Seq(S) /\ Len(r) = Len(one) + Len(q)
      /\ \A i \in 1 .. Len(one) + Len(q) : r[i] = IF i <= Len(one) THEN one[i] ELSE q[i - Len(one)]
  <2>1. one \in Seq(S) /\ q \in Seq(S)
    BY <1>2, <1>3
  <2> QED
    BY <2>1, ConcatProperties
<1> HIDE DEF l, r
<1>6. Len(r) = n + 1 /\ \A i \in 1 .. n + 1 : r[i] = IF i = 1 THEN x ELSE q[i - 1]
  <2>1. Len(one) + Len(q) = n + 1
    BY <1>1, <1>2, <1>3
  <2>2. ASSUME NEW i \in 1 .. n + 1 PROVE r[i] = IF i = 1 THEN x ELSE q[i - 1]
    <3>1. r[i] = IF i <= 1 THEN one[i] ELSE q[i - 1]
      BY <1>3, <1>5, <2>1
    <3>2. i <= 1 <=> i = 1
      BY <1>1
    <3> QED
      BY <1>3, <3>1, <3>2
  <2> QED
    BY <1>5, <2>1, <2>2
<1>7. ASSUME NEW i \in 1 .. n + 1 PROVE l[i] = r[i]
  <2>1. CASE i = 1
    <3>1. (n + 1) - 1 + 1 = n + 1
      BY <1>1
    <3> QED
      BY <1>1, <1>4, <1>6, <2>1, <3>1
  <2>2. CASE i # 1
    <3>1. i - 1 \in 1 .. n /\ (n + 1) - i + 1 \in 1 .. n /\ n - (i - 1) + 1 = (n + 1) - i + 1
      BY <1>1, <2>2
    <3>2. r[i] = s[(n + 1) - i + 1]
      BY <1>2, <1>6, <2>2, <3>1
    <3>3. l[i] = s[(n + 1) - i + 1]
      BY <1>1, <1>4, <3>1
    <3> QED
      BY <3>2, <3>3
  <2> QED
    BY <2>1, <2>2
<1>8. l = r
  <2>1. l \in Seq(S) /\ r \in Seq(S) /\ Len(l) = Len(r)
    BY <1>4, <1>5, <1>6
  <2>2. \A i \in 1 .. Len(l) : l[i] = r[i]
    BY <1>4, <1>7
  <2> QED
    BY <2>1, <2>2, SeqEqual
<1> QED
  BY <1>8 DEF l, r, a, q, one, Cons

LEMMA ReversedFront ==
    ASSUME NEW S, NEW s \in Seq(S), s # <<>>
    PROVE  Reverse(s) # <<>> /\ Head(Reverse(s)) = Last(s) /\ Reverse(Front(s)) = Tail(Reverse(s))
<1> DEFINE n == Len(s)
           f == Front(s)
           l == Reverse(f)
           q == Reverse(s)
           r == Tail(q)
<1>1. n \in Nat \ {0}
  BY EmptySeq
<1>2. /\ f \in Seq(S) /\ Len(f) = n - 1 /\ \A i \in 1 .. n - 1 : f[i] = s[i]
  <2>1. \A i \in 1 .. n - 1 : s[i] \in S
    BY <1>1, ElementOfSeq
  <2>2. /\ f \in Seq(S) /\ Len(f) = IF 1 <= n - 1 THEN (n - 1) - 1 + 1 ELSE 0
        /\ \A i \in 1 .. (n - 1) - 1 + 1 : f[i] = s[1 + i - 1]
    BY <1>1, <2>1, SubSeqProperties DEF Front
  <2> HIDE DEF n, f
  <2> QED
    BY <1>1, <2>2
<1>3. /\ q \in Seq(S) /\ Len(q) = n /\ \A i \in 1 .. n : q[i] = s[n - i + 1]
  BY Reversed
<1>4. /\ l \in Seq(S) /\ Len(l) = n - 1 /\ \A i \in 1 .. n - 1 : l[i] = f[(n - 1) - i + 1]
  BY <1>2, Reversed
<1>5. q # <<>>
  BY <1>1, <1>3, EmptySeq
<1>6. /\ r \in Seq(S) /\ Len(r) = n - 1 /\ \A i \in 1 .. n - 1 : r[i] = q[i + 1]
  BY <1>3, <1>5, HeadTailProperties
<1>7. Head(q) = Last(s)
  <2>1. Head(q) = q[1]
    BY <1>3, <1>5
  <2>2. q[1] = s[n]
    <3> HIDE DEF n, q
    <3>1. 1 \in 1 .. n /\ n - 1 + 1 = n
      BY <1>1
    <3> QED
      BY <1>3, <3>1
  <2> QED
    BY <2>1, <2>2 DEF Last
<1> HIDE DEF n, f, l, q, r
<1>8. ASSUME NEW i \in 1 .. n - 1 PROVE l[i] = r[i]
  <2>1. (n - 1) - i + 1 \in 1 .. n - 1 /\ i + 1 \in 1 .. n /\ n - (i + 1) + 1 = (n - 1) - i + 1
    BY <1>1
  <2>2. l[i] = s[(n - 1) - i + 1]
    BY <1>2, <1>4, <2>1
  <2>3. r[i] = s[n - (i + 1) + 1]
    BY <1>3, <1>6, <2>1
  <2> QED
    BY <2>1, <2>2, <2>3
<1>9. l = r
  BY <1>4, <1>6, <1>8, SeqEqual
<1> QED
  BY <1>5, <1>7, <1>9 DEF f, l, q, r

LEMMA OrderIsKept ==
    ASSUME NoHeap, WInv
    PROVE  /\ queue = <<>> <=> Order = <<>>
           /\ Len(Order) = Len(queue)
           /\ Full <=> Abstract!Full
           /\ UNCHANGED <<queue, queueKind>> => Order' = Order
<1>1. queueKind.order \in {"fifo", "lifo"} /\ queue \in Seq(Items)
  BY QueueAssumption DEF NoHeap, WInv, MInv, CallsOK
<1>2. /\ Order = IF queueKind.order = "fifo" THEN queue ELSE Reverse(queue)
      /\ Order \in Seq(Items) /\ Len(Order) = Len(queue)
  BY <1>1, Reversed DEF Order
<1>3. queue = <<>> <=> Order = <<>>
  BY <1>1, <1>2, EmptySeq
<1>4. Full <=> Abstract!Full
  BY <1>2 DEF Full, Bounded, Abstract!Full, Abstract!Bounded
<1>5. UNCHANGED <<queue, queueKind>> => Order' = Order
  BY <1>1 DEF Order
<1> QED
  BY <1>2, <1>3, <1>4, <1>5

LEMMA PutOrder ==
    ASSUME NoHeap, WInv, NEW x \in Items, queue' = Stored(x), queueKind' = queueKind
    PROVE  Order' = Abstract!With(x)
<1>1. queueKind.order \in {"fifo", "lifo"} /\ queue \in Seq(Items)
  BY QueueAssumption DEF NoHeap, WInv, MInv, CallsOK
<1>2. queue' = Append(queue, x)
  BY <1>1 DEF Stored
<1>3. CASE queueKind.order = "fifo"
  BY <1>2, <1>3 DEF Order, Abstract!With
<1>4. CASE queueKind.order = "lifo"
  <2>1. Order = Reverse(queue) /\ Order' = Reverse(Append(queue, x))
    BY <1>2, <1>4 DEF Order
  <2>2. Order' = Cons(x, Order)
    BY <1>1, <2>1, ReversedAppend
  <2>3. Abstract!With(x) = Abstract!Cons(x, Order)
    BY <1>4 DEF Abstract!With
  <2> QED
    BY <2>2, <2>3 DEF Cons, Abstract!Cons
<1> QED
  BY <1>1, <1>3, <1>4

LEMMA GetOrder ==
    ASSUME NoHeap, WInv, queue # <<>>, queue' = Rest, queueKind' = queueKind
    PROVE  Order' = Tail(Order) /\ Next1 = Head(Order)
<1>1. queueKind.order \in {"fifo", "lifo"} /\ queue \in Seq(Items)
  BY QueueAssumption DEF NoHeap, WInv, MInv, CallsOK
<1>2. CASE queueKind.order = "fifo"
  BY <1>2 DEF Order, Rest, Next1
<1>3. CASE queueKind.order = "lifo"
  <2>1. queue' = Front(queue) /\ Next1 = Last(queue)
    BY <1>3 DEF Rest, Next1
  <2>2. Order' = Reverse(Front(queue)) /\ Order = Reverse(queue)
    BY <1>3, <2>1 DEF Order
  <2> QED
    BY <1>1, <2>1, <2>2, ReversedFront
<1> QED
  BY <1>1, <1>2, <1>3

\* What a call stands at is what its caller knows.
Phases ==
    \A t \in Threads :
        /\ pc[t] = "idle" => call[t] = Idle
        /\ pc[t] = "exit" => call[t].op = "answer"

LEMMA NextKeepsPhases ==
    ASSUME WInv, Phases, [Next]_vars
    PROVE  Phases'
<1>1. /\ pc \in [Threads -> {"idle", "acquire", "check", "exit"}]
      /\ call = [t \in Threads |-> call[t]]
  BY DEF WInv, MInv, CallsOK
<1>2. CASE UNCHANGED vars \/ Waking
  BY <1>2 DEF Waking, vars, queueVars, Phases
<1>3. ASSUME NEW t \in Threads, Call(t) \/ Locking(t) \/ Exit(t) \/ ByItself(t) PROVE Phases'
  BY <1>1, <1>3 DEF Call, Locking, Acquire, Exit, ByItself, Goto, queueVars, Phases
<1>4. ASSUME NEW t \in Threads, Try(t) PROVE Phases'
  <2>1. ASSUME NEW a, Leave(t, a) PROVE Phases'
    BY <1>1, <2>1 DEF Leave, Answer, Goto, Phases
  <2>2. UNCHANGED queueVars => Phases'
    BY DEF queueVars, Phases
  <2> QED
    BY <1>4, <2>1, <2>2 DEF Try, Put, Get, TaskDone, Join, BlockOn, Raise
<1> QED
  BY <1>2, <1>3, <1>4 DEF Next

LEMMA StepsRefine ==
    ASSUME NoHeap, WInv, Phases, [Next]_vars
    PROVE  [Abstract!Next]_(Abstract!vars)
<1>1. UNCHANGED queueVars => UNCHANGED Abstract!vars
  BY OrderIsKept DEF queueVars, Abstract!vars
<1>2. CASE UNCHANGED vars \/ Waking
  BY <1>1, <1>2 DEF Waking, vars
<1>3. ASSUME NEW t \in Threads, Call(t) PROVE Abstract!Call(t)
  <2>1. call[t] = Idle
    BY <1>3 DEF Call, Phases
  <2>2. Order' = Order
    BY <1>3, OrderIsKept DEF Call
  <2> QED
    BY <1>3, <2>1, <2>2 DEF Call, Abstract!Call, Idle, Abstract!Idle
<1>4. ASSUME NEW t \in Threads, Locking(t) \/ ByItself(t) PROVE UNCHANGED Abstract!vars
  BY <1>1, <1>4, OrderIsKept DEF Locking, Acquire, ByItself, Abstract!vars
<1>5. ASSUME NEW t \in Threads, Exit(t) PROVE Abstract!Return(t)
  BY <1>5, OrderIsKept DEF Exit, Abstract!Return, Idle, Abstract!Idle, Phases
<1>6. ASSUME NEW t \in Threads, NEW a, Leave(t, a) PROVE Abstract!Returns(t, a)
  BY <1>6 DEF Leave, Abstract!Returns, Answer, Abstract!Answer
<1>7. ASSUME NEW t \in Threads, NEW a, Raise(t, a)
      PROVE  Abstract!Returns(t, a) /\ UNCHANGED <<Order, unfinishedTasks>>
  BY <1>6, <1>7, OrderIsKept DEF Raise, Leave
<1>8. ASSUME NEW t \in Threads, Put(t) PROVE Abstract!Next \/ UNCHANGED Abstract!vars
  <2>1. CASE Bounded /\ call[t].mode = "negative" /\ Raise(t, "ValueError")
    BY <1>7, <1>8, <2>1 DEF Put, At, Bounded, Abstract!Bounded, Abstract!Fail, Abstract!Finish, Abstract!Next
  <2>2. CASE Full /\ call[t].mode # "negative" /\ BlockOn(t, "not_full", "Full")
    BY <1>1, <1>7, <1>8, <2>2, OrderIsKept
    DEF Put, At, BlockOn, Abstract!Fail, Abstract!Finish, Abstract!Next
  <2>3. CASE /\ ~Full /\ ~(Bounded /\ call[t].mode = "negative")
             /\ queue' = Stored(call[t].item)
             /\ unfinishedTasks' = unfinishedTasks + 1
             /\ Leave(t, "done")
    <3>1. call[t].op = "put" /\ call[t].item \in Items /\ queueKind' = queueKind
      BY <1>8, <2>3 DEF Put, At, Leave, WInv, CallsOK
    <3>2. Order' = Abstract!With(call[t].item)
      BY <2>3, <3>1, PutOrder
    <3>3. Abstract!Put(t)
      BY <1>6, <2>3, <3>1, <3>2, OrderIsKept DEF Abstract!Put, Bounded, Abstract!Bounded
    <3> QED
      BY <3>3 DEF Abstract!Finish, Abstract!Next
  <2> QED
    BY <1>8, <2>1, <2>2, <2>3 DEF Put
<1>9. ASSUME NEW t \in Threads, Get(t) PROVE Abstract!Next \/ UNCHANGED Abstract!vars
  <2>1. CASE call[t].mode = "negative" /\ Raise(t, "ValueError")
    BY <1>7, <1>9, <2>1 DEF Get, At, Abstract!Fail, Abstract!Finish, Abstract!Next
  <2>2. CASE queue = <<>> /\ call[t].mode # "negative" /\ BlockOn(t, "not_empty", "Empty")
    BY <1>1, <1>7, <1>9, <2>2, OrderIsKept
    DEF Get, At, BlockOn, Abstract!Fail, Abstract!Finish, Abstract!Next
  <2>3. CASE /\ queue # <<>> /\ call[t].mode # "negative"
             /\ queue' = Rest
             /\ Leave(t, Next1)
             /\ UNCHANGED unfinishedTasks
    <3>1. call[t].op = "get" /\ queueKind' = queueKind
      BY <1>9, <2>3 DEF Get, At, Leave
    <3>2. Order' = Tail(Order) /\ Next1 = Head(Order)
      BY <2>3, <3>1, GetOrder
    <3>3. Abstract!Get(t)
      BY <1>6, <2>3, <3>1, <3>2, OrderIsKept DEF Abstract!Get
    <3> QED
      BY <3>3 DEF Abstract!Finish, Abstract!Next
  <2> QED
    BY <1>9, <2>1, <2>2, <2>3 DEF Get
<1>10. ASSUME NEW t \in Threads, TaskDone(t) PROVE Abstract!Next
  <2>1. CASE unfinishedTasks = 0 /\ Raise(t, "ValueError")
    BY <1>7, <1>10, <2>1 DEF TaskDone, At, Abstract!Fail, Abstract!Finish, Abstract!Next
  <2>2. CASE /\ unfinishedTasks > 0
             /\ unfinishedTasks' = unfinishedTasks - 1
             /\ Leave(t, "done")
             /\ UNCHANGED queue
    <3>1. call[t].op = "task_done" /\ queueKind' = queueKind
      BY <1>10, <2>2 DEF TaskDone, At, Leave
    <3>2. Abstract!TaskDone(t)
      BY <1>6, <2>2, <3>1, OrderIsKept DEF Abstract!TaskDone
    <3> QED
      BY <3>2 DEF Abstract!Finish, Abstract!Next
  <2> QED
    BY <1>10, <2>1, <2>2 DEF TaskDone
<1>11. ASSUME NEW t \in Threads, Join(t) PROVE Abstract!Next \/ UNCHANGED Abstract!vars
  <2>1. CASE unfinishedTasks > 0 /\ UNCHANGED queueVars
    BY <1>1, <2>1
  <2>2. CASE unfinishedTasks = 0 /\ Raise(t, "done")
    BY <1>7, <1>11, <2>2 DEF Join, At, Abstract!Join, Abstract!Finish, Abstract!Next
  <2> QED
    BY <1>11, <2>1, <2>2 DEF Join
<1> QED
  BY <1>2, <1>3, <1>4, <1>5, <1>8, <1>9, <1>10, <1>11 DEF Next, Try, Abstract!Next

\* A FIFO or LIFO queue does to its callers what QueueSpec says, step by step, for any
\* finite set of threads and any requests.
THEOREM QueueImplementsSpec ==
    ASSUME IsFiniteSet(Threads), NoHeap
    PROVE  Spec => Abstract!Init /\ [][Abstract!Next]_(Abstract!vars)
<1>1. Init => WInv /\ Phases /\ Abstract!Init
  <2> SUFFICES ASSUME Init PROVE WInv /\ Phases /\ Abstract!Init
    OBVIOUS
  <2>1. WInv
    BY InitWInv
  <2>2. Order = <<>>
    BY <2>1, OrderIsKept DEF Init
  <2> QED
    BY <2>1, <2>2 DEF Init, Phases, Idle, Abstract!Init, Abstract!Idle
<1>2. WInv /\ Phases /\ [Next]_vars => WInv' /\ Phases' /\ [Abstract!Next]_(Abstract!vars)
  BY NextKeepsWInv, NextKeepsPhases, StepsRefine
<1> QED
  BY <1>1, <1>2, PTL DEF Spec
=============================================================================
