----------------------------- MODULE SyncProofs -----------------------------
(***************************************************************************)
(* Proofs about the two primitives of the threads: thread.lock for any set *)
(* of callers, and what wait(), its timeout and notify() of a condition    *)
(* preserve, whatever locks and conditions there are and whoever uses      *)
(* them: the facts that QueueProofs and ThreadingProofs rest on.           *)
(***************************************************************************)
EXTENDS ThreadLock, Condition, SequenceTheorems, TLAPS

(* thread.lock.                                                              *)

\* The inductive invariant: the wakeup argument needs the event that carries
\* the signal to exist while somebody waits, which LockTypeOK states.
LockInv == LockTypeOK /\ NoLostWakeup

\* Initially nobody waits and there is no event.
LEMMA LockInvInitially == LockInit => LockInv
BY DEF LockInit, LockInv, LockTypeOK, NoLostWakeup, LockSteps, EventStates

\* Every interlocked step of acquire and release keeps the types.
LEMMA LockTypeOKKept == LockTypeOK /\ [LockNext]_lockVars => LockTypeOK'
<1> SUFFICES ASSUME LockTypeOK, [LockNext]_lockVars PROVE LockTypeOK'
    OBVIOUS
<1> USE DEF LockTypeOK, LockSteps, EventStates, StepTo
<1>1. CASE UNCHANGED lockVars
    BY <1>1 DEF lockVars
<1>2. ASSUME NEW t \in Callers, CallAcquire(t) PROVE LockTypeOK'
    BY <1>2 DEF CallAcquire
<1>3. ASSUME NEW t \in Callers, Release(t) PROVE LockTypeOK'
    BY <1>3 DEF Release
<1>4. ASSUME NEW t \in Callers, CompareExchange(t) PROVE LockTypeOK'
    BY <1>4 DEF CompareExchange
<1>5. ASSUME NEW t \in Callers, LookAtEvent(t) PROVE LockTypeOK'
    BY <1>5 DEF LookAtEvent
<1>6. ASSUME NEW t \in Callers, CreateBlockEvent(t) PROVE LockTypeOK'
    BY <1>6 DEF CreateBlockEvent
<1>7. ASSUME NEW t \in Callers, WaitOne(t) PROVE LockTypeOK'
    BY <1>7 DEF WaitOne
<1>8. ASSUME NEW t \in Callers, CheckEvent(t) PROVE LockTypeOK'
    BY <1>8 DEF CheckEvent
<1>9. ASSUME NEW t \in Callers, SetEvent(t) PROVE LockTypeOK'
    BY <1>9 DEF SetEvent
<1> QED
    BY <1>1, <1>2, <1>3, <1>4, <1>5, <1>6, <1>7, <1>8, <1>9 DEF LockNext, Continue

\* A step moves one thread; what it does to the wakeup depends on the action.
LEMMA WakeupKept == LockInv /\ [LockNext]_lockVars => NoLostWakeup'
<1> SUFFICES ASSUME LockInv, [LockNext]_lockVars PROVE NoLostWakeup'
    OBVIOUS
<1> USE NoThreadAssumption
    DEF LockInv, LockTypeOK, NoLostWakeup, LockSteps, EventStates, StepTo
<1>1. CASE UNCHANGED lockVars
    BY <1>1 DEF lockVars
<1>2. ASSUME NEW t \in Callers, CallAcquire(t) PROVE NoLostWakeup'
    BY <1>2 DEF CallAcquire
\* A release that freed the lock is itself the thread that will signal.
<1>3. ASSUME NEW t \in Callers, Release(t) PROVE NoLostWakeup'
    BY <1>3 DEF Release
\* A failed compare-and-swap means the lock is held; a successful one takes it.
<1>4. ASSUME NEW t \in Callers, CompareExchange(t) PROVE NoLostWakeup'
    BY <1>4 DEF CompareExchange
<1>5. ASSUME NEW t \in Callers, LookAtEvent(t) PROVE NoLostWakeup'
    BY <1>5 DEF LookAtEvent
\* The thread that creates the event tries the lock again before it waits.
<1>6. ASSUME NEW t \in Callers, CreateBlockEvent(t) PROVE NoLostWakeup'
    BY <1>6 DEF CreateBlockEvent
\* The thread that consumes the signal competes for the lock.
<1>7. ASSUME NEW t \in Callers, WaitOne(t) PROVE NoLostWakeup'
    BY <1>7 DEF WaitOne
\* A release that finds no event leaves: nobody can be waiting on it.
<1>8. ASSUME NEW t \in Callers, CheckEvent(t) PROVE NoLostWakeup'
    BY <1>8 DEF CheckEvent
<1>9. ASSUME NEW t \in Callers, SetEvent(t) PROVE NoLostWakeup'
    BY <1>9 DEF SetEvent
<1> QED
    BY <1>1, <1>2, <1>3, <1>4, <1>5, <1>6, <1>7, <1>8, <1>9 DEF LockNext, Continue

\* The inductive invariant holds in every reachable state.
THEOREM LockInvariance == ThreadLockSpec => []LockInv
<1>1. LockInv /\ [LockNext]_lockVars => LockInv'
    BY LockTypeOKKept, WakeupKept DEF LockInv
<1> QED
    BY LockInvInitially, <1>1, PTL DEF ThreadLockSpec

\* acquire and release never leave their fields outside their types.
THEOREM LockTypeCorrect == ThreadLockSpec => []LockTypeOK
<1>1. LockInv => LockTypeOK
    BY DEF LockInv
<1> QED
    BY LockInvariance, <1>1, PTL

\* For any number of threads no release loses the wakeup of a blocked acquire.
THEOREM WakeupNeverLost == ThreadLockSpec => []NoLostWakeup
<1>1. LockInv => NoLostWakeup
    BY DEF LockInv
<1> QED
    BY LockInvariance, <1>1, PTL

\* Without its fairness, the code's every step is a step of the abstract lock:
\* a failed compare-and-swap, the event's creation and its signal are stutters.
THEOREM LockSimulation == ThreadLockSpec => AbstractLock!Init /\ [][AbstractLock!Next]_(AbstractLock!vars)
<1>1. LockInit => AbstractLock!Init
    BY DEF LockInit, AbstractLock!Init, Blocked
<1>2. LockInv /\ [LockNext]_lockVars => [AbstractLock!Next]_(AbstractLock!vars)
  <2> SUFFICES ASSUME LockInv, [LockNext]_lockVars PROVE [AbstractLock!Next]_(AbstractLock!vars)
      OBVIOUS
  <2> USE NoThreadAssumption
      DEF LockInv, LockTypeOK, LockSteps, StepTo, Blocked, AbstractLock!vars
  <2>1. CASE UNCHANGED lockVars
      BY <2>1 DEF lockVars
  <2>2. ASSUME NEW t \in Callers, CallAcquire(t)
        PROVE  AbstractLock!Want(t) \/ UNCHANGED AbstractLock!vars
      BY <2>2 DEF CallAcquire, AbstractLock!Want
  <2>3. ASSUME NEW t \in Callers, Release(t)
        PROVE  AbstractLock!Release \/ UNCHANGED AbstractLock!vars
      BY <2>3 DEF Release, AbstractLock!Release
  <2>4. ASSUME NEW t \in Callers, CompareExchange(t)
        PROVE  AbstractLock!Grant(t) \/ AbstractLock!TryGrant(t) \/ UNCHANGED AbstractLock!vars
      BY <2>4 DEF CompareExchange, AbstractLock!Grant, AbstractLock!TryGrant
  <2>5. ASSUME NEW t \in Callers,
                LookAtEvent(t) \/ CreateBlockEvent(t) \/ WaitOne(t) \/ CheckEvent(t) \/ SetEvent(t)
        PROVE  UNCHANGED AbstractLock!vars
      BY <2>5 DEF LookAtEvent, CreateBlockEvent, WaitOne, CheckEvent, SetEvent
  <2> QED
      BY <2>1, <2>2, <2>3, <2>4, <2>5 DEF LockNext, Continue, AbstractLock!Next
<1> QED
    BY LockInvariance, <1>1, <1>2, PTL DEF ThreadLockSpec
-----------------------------------------------------------------------------
(* The condition variables.                                                  *)

CTypes ==
    /\ holder \in [Locks -> Threads \cup {Nobody}]
    /\ waiters \in [Conds -> Seq(Threads)] /\ todo \in [Conds -> Seq(Threads)]
    /\ woken \subseteq Threads /\ expired \subseteq Threads
    /\ waiting \in [Threads -> Waits]
    /\ released \in [Conds -> Threads \cup {Nobody}]

\* The threads on a list wait for its condition; one whose waiter was released is on it
\* only until the notify() that released it goes on.
ListOK(c) ==
    /\ IsInjective(waiters[c])
    /\ \A t \in ToSet(waiters[c]) :
          /\ IsWaiting(t) /\ waiting[t].cond = c
          /\ t \in woken \/ waiting[t].at = "restore" => released[c] = t

\* A notify() deals with threads inside wait(), for it has the lock they need to return.
NotifyOK(c) ==
    /\ IsInjective(todo[c])
    /\ \A t \in ToSet(todo[c]) : IsWaiting(t) /\ waiting[t].cond = c
    /\ released[c] # Nobody => todo[c] # <<>> /\ released[c] = Head(todo[c])
    /\ todo[c] # <<>> => holder[LockOf[c]] # Nobody

\* A thread that sleeps is on the list, and no notify() has released it.
SleeperOK(t) ==
    waiting[t].at = "waiter" /\ t \notin woken =>
        t \in ToSet(waiters[waiting[t].cond]) /\ released[waiting[t].cond] # t

CInv ==
    /\ CTypes
    /\ \A t \in Threads : SleeperOK(t)
    /\ \A c \in Conds : ListOK(c) /\ NotifyOK(c)
    /\ \A t \in woken : IsWaiting(t)
-----------------------------------------------------------------------------
\* Lists without duplicates.
LEMMA ElementsOf ==
    ASSUME NEW S, NEW s \in Seq(S)
    PROVE  /\ DOMAIN s = 1 .. Len(s)
           /\ ToSet(s) = {s[i] : i \in 1 .. Len(s)}
           /\ ToSet(s) \subseteq S
<1>1. DOMAIN s = 1 .. Len(s)
  BY LenProperties
<1> QED
  BY <1>1, ElementOfSeq DEF ToSet

LEMMA AppendedOnce ==
    ASSUME NEW S, NEW s \in Seq(S), IsInjective(s), NEW x \in S, x \notin ToSet(s)
    PROVE  /\ Append(s, x) \in Seq(S) /\ IsInjective(Append(s, x))
           /\ ToSet(Append(s, x)) = ToSet(s) \cup {x}
<1> DEFINE r == Append(s, x)
<1>1. /\ r \in Seq(S) /\ Len(r) = Len(s) + 1 /\ Len(s) \in Nat
      /\ \A i \in 1 .. Len(s) : r[i] = s[i]
      /\ r[Len(s) + 1] = x
  BY AppendProperties, LenProperties
<1>2. /\ DOMAIN r = 1 .. Len(r) /\ ToSet(r) = {r[i] : i \in 1 .. Len(r)}
      /\ DOMAIN s = 1 .. Len(s) /\ ToSet(s) = {s[i] : i \in 1 .. Len(s)}
  BY <1>1, ElementsOf
<1> HIDE DEF r
<1>3. IsInjective(r)
  BY <1>1, <1>2 DEF IsInjective
<1>4. ToSet(r) = ToSet(s) \cup {x}
  BY <1>1, <1>2
<1> QED
  BY <1>1, <1>3, <1>4 DEF r

LEMMA FrontPart ==
    ASSUME NEW S, NEW s \in Seq(S), IsInjective(s), NEW n \in 0 .. Len(s)
    PROVE  /\ SubSeq(s, 1, n) \in Seq(S) /\ IsInjective(SubSeq(s, 1, n))
           /\ ToSet(SubSeq(s, 1, n)) \subseteq ToSet(s)
<1> DEFINE r == SubSeq(s, 1, n)
<1>1. Len(s) \in Nat /\ n \in Nat /\ n <= Len(s)
  BY LenProperties
<1>2. /\ r \in Seq(S) /\ Len(r) = n
      /\ \A i \in 1 .. n : r[i] = s[i]
  BY <1>1, ElementOfSeq, SubSeqProperties
<1>3. /\ DOMAIN r = 1 .. Len(r) /\ ToSet(r) = {r[i] : i \in 1 .. Len(r)}
      /\ DOMAIN s = 1 .. Len(s) /\ ToSet(s) = {s[i] : i \in 1 .. Len(s)}
  BY <1>2, ElementsOf
<1> HIDE DEF r
<1>4. IsInjective(r) /\ ToSet(r) \subseteq ToSet(s)
  BY <1>1, <1>2, <1>3 DEF IsInjective
<1> QED
  BY <1>2, <1>4 DEF r

LEMMA WithoutHead ==
    ASSUME NEW S, NEW s \in Seq(S), IsInjective(s), s # <<>>
    PROVE  /\ Tail(s) \in Seq(S) /\ IsInjective(Tail(s))
           /\ Head(s) \in ToSet(s) /\ ToSet(Tail(s)) = ToSet(s) \ {Head(s)}
<1> DEFINE r == Tail(s)
<1>1. /\ r \in Seq(S) /\ Len(s) \in Nat \ {0} /\ Len(r) = Len(s) - 1
      /\ \A i \in 1 .. Len(r) : r[i] = s[i + 1]
      /\ Head(s) = s[1]
  BY HeadTailProperties, EmptySeq
<1>2. /\ DOMAIN r = 1 .. Len(r) /\ ToSet(r) = {r[i] : i \in 1 .. Len(r)}
      /\ DOMAIN s = 1 .. Len(s) /\ ToSet(s) = {s[i] : i \in 1 .. Len(s)}
  BY <1>1, ElementsOf
<1> HIDE DEF r
<1>3. IsInjective(r)
  BY <1>1, <1>2 DEF IsInjective
<1>4. Head(s) \in ToSet(s) /\ ToSet(r) \subseteq ToSet(s) \ {Head(s)}
  BY <1>1, <1>2 DEF IsInjective
<1>5. ASSUME NEW i \in 1 .. Len(s), i # 1 PROVE s[i] \in ToSet(r)
  <2>1. i - 1 \in 1 .. Len(r) /\ (i - 1) + 1 = i
    BY <1>1, <1>5
  <2> QED
    BY <1>1, <1>2, <2>1
<1>6. ToSet(s) \ {Head(s)} \subseteq ToSet(r)
  BY <1>1, <1>2, <1>5
<1> QED
  BY <1>1, <1>3, <1>4, <1>6 DEF r

\* The waiter that is removed, if it is there, is gone, and the others are not.
LEMMA RemovedOnce ==
    ASSUME NEW S, NEW s \in Seq(S), IsInjective(s), NEW x
    PROVE  /\ RemoveFirst(s, x) \in Seq(S) /\ IsInjective(RemoveFirst(s, x))
           /\ ToSet(RemoveFirst(s, x)) = ToSet(s) \ {x}
<1>1. /\ DOMAIN s = 1 .. Len(s) /\ ToSet(s) = {s[i] : i \in 1 .. Len(s)} /\ Len(s) \in Nat
      /\ \A i \in 1 .. Len(s) : s[i] \in S
  BY ElementsOf, LenProperties, ElementOfSeq
<1>2. CASE ~\E i \in 1 .. Len(s) : s[i] = x
  BY <1>1, <1>2 DEF RemoveFirst
<1>3. CASE \E i \in 1 .. Len(s) : s[i] = x
  <2>1. PICK j \in 1 .. Len(s) : s[j] = x
    BY <1>3
  <2> DEFINE I == {i \in 1 .. Len(s) : s[i] = x}
             k == SelectInSeq(s, LAMBDA v : v = x)
             a == SubSeq(s, 1, j - 1)
             b == SubSeq(s, j + 1, Len(s))
             r == a \o b
  <2>2. I = {j}
    BY <2>1, <1>1 DEF IsInjective
  <2>3. k = j
    <3>1. k = Min(I)
      BY <2>2 DEF SelectInSeq
    <3>2. j \in Int /\ Min({j}) = j
      BY <2>1 DEF Min
    <3> QED
      BY <3>1, <3>2, <2>2
  <2>4. /\ a \in Seq(S) /\ Len(a) = j - 1 /\ \A i \in 1 .. j - 1 : a[i] = s[i]
    <3>1. \A i \in 1 .. j - 1 : s[i] \in S
      BY <1>1, <2>1
    <3>2. /\ a \in Seq(S) /\ Len(a) = IF 1 <= j - 1 THEN (j - 1) - 1 + 1 ELSE 0
          /\ \A i \in 1 .. (j - 1) - 1 + 1 : a[i] = s[1 + i - 1]
      BY <3>1, SubSeqProperties
    <3> QED
      BY <3>2
  <2>5. /\ b \in Seq(S) /\ Len(b) = Len(s) - j /\ \A i \in 1 .. Len(s) - j : b[i] = s[j + i]
    <3>1. \A i \in j + 1 .. Len(s) : s[i] \in S
      BY <1>1, <2>1
    <3>2. /\ b \in Seq(S) /\ Len(b) = IF j + 1 <= Len(s) THEN Len(s) - (j + 1) + 1 ELSE 0
          /\ \A i \in 1 .. Len(s) - (j + 1) + 1 : b[i] = s[(j + 1) + i - 1]
      BY <3>1, <1>1, SubSeqProperties
    <3> HIDE DEF b
    <3>3. PICK n \in Nat : n = Len(s)
      BY <1>1
    <3>4. n - (j + 1) + 1 = n - j /\ j \in 1 .. n
      BY <3>3
    <3>5. Len(b) = n - j
      BY <3>2, <3>3, <3>4
    <3>6. ASSUME NEW i \in 1 .. n - j PROVE b[i] = s[j + i]
      <4>1. (j + 1) + i - 1 = j + i
        BY <3>4
      <4>2. b[i] = s[(j + 1) + i - 1]
        BY <3>2, <3>3, <3>4
      <4> QED
        BY <4>1, <4>2
    <3> QED
      BY <3>2, <3>3, <3>5, <3>6
  <2>6. RemoveFirst(s, x) = r
    BY <1>3, <2>3 DEF RemoveFirst, RemoveAt
  <2> HIDE DEF a, b, k, I
  <2>7. /\ r \in Seq(S) /\ Len(r) = Len(s) - 1
        /\ \A i \in 1 .. Len(s) - 1 : r[i] = IF i < j THEN s[i] ELSE s[i + 1]
    <3>1. /\ r \in Seq(S) /\ Len(r) = Len(a) + Len(b)
          /\ \A i \in 1 .. Len(a) + Len(b) : r[i] = IF i <= Len(a) THEN a[i] ELSE b[i - Len(a)]
      BY <2>4, <2>5, ConcatProperties
    <3> HIDE DEF r
    <3>2. Len(a) + Len(b) = Len(s) - 1 /\ Len(s) \in Nat
      BY <1>1, <2>1, <2>4, <2>5
    <3>3. ASSUME NEW i \in 1 .. Len(s) - 1 PROVE r[i] = IF i < j THEN s[i] ELSE s[i + 1]
      <4>1. CASE i < j
        <5>1. i \in 1 .. j - 1
          BY <4>1, <3>2
        <5> QED
          BY <4>1, <5>1, <3>1, <3>2, <2>4
      <4>2. CASE ~(i < j)
        <5>1. i - (j - 1) \in 1 .. Len(s) - j /\ ~(i <= j - 1) /\ j + (i - (j - 1)) = i + 1
          BY <4>2, <3>2, <2>1
        <5>2. r[i] = b[i - (j - 1)]
          BY <5>1, <3>1, <3>2, <2>4
        <5>3. b[i - (j - 1)] = s[j + (i - (j - 1))]
          BY <5>1, <2>5
        <5> QED
          BY <4>2, <5>1, <5>2, <5>3
      <4> QED
        BY <4>1, <4>2
    <3> QED
      BY <3>1, <3>2, <3>3
  <2> HIDE DEF r
  <2>8. DOMAIN r = 1 .. Len(r) /\ ToSet(r) = {r[i] : i \in 1 .. Len(r)}
    BY <2>7, ElementsOf
  <2>9. IsInjective(r)
    <3>1. \A p, q \in 1 .. Len(s) : s[p] = s[q] => p = q
      BY <1>1 DEF IsInjective
    <3>2. \A p \in 1 .. Len(s) - 1 : p \in 1 .. Len(s) /\ p + 1 \in 1 .. Len(s)
      BY <1>1
    <3>3. ASSUME NEW p \in 1 .. Len(s) - 1, NEW q \in 1 .. Len(s) - 1, r[p] = r[q]
          PROVE  p = q
      <4>1. /\ r[p] = IF p < j THEN s[p] ELSE s[p + 1]
            /\ r[q] = IF q < j THEN s[q] ELSE s[q + 1]
        BY <2>7
      <4>2. CASE p < j /\ q < j
        BY <3>1, <3>2, <3>3, <4>1, <4>2
      <4>3. CASE ~(p < j) /\ ~(q < j)
        <5>1. p + 1 = q + 1
          BY <3>1, <3>2, <3>3, <4>1, <4>3
        <5> QED
          BY <5>1
      <4>4. CASE p < j /\ ~(q < j)
        <5>1. p = q + 1
          BY <3>1, <3>2, <3>3, <4>1, <4>4
        <5> QED
          BY <4>4, <5>1
      <4>5. CASE ~(p < j) /\ q < j
        <5>1. p + 1 = q
          BY <3>1, <3>2, <3>3, <4>1, <4>5
        <5> QED
          BY <4>5, <5>1
      <4> QED
        BY <4>2, <4>3, <4>4, <4>5
    <3> QED
      BY <2>7, <2>8, <3>3 DEF IsInjective
  <2>10. ToSet(r) \subseteq ToSet(s) \ {x}
    <3>1. \A i \in 1 .. Len(s) : s[i] = x => i = j
      BY <1>1, <2>1 DEF IsInjective
    <3>2. ASSUME NEW i \in 1 .. Len(s) - 1 PROVE r[i] \in ToSet(s) \ {x}
      <4>1. i \in 1 .. Len(s) /\ i + 1 \in 1 .. Len(s)
        BY <1>1
      <4>2. CASE i < j
        BY <1>1, <2>7, <3>1, <4>1, <4>2
      <4>3. CASE ~(i < j)
        <5>1. r[i] = s[i + 1] /\ i + 1 # j
          BY <2>7, <4>3
        <5> QED
          BY <1>1, <3>1, <4>1, <5>1
      <4> QED
        BY <4>2, <4>3
    <3> QED
      BY <2>7, <2>8, <3>2
  <2>11. ToSet(s) \ {x} \subseteq ToSet(r)
    <3> SUFFICES ASSUME NEW i \in 1 .. Len(s), s[i] # x PROVE s[i] \in ToSet(r)
      BY <1>1
    <3>1. CASE i < j
      BY <3>1, <1>1, <2>1, <2>7, <2>8
    <3>2. CASE i > j
      <4>1. i - 1 \in 1 .. Len(s) - 1 /\ ~(i - 1 < j) /\ (i - 1) + 1 = i
        BY <3>2, <1>1, <2>1
      <4> QED
        BY <4>1, <2>7, <2>8
    <3> QED
      BY <3>1, <3>2, <2>1, <1>1
  <2> QED
    BY <2>6, <2>7, <2>9, <2>10, <2>11
<1> QED
  BY <1>2, <1>3
-----------------------------------------------------------------------------
\* A thread goes on inside its wait().
LEMMA WaitGoesOn ==
    ASSUME CTypes, NEW t \in Threads, IsWaiting(t), NEW a \in {"waiter", "remove", "restore"},
           waiting' = [waiting EXCEPT ![t].at = a]
    PROVE  /\ waiting[t].cond \in Conds
           /\ waiting' \in [Threads -> Waits]
           /\ waiting'[t].cond = waiting[t].cond /\ waiting'[t].at = a
           /\ \A u \in Threads \ {t} : waiting'[u] = waiting[u]
           /\ \A u \in Threads : IsWaiting(u) => IsWaiting(u)' /\ waiting'[u].cond = waiting[u].cond
<1> DEFINE W == [at : {"waiter", "remove", "restore"}, cond : Conds, timed : BOOLEAN]
<1>1. waiting \in [Threads -> Waits] /\ waiting[t] \in Waits /\ waiting[t].at # "none"
  BY DEF CTypes, IsWaiting
<1>2. waiting[t] \in W
  BY <1>1 DEF Waits, NotWaiting
<1>3. [waiting[t] EXCEPT !.at = a] \in W /\ [waiting[t] EXCEPT !.at = a].at = a
      /\ [waiting[t] EXCEPT !.at = a].cond = waiting[t].cond
  BY <1>2
<1>4. waiting' = [waiting EXCEPT ![t] = [waiting[t] EXCEPT !.at = a]]
  BY <1>1
<1>5. waiting[t].cond \in Conds
  BY <1>2
<1>6. W \subseteq Waits
  BY DEF Waits
<1> HIDE DEF W
<1>7. /\ waiting' \in [Threads -> Waits] /\ waiting'[t] = [waiting[t] EXCEPT !.at = a]
      /\ \A u \in Threads \ {t} : waiting'[u] = waiting[u]
  BY <1>1, <1>3, <1>4, <1>6
<1> QED
  BY <1>1, <1>3, <1>5, <1>7 DEF IsWaiting

LEMMA CInvImpliesTypeOK == CInv => ConditionTypeOK
<1> SUFFICES ASSUME CInv, NEW c \in Conds
             PROVE  /\ ToSet(todo[c]) \subseteq Threads
                    /\ released[c] \in {Nobody} \cup ToSet(todo[c])
  BY DEF CInv, CTypes, ListOK, NotifyOK, ConditionTypeOK
<1>1. todo[c] \in Seq(Threads) /\ NotifyOK(c)
  BY DEF CInv, CTypes
<1>2. ToSet(todo[c]) \subseteq Threads
  BY <1>1, ElementsOf
<1>3. todo[c] # <<>> => Head(todo[c]) \in ToSet(todo[c])
  BY <1>1, WithoutHead DEF NotifyOK
<1> QED
  BY <1>1, <1>2, <1>3 DEF NotifyOK

LEMMA InitCInv == ConditionInit => CInv
<1> SUFFICES ASSUME ConditionInit PROVE CInv
  OBVIOUS
<1>1. <<>> \in Seq(Threads) /\ ToSet(<<>>) = {} /\ IsInjective(<<>>)
  BY EmptySeq DEF ToSet, IsInjective
<1> QED
  BY <1>1 DEF ConditionInit, CInv, CTypes, ListOK, NotifyOK, SleeperOK, Waits, NotWaiting

\* Taking a lock disturbs nothing.
LEMMA LockKeeps ==
    ASSUME CInv, NEW t \in Threads, NEW l \in Locks, Lock(t, l), UNCHANGED <<waitVars, notifyVars>>
    PROVE  CInv'
BY ConditionAssumption DEF CInv, CTypes, ListOK, NotifyOK, SleeperOK, IsWaiting, Lock, waitVars, notifyVars

\* A lock may be let go once every notify() at its conditions is over.
LEMMA UnlockKeeps ==
    ASSUME CInv, NEW l \in Locks, Notified(l), Unlock(l),
           expired' \subseteq Threads, UNCHANGED <<waiters, woken, waiting, notifyVars>>
    PROVE  CInv'
<1>1. \A c \in Conds : todo[c] # <<>> => LockOf[c] # l /\ holder'[LockOf[c]] = holder[LockOf[c]]
  BY ConditionAssumption DEF Notified, Unlock, CInv, CTypes
<1> QED
  BY <1>1 DEF CInv, CTypes, ListOK, NotifyOK, SleeperOK, IsWaiting, Unlock, notifyVars

LEMMA WaitKeeps ==
    ASSUME CInv, NEW t \in Threads, NEW c \in Conds, NEW timed \in BOOLEAN,
           ~IsWaiting(t), Notified(LockOf[c]), Wait(t, c, timed)
    PROVE  CInv'
<1>1. t \notin woken /\ \A d \in Conds : t \notin ToSet(waiters[d]) /\ t \notin ToSet(todo[d])
  BY DEF CInv, ListOK, NotifyOK
<1>2. \A d \in Conds : waiters[d] \in Seq(Threads) /\ todo[d] \in Seq(Threads)
                         /\ ToSet(waiters[d]) \subseteq Threads /\ ToSet(todo[d]) \subseteq Threads
  BY ElementsOf DEF CInv, CTypes
<1>3. /\ Append(waiters[c], t) \in Seq(Threads) /\ IsInjective(Append(waiters[c], t))
      /\ ToSet(Append(waiters[c], t)) = ToSet(waiters[c]) \cup {t}
  BY <1>1, <1>2, AppendedOnce DEF CInv, ListOK
<1>4. /\ waiters' = [waiters EXCEPT ![c] = Append(waiters[c], t)]
      /\ waiting' = [waiting EXCEPT ![t] = [at |-> "waiter", cond |-> c, timed |-> timed]]
      /\ UNCHANGED <<woken, expired, todo, released>>
      /\ holder' = [holder EXCEPT ![LockOf[c]] = Nobody]
  BY DEF Wait, Unlock, notifyVars
<1>5. CTypes'
  <2>1. [at |-> "waiter", cond |-> c, timed |-> timed] \in Waits
    BY DEF Waits
  <2> QED
    BY <1>3, <1>4, <2>1 DEF CInv, CTypes
<1>6. ASSUME NEW d \in Conds PROVE ListOK(d)'
  <2>1. CASE d = c
    BY <1>1, <1>2, <1>3, <1>4, <2>1 DEF CInv, CTypes, ListOK, IsWaiting
  <2>2. CASE d # c
    BY <1>1, <1>2, <1>4, <2>2 DEF CInv, CTypes, ListOK, IsWaiting
  <2> QED
    BY <2>1, <2>2
<1>7. ASSUME NEW d \in Conds PROVE NotifyOK(d)'
  <2>1. todo[d] # <<>> => LockOf[d] # LockOf[c] /\ holder'[LockOf[d]] = holder[LockOf[d]]
    BY <1>4, ConditionAssumption DEF Notified, CInv, CTypes
  <2> QED
    BY <1>1, <1>2, <1>4, <2>1 DEF CInv, CTypes, NotifyOK, IsWaiting
<1>8. \A u \in woken' : IsWaiting(u)'
  BY <1>1, <1>4 DEF CInv, CTypes, IsWaiting
<1>9. ASSUME NEW u \in Threads PROVE SleeperOK(u)'
  <2>1. CASE u = t
    <3>1. released[c] = Nobody
      BY DEF Notified, CInv, NotifyOK
    <3> QED
      BY <1>3, <1>4, <2>1, <3>1, ConditionAssumption DEF CInv, CTypes, SleeperOK
  <2>2. CASE u # t
    <3>1. waiting'[u] = waiting[u] /\ SleeperOK(u)
      BY <1>4, <2>2 DEF CInv, CTypes
    <3> QED
      BY <1>3, <1>4, <3>1 DEF CInv, CTypes, SleeperOK
  <2> QED
    BY <2>1, <2>2
<1> QED
  BY <1>5, <1>6, <1>7, <1>8, <1>9 DEF CInv

\* wait() returns only with its lock free, hence with no notify() under way: the thread
\* has left every list by then.
LEMMA ReturnsClean ==
    ASSUME CInv, NEW t \in Threads, Restore(t)
    PROVE  /\ waiting[t].cond \in Conds
           /\ \A d \in Conds : t \notin ToSet(waiters[d]) /\ t \notin ToSet(todo[d])
<1> DEFINE c == waiting[t].cond
<1>1. waiting[t].at = "restore" /\ holder[LockOf[c]] = Nobody
  BY DEF Restore, Lock
<1>2. c \in Conds
  BY <1>1 DEF CInv, CTypes, Waits, NotWaiting
<1>3. todo[c] = <<>> /\ released[c] = Nobody
  BY <1>1, <1>2 DEF CInv, NotifyOK
<1>4. ToSet(todo[c]) = {}
  BY <1>3 DEF ToSet
<1>5. t \notin ToSet(waiters[c])
  BY <1>1, <1>2, <1>3, ConditionAssumption DEF CInv, ListOK
<1> QED
  BY <1>2, <1>4, <1>5 DEF CInv, ListOK, NotifyOK

LEMMA RestoreKeeps ==
    ASSUME CInv, NEW t \in Threads, Restore(t)
    PROVE  CInv'
<1> DEFINE c == waiting[t].cond
<1>1. c \in Conds /\ \A d \in Conds : t \notin ToSet(waiters[d]) /\ t \notin ToSet(todo[d])
  BY ReturnsClean
<1>2. \A d \in Conds : ToSet(waiters[d]) \subseteq Threads /\ ToSet(todo[d]) \subseteq Threads
  BY ElementsOf DEF CInv, CTypes
<1>3. /\ holder' = [holder EXCEPT ![LockOf[c]] = t]
      /\ waiting' = [waiting EXCEPT ![t] = NotWaiting]
      /\ woken' = woken \ {t}
      /\ UNCHANGED <<waiters, expired, todo, released>>
  BY DEF Restore, Lock, notifyVars
<1> HIDE DEF c
<1>4. CTypes'
  BY <1>3 DEF CInv, CTypes, Waits
<1>5. ASSUME NEW d \in Conds PROVE ListOK(d)' /\ NotifyOK(d)'
  <2>1. ListOK(d)'
    BY <1>1, <1>2, <1>3 DEF CInv, CTypes, ListOK, IsWaiting
  <2>2. holder[LockOf[d]] # Nobody => holder'[LockOf[d]] # Nobody
    BY <1>3, ConditionAssumption DEF CInv, CTypes
  <2>3. NotifyOK(d)'
    BY <1>1, <1>2, <1>3, <2>2 DEF CInv, CTypes, NotifyOK, IsWaiting
  <2> QED
    BY <2>1, <2>3
<1>6. \A u \in woken' : IsWaiting(u)'
  BY <1>3 DEF CInv, CTypes, IsWaiting
<1>7. \A u \in Threads : SleeperOK(u)'
  BY <1>3 DEF CInv, CTypes, SleeperOK, NotWaiting
<1> QED
  BY <1>4, <1>5, <1>6, <1>7 DEF CInv

\* A waiter that times out takes itself off the list, notified or not.
LEMMA WaitStepKeeps ==
    ASSUME CInv, NEW t \in Threads, WaitStep(t)
    PROVE  CInv'
<1> DEFINE c == waiting[t].cond
<1>1. \A d \in Conds : /\ waiters[d] \in Seq(Threads) /\ IsInjective(waiters[d])
                         /\ ToSet(waiters[d]) \subseteq Threads /\ ToSet(todo[d]) \subseteq Threads
  BY ElementsOf DEF CInv, CTypes, ListOK
<1>2. CASE WakeUp(t)
  <2>1. /\ waiting[t].at = "waiter" /\ t \in woken /\ woken' = woken \ {t}
        /\ waiting' = [waiting EXCEPT ![t].at = "restore"]
        /\ UNCHANGED <<holder, waiters, expired, todo, released>>
    BY <1>2 DEF WakeUp, notifyVars
  <2>2. IsWaiting(t) /\ CTypes
    BY <2>1 DEF CInv, IsWaiting
  <2> HIDE DEF c
  <2>0. /\ c \in Conds /\ waiting' \in [Threads -> Waits] /\ waiting'[t].cond = c
        /\ \A u \in Threads \ {t} : waiting'[u] = waiting[u]
        /\ \A u \in Threads : IsWaiting(u) => IsWaiting(u)' /\ waiting'[u].cond = waiting[u].cond
    BY <2>1, <2>2, WaitGoesOn DEF c
  <2>3. CTypes' /\ \A u \in Threads : IsWaiting(u) => IsWaiting(u)' /\ waiting'[u].cond = waiting[u].cond
    BY <2>0, <2>1 DEF CInv, CTypes
  <2>4. waiting'[t].at = "restore"
    BY <2>1, <2>2, WaitGoesOn
  <2>5. \A u \in Threads : SleeperOK(u)'
    BY <2>0, <2>1, <2>4 DEF CInv, SleeperOK
  <2> QED
    BY <1>1, <2>1, <2>2, <2>3, <2>0, <2>5 DEF CInv, CTypes, ListOK, NotifyOK
<1>3. CASE TimeOut(t)
  <2>1. /\ waiting[t].at = "waiter" /\ t \notin woken /\ expired' = expired \cup {t}
        /\ waiting' = [waiting EXCEPT ![t].at = "remove"]
        /\ UNCHANGED <<holder, waiters, woken, todo, released>>
    BY <1>3 DEF TimeOut, notifyVars
  <2>2. IsWaiting(t) /\ CTypes
    BY <2>1 DEF CInv, IsWaiting
  <2> HIDE DEF c
  <2>0. /\ c \in Conds /\ waiting' \in [Threads -> Waits] /\ waiting'[t].cond = c
        /\ \A u \in Threads \ {t} : waiting'[u] = waiting[u]
        /\ \A u \in Threads : IsWaiting(u) => IsWaiting(u)' /\ waiting'[u].cond = waiting[u].cond
    BY <2>1, <2>2, WaitGoesOn DEF c
  <2>3. CTypes' /\ \A u \in Threads : IsWaiting(u) => IsWaiting(u)' /\ waiting'[u].cond = waiting[u].cond
    BY <2>0, <2>1 DEF CInv, CTypes
  <2>4. waiting'[t].at = "remove"
    BY <2>1, <2>2, WaitGoesOn
  <2>5. \A u \in Threads : waiting'[u].at = "restore" => waiting[u].at = "restore"
    BY <2>0, <2>4
  <2>6. \A u \in Threads : SleeperOK(u)'
    BY <2>0, <2>1, <2>4 DEF CInv, SleeperOK
  <2> QED
    BY <1>1, <2>1, <2>2, <2>3, <2>5, <2>6 DEF CInv, CTypes, ListOK, NotifyOK
<1>4. CASE RemoveWaiter(t)
  <2>1. /\ waiting[t].at = "remove"
        /\ waiters' = [waiters EXCEPT ![c] = RemoveFirst(waiters[c], t)]
        /\ waiting' = [waiting EXCEPT ![t].at = "restore"]
        /\ UNCHANGED <<holder, woken, expired, todo, released>>
    BY <1>4 DEF RemoveWaiter, notifyVars
  <2>2. IsWaiting(t) /\ CTypes
    BY <2>1 DEF CInv, IsWaiting
  <2> HIDE DEF c
  <2>0. /\ c \in Conds /\ waiting' \in [Threads -> Waits] /\ waiting'[t].cond = c
        /\ \A u \in Threads \ {t} : waiting'[u] = waiting[u]
        /\ \A u \in Threads : IsWaiting(u) => IsWaiting(u)' /\ waiting'[u].cond = waiting[u].cond
    BY <2>1, <2>2, WaitGoesOn DEF c
  <2>3. /\ RemoveFirst(waiters[c], t) \in Seq(Threads) /\ IsInjective(RemoveFirst(waiters[c], t))
        /\ ToSet(RemoveFirst(waiters[c], t)) = ToSet(waiters[c]) \ {t}
    BY <1>1, <2>0, RemovedOnce
  <2>4. CTypes' /\ \A u \in Threads : IsWaiting(u) => IsWaiting(u)' /\ waiting'[u].cond = waiting[u].cond
    BY <2>0, <2>1, <2>3 DEF CInv, CTypes
  <2>5. \A d \in Conds : t \notin ToSet(waiters'[d]) /\ ToSet(waiters'[d]) \subseteq ToSet(waiters[d])
    <3> SUFFICES ASSUME NEW d \in Conds PROVE t \notin ToSet(waiters'[d]) /\ ToSet(waiters'[d]) \subseteq ToSet(waiters[d])
      OBVIOUS
    <3>1. CASE d = c
      BY <2>1, <2>3, <3>1 DEF CInv, CTypes
    <3>2. CASE d # c
      BY <2>1, <3>2 DEF CInv, CTypes, ListOK, c
    <3> QED
      BY <3>1, <3>2
  <2>6. \A d \in Conds : IsInjective(waiters'[d])
    BY <1>1, <2>1, <2>3 DEF CInv, CTypes
  <2>7. \A u \in Threads \ {t} : waiting'[u] = waiting[u]
    BY <2>0
  <2>8. ASSUME NEW d \in Conds PROVE ListOK(d)'
    BY <1>1, <2>1, <2>4, <2>5, <2>6, <2>7 DEF CInv, CTypes, ListOK
  <2>9. ASSUME NEW d \in Conds PROVE NotifyOK(d)'
    BY <1>1, <2>1, <2>4 DEF CInv, CTypes, NotifyOK
  <2>10. waiting'[t].at = "restore"
    BY <2>1, <2>2, WaitGoesOn
  <2>11. ASSUME NEW u \in Threads, waiting[u].at = "waiter", u # t
         PROVE  u \in ToSet(waiters[waiting[u].cond]) => u \in ToSet(waiters'[waiting[u].cond])
    BY <2>1, <2>3, <2>11 DEF CInv, CTypes
  <2>12. \A u \in Threads : SleeperOK(u)'
    BY <2>0, <2>1, <2>10, <2>11 DEF CInv, SleeperOK
  <2> QED
    BY <2>1, <2>4, <2>8, <2>9, <2>12 DEF CInv, CTypes
<1> QED
  BY <1>2, <1>3, <1>4 DEF WaitStep

\* notify() begins while its caller has the lock and no other notify() is under way.
LEMMA NotifyKeeps ==
    ASSUME CInv, NEW c \in Conds, NEW n \in Nat, todo[c] = <<>>, StartNotify(c, n), UNCHANGED waitVars,
           holder' \in [Locks -> Threads \cup {Nobody}], holder'[LockOf[c]] # Nobody,
           \A d \in Conds : todo[d] # <<>> => holder'[LockOf[d]] # Nobody
    PROVE  CInv'
<1> DEFINE k == IF n < Len(waiters[c]) THEN n ELSE Len(waiters[c])
           s == SubSeq(waiters[c], 1, k)
<1>1. waiters[c] \in Seq(Threads) /\ IsInjective(waiters[c]) /\ Len(waiters[c]) \in Nat
  BY LenProperties DEF CInv, CTypes, ListOK
<1>2. k \in 0 .. Len(waiters[c])
  BY <1>1
<1> HIDE DEF k
<1>3. s \in Seq(Threads) /\ IsInjective(s) /\ ToSet(s) \subseteq ToSet(waiters[c])
  BY <1>1, <1>2, FrontPart
<1>4. todo' = [todo EXCEPT ![c] = s] /\ UNCHANGED <<released, waiters, woken, waiting, expired>>
  BY DEF StartNotify, waitVars, k
<1> HIDE DEF s
<1>5. CTypes'
  BY <1>3, <1>4 DEF CInv, CTypes
<1>6. ASSUME NEW d \in Conds PROVE ListOK(d)' /\ NotifyOK(d)'
  <2>1. ListOK(d)'
    BY <1>4 DEF CInv, ListOK, IsWaiting
  <2>2. CASE d = c
    <3>1. released[c] = Nobody
      BY DEF CInv, NotifyOK
    <3> QED
      BY <1>3, <1>4, <2>1, <2>2, <3>1 DEF CInv, CTypes, ListOK, NotifyOK, IsWaiting
  <2>3. CASE d # c
    BY <1>4, <2>1, <2>3 DEF CInv, CTypes, NotifyOK, IsWaiting
  <2> QED
    BY <2>1, <2>2, <2>3
<1> QED
  BY <1>4, <1>5, <1>6 DEF CInv, IsWaiting, SleeperOK

\* notify() goes on, whatever its waiters have done meanwhile.
LEMMA NotifyStepKeeps ==
    ASSUME CInv, NEW c \in Conds, NotifyStep(c)
    PROVE  CInv'
<1>1. /\ waiters[c] \in Seq(Threads) /\ IsInjective(waiters[c])
      /\ todo[c] \in Seq(Threads) /\ IsInjective(todo[c])
      /\ ToSet(waiters[c]) \subseteq Threads /\ ToSet(todo[c]) \subseteq Threads
  BY ElementsOf DEF CInv, CTypes, ListOK, NotifyOK
<1>2. CASE ReleaseWaiter(c)
  <2> DEFINE t == Head(todo[c])
  <2>1. /\ todo[c] # <<>> /\ released[c] = Nobody
        /\ released' = [released EXCEPT ![c] = t] /\ woken' = woken \cup {t}
        /\ UNCHANGED <<holder, waiters, waiting, expired, todo>>
    BY <1>2 DEF ReleaseWaiter
  <2>2. t \in ToSet(todo[c])
    BY <1>1, <2>1, WithoutHead
  <2>3. t \in Threads /\ IsWaiting(t) /\ waiting[t].cond = c
    BY <1>1, <2>2 DEF CInv, NotifyOK
  <2> HIDE DEF t
  <2>4. CTypes'
    BY <2>1, <2>3 DEF CInv, CTypes
  <2>5. ASSUME NEW d \in Conds PROVE ListOK(d)'
    <3>1. CASE d = c
      BY <1>1, <2>1, <2>3, <3>1, ConditionAssumption DEF CInv, CTypes, ListOK, IsWaiting
    <3>2. CASE d # c
      BY <2>1, <2>3, <3>2 DEF CInv, CTypes, ListOK, IsWaiting
    <3> QED
      BY <3>1, <3>2
  <2>6. ASSUME NEW d \in Conds PROVE NotifyOK(d)'
    BY <2>1 DEF CInv, CTypes, NotifyOK, IsWaiting, t
  <2>7. ASSUME NEW u \in Threads PROVE SleeperOK(u)'
    BY <2>1 DEF CInv, CTypes, SleeperOK
  <2> QED
    BY <2>1, <2>3, <2>4, <2>5, <2>6, <2>7 DEF CInv, IsWaiting
<1>3. CASE RemoveNotified(c)
  <2> DEFINE t == released[c]
  <2>1. /\ t # Nobody
        /\ waiters' = [waiters EXCEPT ![c] = RemoveFirst(waiters[c], t)]
        /\ todo' = [todo EXCEPT ![c] = Tail(todo[c])]
        /\ released' = [released EXCEPT ![c] = Nobody]
        /\ UNCHANGED <<holder, woken, waiting, expired>>
    BY <1>3 DEF RemoveNotified
  <2>2. todo[c] # <<>> /\ holder[LockOf[c]] # Nobody
    BY <2>1 DEF CInv, NotifyOK
  <2>3. /\ RemoveFirst(waiters[c], t) \in Seq(Threads) /\ IsInjective(RemoveFirst(waiters[c], t))
        /\ ToSet(RemoveFirst(waiters[c], t)) = ToSet(waiters[c]) \ {t}
    BY <1>1, RemovedOnce
  <2>4. /\ Tail(todo[c]) \in Seq(Threads) /\ IsInjective(Tail(todo[c]))
        /\ ToSet(Tail(todo[c])) \subseteq ToSet(todo[c])
    BY <1>1, <2>2, WithoutHead
  <2>5. CTypes'
    BY <2>1, <2>3, <2>4 DEF CInv, CTypes
  <2>6. ASSUME NEW d \in Conds PROVE ListOK(d)'
    <3>1. CASE d = c
      BY <2>1, <2>3, <3>1 DEF CInv, CTypes, ListOK, IsWaiting
    <3>2. CASE d # c
      BY <2>1, <3>2 DEF CInv, CTypes, ListOK, IsWaiting
    <3> QED
      BY <3>1, <3>2
  <2>7. ASSUME NEW d \in Conds PROVE NotifyOK(d)'
    <3>1. CASE d = c
      BY <2>1, <2>2, <2>4, <3>1 DEF CInv, CTypes, NotifyOK, IsWaiting
    <3>2. CASE d # c
      BY <2>1, <3>2 DEF CInv, CTypes, NotifyOK, IsWaiting
    <3> QED
      BY <3>1, <3>2
  <2>8. ASSUME NEW u \in Threads PROVE SleeperOK(u)'
    BY <2>1, <2>3, ConditionAssumption DEF CInv, CTypes, SleeperOK
  <2> QED
    BY <2>1, <2>5, <2>6, <2>7, <2>8 DEF CInv, IsWaiting
<1> QED
  BY <1>2, <1>3 DEF NotifyStep

\* What changes nothing of conditions and locks keeps all of this.
LEMMA StutterKeeps ==
    ASSUME CInv, UNCHANGED conditionVars
    PROVE  CInv'
BY DEF CInv, CTypes, ListOK, NotifyOK, SleeperOK, IsWaiting, conditionVars
=============================================================================
