---------------------------- MODULE CodeRegistry ----------------------------
(***************************************************************************)
(* The weak list of all function codes (FunctionCode.cs): threads register *)
(* codes, enumerate them to update their delegates, and clean up entries   *)
(* whose code was collected.  Registration and enumeration exclude each    *)
(* other with _CodeCreateAndUpdateDelegateLock, which an enumeration also  *)
(* puts at the root of the list as a marker; the cleanup scans and unlinks *)
(* without that lock and takes it only for its bookkeeping.                *)
(*                                                                         *)
(* A list node is named by its code: every code is registered once.        *)
(***************************************************************************)
EXTENDS Integers, FiniteSets

CONSTANTS
    Threads, Codes,
    Nobody,             \* no thread
    NoNode,             \* the null reference
    Marker,             \* the lock object as the root of the list
    FirstCleanup,       \* 200: the code count at which the first cleanup runs
    Postponement,       \* 500: what a cleanup that freed nothing adds to it
    MaxNextCleanup      \* bound: no cleanup starts beyond this threshold

ASSUME RootAssumption == NoNode \notin Codes /\ Marker \notin Codes /\ NoNode # Marker
ASSUME NobodyAssumption == Nobody \notin Threads
ASSUME CodesAssumption == IsFiniteSet(Codes)
ASSUME CleanupAssumption ==
    /\ {FirstCleanup, Postponement} \subseteq Nat \ {0}
    /\ MaxNextCleanup \in Nat

VARIABLES
    allCodes,       \* _allCodes: the root node, NoNode or Marker
    next,           \* CodeList.Next
    status,         \* of each code: "unborn", "alive" or "dead" (collected)
    lock,           \* holder of _CodeCreateAndUpdateDelegateLock
    cleanupLock,    \* holder of _codeCleanupLock
    codeCount,      \* _codeCount
    nextCleanup,    \* _nextCodeCleanup
    queued,         \* cleanups queued to the thread pool
    thread,         \* what each thread is doing
    visited         \* history: codes the enumeration in progress has updated

list == <<allCodes, next>>
counts == <<codeCount, nextCleanup>>
vars == <<list, status, lock, cleanupLock, counts, queued, thread, visited>>
-----------------------------------------------------------------------------
\* One record for the local variables of all operations: code is being
\* registered or updated, prev and cur are places in the list, removed counts
\* the nodes a cleanup unlinked.
Idle == [pc |-> "idle", code |-> NoNode, prev |-> NoNode, cur |-> NoNode, removed |-> 0]

Init ==
    /\ allCodes = NoNode
    /\ next = [c \in Codes |-> NoNode]
    /\ status = [c \in Codes |-> "unborn"]
    /\ lock = Nobody
    /\ cleanupLock = Nobody
    /\ codeCount = 0
    /\ nextCleanup = FirstCleanup
    /\ queued = 0
    /\ thread = [t \in Threads |-> Idle]
    /\ visited = {}

Become(t, record) == thread' = [thread EXCEPT ![t] = record]
Goto(t, pc) == thread' = [thread EXCEPT ![t].pc = pc]

\* A code is collected once no thread works with it.
Collect(c) ==
    /\ status[c] = "alive"
    /\ \A t \in Threads : thread[t].code # c
    /\ status' = [status EXCEPT ![c] = "dead"]
    /\ UNCHANGED <<list, lock, cleanupLock, counts, queued, thread, visited>>
-----------------------------------------------------------------------------
(* RegisterFunctionCode.                                                     *)

BeginRegister(t, c) ==
    /\ thread[t].pc = "idle"
    /\ status[c] = "unborn"
    /\ status' = [status EXCEPT ![c] = "alive"]
    /\ Become(t, [Idle EXCEPT !.pc = "register", !.code = c])
    /\ UNCHANGED <<list, lock, cleanupLock, counts, queued, visited>>

LockToRegister(t) ==
    /\ thread[t].pc = "register"
    /\ lock = Nobody
    /\ lock' = t
    /\ Goto(t, "read")
    /\ UNCHANGED <<list, status, cleanupLock, counts, queued, visited>>

ReadPrevCode(t) ==
    /\ thread[t].pc = "read"
    /\ thread' = [thread EXCEPT ![t].pc = "link", ![t].prev = allCodes]
    /\ UNCHANGED <<list, status, lock, cleanupLock, counts, queued, visited>>

\* Variant: the root is replaced without comparing it.
LinkCodeBlindly(t) ==
    /\ thread[t].pc = "link"
    /\ allCodes' = thread[t].code
    /\ next' = [next EXCEPT ![thread[t].code] = thread[t].prev]
    /\ Goto(t, "count")
    /\ UNCHANGED <<status, lock, cleanupLock, counts, queued, visited>>

\* Variant: a failed exchange is tried again without reading the root again.
LinkCodeStale(t) ==
    /\ thread[t].pc = "link"
    /\ IF allCodes = thread[t].prev
       THEN /\ allCodes' = thread[t].code
            /\ next' = [next EXCEPT ![thread[t].code] = thread[t].prev]
            /\ Goto(t, "count")
       ELSE UNCHANGED <<list, thread>>
    /\ UNCHANGED <<status, lock, cleanupLock, counts, queued, visited>>

\* The interlocked exchange fails if a cleanup unlinked the root meanwhile.
LinkCode(t) ==
    /\ thread[t].pc = "link"
    /\ IF allCodes = thread[t].prev
       THEN /\ allCodes' = thread[t].code
            /\ next' = [next EXCEPT ![thread[t].code] = thread[t].prev]
            /\ Goto(t, "count")
       ELSE Goto(t, "read") /\ UNCHANGED list
    /\ UNCHANGED <<status, lock, cleanupLock, counts, queued, visited>>

CountCode(t) ==
    /\ thread[t].pc = "count"
    /\ codeCount' = codeCount + 1
    /\ queued' = IF codeCount = nextCleanup THEN queued + 1 ELSE queued
    /\ lock' = Nobody
    /\ Become(t, Idle)
    /\ UNCHANGED <<list, status, cleanupLock, nextCleanup, visited>>
-----------------------------------------------------------------------------
(* GetAllCode, as UpdateAllCode runs it.                                     *)

\* Variant: the root stays in place while the list is enumerated.
BeginEnumerationUnmarked(t) ==
    /\ thread[t].pc = "idle"
    /\ lock = Nobody
    /\ lock' = t
    /\ Become(t, [Idle EXCEPT !.pc = "visit", !.prev = allCodes, !.cur = allCodes])
    /\ visited' = {}
    /\ UNCHANGED <<list, status, cleanupLock, counts, queued>>

\* The initial root is kept in prev until the end.
BeginEnumeration(t) ==
    /\ thread[t].pc = "idle"
    /\ lock = Nobody
    /\ lock' = t
    /\ allCodes' = Marker
    /\ Become(t, [Idle EXCEPT !.pc = "visit", !.prev = allCodes, !.cur = allCodes])
    /\ visited' = {}
    /\ UNCHANGED <<next, status, cleanupLock, counts, queued>>

\* codeRef.Target: a live code is updated, and kept alive while it is.
Visit(t) ==
    /\ thread[t].pc = "visit"
    /\ thread[t].cur # NoNode
    /\ LET cur == thread[t].cur
       IN  IF status[cur] = "alive"
           THEN /\ visited' = visited \cup {cur}
                /\ thread' = [thread EXCEPT ![t].pc = "advance", ![t].code = cur]
           ELSE Goto(t, "advance") /\ UNCHANGED visited
    /\ UNCHANGED <<list, status, lock, cleanupLock, counts, queued>>

Advance(t) ==
    /\ thread[t].pc = "advance"
    /\ thread' = [thread EXCEPT ![t].pc = "visit", ![t].code = NoNode, ![t].cur = next[@]]
    /\ UNCHANGED <<list, status, lock, cleanupLock, counts, queued, visited>>

EndEnumeration(t) ==
    /\ thread[t].pc = "visit"
    /\ thread[t].cur = NoNode
    /\ allCodes' = thread[t].prev
    /\ lock' = Nobody
    /\ Become(t, Idle)
    /\ UNCHANGED <<next, status, cleanupLock, counts, queued, visited>>
-----------------------------------------------------------------------------
(* CodeCleanup, on a pool thread or for gc.collect().                        *)

\* Variant: several threads clean up at once.
LockToCleanShared(t) ==
    /\ thread[t].pc = "idle"
    /\ nextCleanup <= MaxNextCleanup
    /\ cleanupLock' = t
    /\ Become(t, [Idle EXCEPT !.pc = "root"])

LockToClean(t) ==
    /\ thread[t].pc = "idle"
    /\ nextCleanup <= MaxNextCleanup
    /\ cleanupLock = Nobody
    /\ cleanupLock' = t
    /\ Become(t, [Idle EXCEPT !.pc = "root"])

BeginQueuedCleanup(t) ==
    /\ queued > 0
    /\ queued' = queued - 1
    /\ LockToClean(t)
    /\ UNCHANGED <<list, status, lock, counts, visited>>

BeginSynchronousCleanup(t) ==
    /\ LockToClean(t)
    /\ UNCHANGED <<list, status, lock, counts, queued, visited>>

\* GetRootCodeNoUpdating: the marker means to wait for the enumeration.
ReadRoot(t) ==
    /\ thread[t].pc = "root"
    /\ thread' = [thread EXCEPT ![t].pc = IF allCodes = Marker THEN "wait" ELSE "scan",
                                ![t].cur = IF allCodes = Marker THEN @ ELSE allCodes]
    /\ UNCHANGED <<list, status, lock, cleanupLock, counts, queued, visited>>

AwaitRoot(t) ==
    /\ thread[t].pc = "wait"
    /\ lock = Nobody
    /\ thread' = [thread EXCEPT ![t].pc = "scan", ![t].cur = allCodes]
    /\ UNCHANGED <<list, status, lock, cleanupLock, counts, queued, visited>>

KeepNode(t) ==
    /\ thread[t].pc = "scan"
    /\ thread[t].cur # NoNode
    /\ status[thread[t].cur] = "alive"
    /\ Goto(t, "next")
    /\ UNCHANGED <<list, status, lock, cleanupLock, counts, queued, visited>>

\* The code may die after it was found alive; its node stays for now.
NextNode(t) ==
    /\ thread[t].pc = "next"
    /\ thread' = [thread EXCEPT ![t].pc = "scan", ![t].prev = thread[t].cur,
                                ![t].cur = next[thread[t].cur]]
    /\ UNCHANGED <<list, status, lock, cleanupLock, counts, queued, visited>>

\* Variant: the root is unlinked without comparing it.
UnlinkRootBlindly(t) ==
    LET cur == thread[t].cur
    IN  /\ thread[t].pc = "scan"
        /\ cur # NoNode
        /\ status[cur] = "dead"
        /\ thread[t].prev = NoNode
        /\ allCodes' = next[cur]
        /\ thread' = [thread EXCEPT ![t].cur = next[cur], ![t].removed = @ + 1]
        /\ UNCHANGED <<next, status, lock, cleanupLock, counts, queued, visited>>

\* A dead node at the root goes by an interlocked exchange, which fails if a
\* code was added or an enumeration began; the scan then starts again.
UnlinkRoot(t) ==
    LET cur == thread[t].cur
    IN  /\ thread[t].pc = "scan"
        /\ cur # NoNode
        /\ status[cur] = "dead"
        /\ thread[t].prev = NoNode
        /\ IF allCodes = cur
           THEN /\ allCodes' = next[cur]
                /\ thread' = [thread EXCEPT ![t].cur = next[cur], ![t].removed = @ + 1]
           ELSE Goto(t, "root") /\ UNCHANGED allCodes
        /\ UNCHANGED <<next, status, lock, cleanupLock, counts, queued, visited>>

\* Variant: a node that is bypassed loses its Next.
UnlinkNodeClears(t) ==
    LET cur == thread[t].cur
        prev == thread[t].prev
    IN  /\ thread[t].pc = "scan"
        /\ cur # NoNode
        /\ status[cur] = "dead"
        /\ prev # NoNode
        /\ next' = [next EXCEPT ![prev] = next[cur], ![cur] = NoNode]
        /\ thread' = [thread EXCEPT ![t].cur = next[cur], ![t].removed = @ + 1]
        /\ UNCHANGED <<allCodes, status, lock, cleanupLock, counts, queued, visited>>

\* Any other dead node is bypassed: only the cleanup changes Next.
UnlinkNode(t) ==
    LET cur == thread[t].cur
        prev == thread[t].prev
    IN  /\ thread[t].pc = "scan"
        /\ cur # NoNode
        /\ status[cur] = "dead"
        /\ prev # NoNode
        /\ next' = [next EXCEPT ![prev] = next[cur]]
        /\ thread' = [thread EXCEPT ![t].cur = next[cur], ![t].removed = @ + 1]
        /\ UNCHANGED <<allCodes, status, lock, cleanupLock, counts, queued, visited>>

\* newCount + (int)(_nextCodeCleanup / targetRatio), with targetRatio =
\* removed / _codeCount / .50: so many codes that half of them may be dead.
Target(removed) == codeCount - removed + (nextCleanup * codeCount) \div (2 * removed)

\* The bookkeeping, under the lock.
FinishCleanup(t) ==
    LET removed == thread[t].removed
    IN  /\ thread[t].pc = "scan"
        /\ thread[t].cur = NoNode
        /\ lock = Nobody
        /\ codeCount' = IF codeCount = 0 THEN 0 ELSE codeCount - removed
        /\ nextCleanup' = IF codeCount = 0 THEN FirstCleanup
                          ELSE IF removed > 0 /\ Target(removed) > 0 THEN Target(removed)
                          ELSE nextCleanup + Postponement
        /\ cleanupLock' = Nobody
        /\ Become(t, Idle)
        /\ UNCHANGED <<list, status, lock, queued, visited>>
-----------------------------------------------------------------------------
Register(t) == LockToRegister(t) \/ ReadPrevCode(t) \/ LinkCode(t) \/ CountCode(t)
Enumerate(t) == Visit(t) \/ Advance(t) \/ EndEnumeration(t)
Clean(t) ==
    \/ ReadRoot(t) \/ AwaitRoot(t) \/ KeepNode(t) \/ NextNode(t)
    \/ UnlinkRoot(t) \/ UnlinkNode(t) \/ FinishCleanup(t)

Next ==
    \/ \E c \in Codes : Collect(c)
    \/ \E t \in Threads :
          \/ \E c \in Codes : BeginRegister(t, c)
          \/ BeginEnumeration(t)
          \/ BeginQueuedCleanup(t) \/ BeginSynchronousCleanup(t)
          \/ Register(t) \/ Enumerate(t) \/ Clean(t)

\* An operation that has begun runs on; nobody has to start one.
Fairness == \A t \in Threads : WF_vars(Register(t) \/ Enumerate(t) \/ Clean(t))

Spec == Init /\ [][Next]_vars /\ Fairness
-----------------------------------------------------------------------------
Nodes == Codes \cup {NoNode}
Steps == {"idle", "register", "read", "link", "count", "visit", "advance",
          "root", "wait", "scan", "next"}
Registering == {"read", "link", "count"}
Enumerating == {"visit", "advance"}
Cleaning == {"root", "wait", "scan", "next"}

\* The list as an observer sees it who knows where the marker hides the root.
Root ==
    IF allCodes # Marker THEN allCodes
    ELSE thread[lock].prev

\* The nodes from n on along f: those in every set of codes that has n in it
\* and, with a node, the one that follows.
Closed(f, S) == \A c \in S : f[c] \in S \cup {NoNode}
From(f, n) ==
    {c \in Codes : \A S \in SUBSET Codes : n \in S \cup {NoNode} /\ Closed(f, S) => c \in S}

Linked == From(next, Root)

\* The fields and the local variables keep their types, and the marker is at
\* the root exactly while the holder of the lock enumerates.
TypeOK ==
    /\ allCodes \in Nodes \cup {Marker}
    /\ next \in [Codes -> Nodes]
    /\ status \in [Codes -> {"unborn", "alive", "dead"}]
    /\ lock \in Threads \cup {Nobody}
    /\ cleanupLock \in Threads \cup {Nobody}
    /\ codeCount \in Nat /\ nextCleanup \in Nat /\ queued \in Nat
    /\ thread \in [Threads -> [pc : Steps, code : Nodes, prev : Nodes, cur : Nodes, removed : Nat]]
    /\ visited \subseteq Codes
    /\ allCodes = Marker <=> lock # Nobody /\ thread[lock].pc \in Enumerating

\* No interleaving of registrations, enumerations and a cleanup drops a code
\* that is alive: "we could miss adding tracing to a thread".
NoLiveCodeLost ==
    \A c \in Codes :
        status[c] = "alive" /\ (\A t \in Threads :
            thread[t].code = c => thread[t].pc \notin {"register", "read", "link"})
        => c \in Linked

\* _codeCount is the length of the list, but for the code being counted and
\* the nodes a cleanup has unlinked and not yet accounted for; so
\* Debug.Assert(removed <= _codeCount) and Debug.Assert(newCount >= 0) hold.
CountIsExact ==
    LET uncounted == {t \in Threads : thread[t].pc = "count"}
        removed == IF cleanupLock = Nobody THEN 0 ELSE thread[cleanupLock].removed
    IN  Cardinality(Linked) + removed = codeCount + Cardinality(uncounted)

\* An enumeration reaches every live code, although nodes before, at and after
\* its position are unlinked meanwhile.
EnumerationIsComplete ==
    \A t \in Threads :
        thread[t].pc = "visit" =>
            \A c \in Linked : status[c] = "alive" => c \in visited \cup From(next, thread[t].cur)

\* The assertions of registration, root reading and unlinking:
\* _allCodes is not the marker, and prev.Next == cur.
AssertionsHold ==
    \A t \in Threads :
        /\ thread[t].pc \in Registering => allCodes # Marker
        /\ thread[t].pc = "wait" /\ lock = Nobody => allCodes # Marker
        /\ thread[t].pc = "scan" /\ thread[t].prev # NoNode
              => next[thread[t].prev] = thread[t].cur

\* Whoever takes the lock releases it: enumerations end and the exchange of a
\* registration does not fail forever.
LockIsReleased == lock # Nobody ~> lock = Nobody
=============================================================================
