--------------------------- MODULE RegistryProofs ---------------------------
(***************************************************************************)
(* The weak list of all function codes, for any threads and any finite set *)
(* of codes: registrations, enumerations and cleanups in any order lose no *)
(* live code, miss none, and count every node once.  The list is what can  *)
(* be reached from the root; From is a least closed set, so that a set of  *)
(* nodes is shown to be reached, or not, by showing a set closed.          *)
(***************************************************************************)
EXTENDS CodeRegistry, FiniteSetTheorems, TLAPS

\* No node is reached from the one that follows it.
Acyclic(f) == \A c \in Codes : c \notin From(f, f[c])
-----------------------------------------------------------------------------
(* The nodes from a node on.                                                 *)

\* They are closed under the step from node to node.
LEMMA FromIsClosed ==
    ASSUME NEW f \in [Codes -> Nodes], NEW n \in Nodes
    PROVE  From(f, n) \subseteq Codes /\ n \in From(f, n) \cup {NoNode} /\ Closed(f, From(f, n))
<1>1. n \in From(f, n) \cup {NoNode}
  BY DEF From, Nodes
<1>2. ASSUME NEW c \in From(f, n) PROVE f[c] \in From(f, n) \cup {NoNode}
  <2>1. c \in Codes /\ f[c] \in Nodes
    BY DEF From
  <2>2. ASSUME NEW S \in SUBSET Codes, n \in S \cup {NoNode}, Closed(f, S), f[c] # NoNode
        PROVE  f[c] \in S
    <3>1. c \in S
      BY <2>2 DEF From
    <3> QED
      BY <2>2, <3>1 DEF Closed
  <2> QED
    BY <2>1, <2>2 DEF From, Nodes
<1> QED
  BY <1>1, <1>2 DEF From, Closed

\* And nothing smaller is.
LEMMA FromIsLeast ==
    ASSUME NEW f, NEW n, NEW S \in SUBSET Codes, n \in S \cup {NoNode}, Closed(f, S)
    PROVE  From(f, n) \subseteq S
  BY DEF From

\* Nothing follows the null reference.
LEMMA FromNone == \A f : From(f, NoNode) = {}
<1>1. ASSUME NEW f PROVE Closed(f, {})
  BY DEF Closed
<1> QED
  BY <1>1, FromIsLeast

\* A node on the way has fewer nodes to go.
LEMMA FromFrom ==
    ASSUME NEW f \in [Codes -> Nodes], NEW n \in Nodes, NEW x \in From(f, n)
    PROVE  From(f, x) \subseteq From(f, n)
  BY FromIsClosed, FromIsLeast

\* The nodes from a node on are that node and those from the next one on.
LEMMA FromStep ==
    ASSUME NEW f \in [Codes -> Nodes], NEW c \in Codes
    PROVE  From(f, c) = {c} \cup From(f, f[c])
<1>1. c \in Nodes /\ f[c] \in Nodes /\ c # NoNode
  BY RootAssumption DEF Nodes
<1>2. c \in From(f, c) /\ f[c] \in From(f, c) \cup {NoNode}
  BY <1>1, FromIsClosed DEF Closed
<1>3. From(f, f[c]) \subseteq From(f, c)
  BY <1>1, <1>2, FromFrom, FromNone
<1>4. From(f, c) \subseteq {c} \cup From(f, f[c])
  <2>1. From(f, f[c]) \subseteq Codes /\ f[c] \in From(f, f[c]) \cup {NoNode} /\ Closed(f, From(f, f[c]))
    BY <1>1, FromIsClosed
  <2>2. Closed(f, {c} \cup From(f, f[c]))
    BY <2>1 DEF Closed
  <2> QED
    BY <2>1, <2>2, FromIsLeast
<1> QED
  BY <1>2, <1>3, <1>4

\* Of two nodes on the way, one lies behind the other.
LEMMA FromIsChain ==
    ASSUME NEW f \in [Codes -> Nodes], NEW n \in Nodes, NEW x \in From(f, n), NEW y \in From(f, n)
    PROVE  x \in From(f, y) \/ y \in From(f, x)
<1> DEFINE S == {z \in Codes : x \in From(f, z) \/ z \in From(f, x)}
<1>1. From(f, n) \subseteq Codes /\ x \in Nodes /\ x \in Codes
  BY FromIsClosed DEF Nodes
<1>2. n \in S \cup {NoNode}
  BY DEF Nodes
<1>3. ASSUME NEW z \in S PROVE f[z] \in S \cup {NoNode}
  <2>1. f[z] \in Nodes /\ z \in Nodes
    BY DEF Nodes
  <2>2. CASE z \in From(f, x)
    <3>1. f[z] \in From(f, x) \cup {NoNode}
      BY <1>1, <2>2, FromIsClosed DEF Closed
    <3> QED
      BY <2>1, <3>1 DEF Nodes
  <2>3. CASE z \notin From(f, x)
    <3>1. x \in From(f, f[z])
      <4>1. x # z
        BY <1>1, <2>3, FromStep
      <4> QED
        BY <2>3, <4>1, FromStep
    <3> QED
      BY <2>1, <3>1 DEF Nodes
  <2> QED
    BY <2>2, <2>3
<1>4. From(f, n) \subseteq S
  <2>1. Closed(f, S)
    BY <1>3 DEF Closed
  <2> QED
    BY <1>2, <2>1, FromIsLeast
<1> QED
  BY <1>4

\* A node that no node leads to is put in front of the node m.
LEMMA LinkFacts ==
    ASSUME NEW f \in [Codes -> Nodes], Acyclic(f), NEW c \in Codes, f[c] = NoNode,
           \A d \in Codes : f[d] # c, NEW m \in Nodes, m # c,
           NEW g \in [Codes -> Nodes], g[c] = m, \A d \in Codes : d # c => g[d] = f[d]
    PROVE  /\ g \in [Codes -> Nodes] /\ Acyclic(g)
           /\ \A n \in Nodes : n # c => c \notin From(f, n) /\ From(g, n) = From(f, n)
           /\ From(g, c) = {c} \cup From(f, m) /\ c \notin From(f, m)
<1>1. g \in [Codes -> Nodes] /\ g[c] = m /\ \A d \in Codes : d # c => g[d] = f[d]
  OBVIOUS
<1>2. ASSUME NEW n \in Nodes, n # c PROVE c \notin From(f, n) /\ From(g, n) = From(f, n)
  <2>1. From(f, n) \subseteq Codes /\ n \in From(f, n) \cup {NoNode} /\ Closed(f, From(f, n))
    BY FromIsClosed
  <2>2. Closed(f, From(f, n) \ {c})
    BY <2>1 DEF Closed
  <2>3. From(f, n) \subseteq From(f, n) \ {c}
    BY <1>2, <2>1, <2>2, FromIsLeast
  <2>4. c \notin From(f, n)
    BY <2>3
  <2>5. From(g, n) \subseteq From(f, n)
    <3>1. Closed(g, From(f, n))
      BY <1>1, <2>1, <2>4 DEF Closed
    <3> QED
      BY <2>1, <3>1, FromIsLeast
  <2>6. From(f, n) \subseteq From(g, n)
    <3>1. From(g, n) \subseteq Codes /\ n \in From(g, n) \cup {NoNode} /\ Closed(g, From(g, n))
      BY <1>1, FromIsClosed
    <3>2. Closed(f, From(g, n))
      BY <1>1, <2>4, <2>5, <3>1 DEF Closed
    <3> QED
      BY <3>1, <3>2, FromIsLeast
  <2> QED
    BY <2>4, <2>5, <2>6
<1>3. From(g, c) = {c} \cup From(f, m) /\ c \notin From(f, m)
  BY <1>1, <1>2, FromStep
<1>4. ASSUME NEW d \in Codes PROVE d \notin From(g, g[d])
  <2>1. g[d] \in Nodes /\ g[d] # c
    BY <1>1
  <2>2. From(g, g[d]) = From(f, g[d]) /\ c \notin From(f, g[d])
    BY <1>2, <2>1
  <2> QED
    BY <1>1, <2>2 DEF Acyclic
<1> QED
  BY <1>1, <1>2, <1>3, <1>4 DEF Acyclic

\* The node x that follows p is bypassed.
LEMMA BypassFacts ==
    ASSUME NEW f \in [Codes -> Nodes], Acyclic(f), NEW p \in Codes, NEW x \in Codes, f[p] = x,
           NEW g \in [Codes -> Nodes], g[p] = f[x], \A c \in Codes : c # p => g[c] = f[c]
    PROVE  /\ g \in [Codes -> Nodes] /\ Acyclic(g) /\ p # x /\ f[x] # x
           /\ \A n \in Nodes : From(g, n) \subseteq From(f, n) /\ From(f, n) \ {x} \subseteq From(g, n)
           /\ \A c \in Codes : From(f, f[c]) \ {x} \subseteq From(g, g[c])
           /\ \A n \in Nodes : p \in From(f, n) => n # x /\ From(g, n) = From(f, n) \ {x}
<1>1. /\ g \in [Codes -> Nodes] /\ g[p] = f[x] /\ \A c \in Codes : c # p => g[c] = f[c]
      /\ f[x] \in Nodes /\ x \in Nodes /\ x # NoNode
  BY RootAssumption DEF Nodes
<1>2. p # x /\ f[x] # x
  <2>1. x \in From(f, x) /\ p \in From(f, p)
    BY FromStep
  <2> QED
    BY <2>1 DEF Acyclic
<1>3. ASSUME NEW n \in Nodes PROVE From(g, n) \subseteq From(f, n)
  <2>1. From(f, n) \subseteq Codes /\ n \in From(f, n) \cup {NoNode} /\ Closed(f, From(f, n))
    BY FromIsClosed
  <2>2. Closed(g, From(f, n))
    BY <1>1, <2>1 DEF Closed
  <2> QED
    BY <2>1, <2>2, FromIsLeast
<1>4. ASSUME NEW n \in Nodes PROVE From(f, n) \ {x} \subseteq From(g, n)
  <2> DEFINE S == From(g, n) \cup (IF p \in From(g, n) THEN {x} ELSE {})
  <2>1. From(g, n) \subseteq Codes /\ n \in From(g, n) \cup {NoNode} /\ Closed(g, From(g, n))
    BY <1>1, FromIsClosed
  <2>2. ASSUME NEW c \in S PROVE f[c] \in S \cup {NoNode}
    <3>1. CASE c = p
      BY <1>2, <3>1
    <3>2. CASE c = x /\ p \in From(g, n)
      BY <1>1, <2>1, <3>2 DEF Closed
    <3>3. CASE c # p /\ c \in From(g, n)
      BY <1>1, <2>1, <3>3 DEF Closed
    <3> QED
      BY <3>1, <3>2, <3>3
  <2>3. From(f, n) \subseteq S
    <3>1. Closed(f, S) /\ S \in SUBSET Codes /\ n \in S \cup {NoNode}
      BY <2>1, <2>2 DEF Closed
    <3> HIDE DEF S
    <3> QED
      BY <3>1, FromIsLeast
  <2> QED
    BY <2>3
<1>5. ASSUME NEW c \in Codes PROVE From(f, f[c]) \ {x} \subseteq From(g, g[c])
  <2>1. f[c] \in Nodes
    OBVIOUS
  <2>2. CASE c = p
    BY <1>1, <1>4, <2>2, FromStep
  <2>3. CASE c # p
    BY <1>1, <1>4, <2>1, <2>3
  <2> QED
    BY <2>2, <2>3
<1>6. ASSUME NEW c \in Codes PROVE c \notin From(g, g[c])
  <2>1. CASE c = p
    <3>1. p \notin From(f, x)
      BY DEF Acyclic
    <3>2. From(g, f[x]) \subseteq From(f, x)
      <4>1. From(g, f[x]) \subseteq From(f, f[x])
        BY <1>1, <1>3
      <4> QED
        BY <4>1, FromStep
    <3> QED
      BY <1>1, <2>1, <3>1, <3>2
  <2>2. CASE c # p
    <3>1. f[c] \in Nodes /\ c \notin From(f, f[c])
      BY DEF Acyclic
    <3> QED
      BY <1>1, <1>3, <2>2, <3>1
  <2> QED
    BY <2>1, <2>2
<1>7. ASSUME NEW n \in Nodes, p \in From(f, n) PROVE n # x /\ From(g, n) = From(f, n) \ {x}
  <2>1. From(f, n) \subseteq Codes /\ n \in From(f, n) \cup {NoNode} /\ Closed(f, From(f, n))
    BY FromIsClosed
  <2>2. n # x
    BY <1>7 DEF Acyclic
  <2>3. ASSUME NEW c \in From(f, n) \ {x} PROVE g[c] \in (From(f, n) \ {x}) \cup {NoNode}
    <3>1. c \in Codes /\ f[c] \in From(f, n) \cup {NoNode} /\ f[x] \in From(f, n) \cup {NoNode}
      <4>1. \A d \in From(f, n) : f[d] \in From(f, n) \cup {NoNode}
        BY <2>1 DEF Closed
      <4>2. x \in From(f, n)
        BY <1>1, <1>7, <4>1
      <4> QED
        BY <2>1, <4>1, <4>2
    <3>2. CASE c = p
      BY <1>1, <1>2, <3>1, <3>2
    <3>3. CASE c # p
      <4>1. f[c] # x
        <5> SUFFICES ASSUME f[c] = x PROVE FALSE
          OBVIOUS
        <5>1. c \in From(f, p) \/ p \in From(f, c)
          BY <1>7, FromIsChain
        <5>2. c \in From(f, x) \/ p \in From(f, x)
          BY <3>1, <3>3, <5>1, FromStep
        <5> QED
          BY <3>1, <5>2 DEF Acyclic
      <4> QED
        BY <1>1, <3>1, <3>3, <4>1
    <3> QED
      BY <3>2, <3>3
  <2>4. From(g, n) \subseteq From(f, n) \ {x}
    <3>1. Closed(g, From(f, n) \ {x})
      BY <2>3 DEF Closed
    <3> QED
      BY <2>1, <2>2, <3>1, FromIsLeast
  <2> QED
    BY <1>4, <2>2, <2>4
<1> QED
  BY <1>1, <1>2, <1>3, <1>4, <1>5, <1>6, <1>7 DEF Acyclic
-----------------------------------------------------------------------------
\* The steps of a registration whose code is not in the list yet.
Registrars == {"register", "read", "link"}

\* Who works under the lock holds it, and who cleans up holds the other one.
LocksHeld ==
    \A t \in Threads :
        /\ thread[t].pc \in Registering \cup Enumerating <=> lock = t
        /\ thread[t].pc \in Cleaning <=> cleanupLock = t

\* No node leads to a code that is not in the list yet, and it leads to none.
Fresh(c) == c # Root /\ next[c] = NoNode /\ \A d \in Codes : next[d] # c

\* Every thread registers a code of its own.
CodesAreFresh ==
    /\ \A c \in Codes : status[c] = "unborn" => Fresh(c)
    /\ \A t \in Threads : thread[t].pc \in Registrars =>
          /\ thread[t].code \in Codes
          /\ status[thread[t].code] # "unborn"
          /\ Fresh(thread[t].code)
    /\ \A t \in Threads, u \in Threads :
          thread[t].pc \in Registrars /\ thread[u].pc \in Registrars /\ t # u
             => thread[t].code # thread[u].code

\* The cleanup stays in the list, because nobody else unlinks a node, and prev
\* leads to cur, because nobody else changes Next.
CleanerAt(t) ==
    /\ thread[t].pc \in {"root", "wait"} => thread[t].prev = NoNode
    /\ thread[t].pc \in {"scan", "next"} =>
          {thread[t].cur, thread[t].prev} \subseteq Linked \cup {NoNode}
    /\ thread[t].pc = "scan" /\ thread[t].prev # NoNode => next[thread[t].prev] = thread[t].cur

\* What an enumeration has not updated is still ahead of it, in either step.
EnumeratorAt(t) ==
    \A c \in Linked : status[c] = "alive" =>
        /\ thread[t].pc = "visit" => c \in visited \cup From(next, thread[t].cur)
        /\ thread[t].pc = "advance" => c \in visited \cup From(next, next[thread[t].cur])

Locals == [pc : Steps, code : Nodes, prev : Nodes, cur : Nodes, removed : Nat]

\* A step to the next node starts from a node.
StepsFromNode == \A t \in Threads : thread[t].pc \in {"next", "advance"} => thread[t].cur \in Codes

\* The inductive invariant. The cleanup is placed because the list is acyclic and fresh
\* codes are off it; the enumeration because a bypassed node keeps its Next.
Typed == TypeOK /\ LocksHeld /\ StepsFromNode
Placed == \A t \in Threads : CleanerAt(t) /\ EnumeratorAt(t)
IInv == Typed /\ Acyclic(next) /\ CodesAreFresh /\ Placed /\ NoLiveCodeLost /\ CountIsExact
-----------------------------------------------------------------------------

\* No code is registered at the start, and the list is empty.
LEMMA Initially == Init => IInv
<1> SUFFICES ASSUME Init PROVE IInv
  OBVIOUS
<1>1. Typed
  BY RootAssumption, NobodyAssumption, CleanupAssumption
  DEF Init, Typed, TypeOK, LocksHeld, StepsFromNode, Idle, Nodes, Steps, Registering, Enumerating, Cleaning
<1>2. Root = NoNode /\ \A c \in Codes : next[c] = NoNode
  BY RootAssumption DEF Init, Root
<1>3. Linked = {} /\ Acyclic(next)
  BY <1>2, FromNone DEF Linked, Acyclic
<1>4. CodesAreFresh /\ Placed
  BY <1>2, RootAssumption DEF Init, Placed, CodesAreFresh, CleanerAt, EnumeratorAt, Fresh, Idle, Registrars
<1>5. NoLiveCodeLost
  BY DEF Init, NoLiveCodeLost
<1>6. CountIsExact
  <2>1. {t \in Threads : thread[t].pc = "count"} = {}
    BY DEF Init, Idle
  <2> QED
    BY <1>3, <2>1, FS_EmptySet DEF Init, CountIsExact
<1> QED
  BY <1>1, <1>3, <1>4, <1>5, <1>6 DEF IInv
-----------------------------------------------------------------------------
(* The types and the locks.                                                  *)

\* What a thread does next, in the types of its local variables.
LEMMA ThreadMoves ==
    ASSUME NEW R, NEW f \in [Threads -> R], NEW t \in Threads, NEW r \in R
    PROVE  [f EXCEPT ![t] = r] \in [Threads -> R]
  OBVIOUS

\* The local variables stay local variables when one of them is assigned.
LEMMA LocalsMove ==
    ASSUME NEW l \in Locals, NEW s \in Steps, NEW c \in Nodes, NEW n \in Nodes
    PROVE  /\ [l EXCEPT !.pc = s, !.code = c, !.cur = n] \in Locals
           /\ [l EXCEPT !.pc = s, !.cur = n] \in Locals
           /\ [l EXCEPT !.pc = s, !.prev = n] \in Locals
  BY DEF Locals

\* The arithmetic of the threshold stays within the integers.
LEMMA DivInteger == \A a \in Int, b \in Nat \ {0} : a \div b \in Int
  OBVIOUS

\* A product of counts is one, for the provers' nonlinear arithmetic.
LEMMA ProductNatural == \A a \in Nat, b \in Nat : a * b \in Nat
  OBVIOUS

\* Without a cleanup nothing is removed, so that the count is never negative.
LEMMA CountFacts ==
    ASSUME Typed, CountIsExact
    PROVE  \A t \in Threads : cleanupLock = t /\ lock = Nobody => thread[t].removed <= codeCount
<1> SUFFICES ASSUME NEW t \in Threads, cleanupLock = t, lock = Nobody
             PROVE  thread[t].removed <= codeCount
  OBVIOUS
<1>1. {u \in Threads : thread[u].pc = "count"} = {}
  BY NobodyAssumption DEF Typed, LocksHeld, Registering
<1>2. Cardinality(Linked) \in Nat
  <2>1. Linked \subseteq Codes
    BY DEF Linked, From
  <2> QED
    BY <2>1, CodesAssumption, FS_Subset, FS_CardinalityType
<1>3. Cardinality(Linked) + thread[t].removed = codeCount + 0
  BY <1>1, FS_EmptySet, NobodyAssumption DEF CountIsExact
<1>4. thread[t].removed \in Nat /\ codeCount \in Nat
  BY DEF Typed, TypeOK
<1> QED
  BY <1>2, <1>3, <1>4

\* The next threshold is a count.
LEMMA NextThresholds ==
    ASSUME Typed, NEW t \in Threads, FinishCleanup(t)
    PROVE  nextCleanup' \in Nat
<1> DEFINE removed == thread[t].removed
<1>1. codeCount \in Nat /\ nextCleanup \in Nat /\ removed \in Nat
  BY DEF Typed, TypeOK
<1>2. nextCleanup' = IF codeCount = 0 THEN FirstCleanup
                     ELSE IF removed > 0 /\ Target(removed) > 0 THEN Target(removed)
                     ELSE nextCleanup + Postponement
  BY DEF FinishCleanup
<1> HIDE DEF removed
<1>3. removed > 0 => Target(removed) \in Int
  <2> SUFFICES ASSUME removed > 0 PROVE Target(removed) \in Int
    OBVIOUS
  <2>1. 2 * removed \in Nat \ {0} /\ nextCleanup * codeCount \in Nat
    BY <1>1, ProductNatural
  <2>2. (nextCleanup * codeCount) \div (2 * removed) \in Int
    BY <2>1, DivInteger
  <2> QED
    BY <1>1, <2>2 DEF Target
<1>4. FirstCleanup \in Nat /\ nextCleanup + Postponement \in Nat
  BY <1>1, CleanupAssumption
<1> QED
  BY <1>2, <1>3, <1>4

\* An enumeration goes on from a node, so that it finds a node or the end.
LEMMA AdvanceTyped ==
    ASSUME Typed, NEW t \in Threads, Advance(t)
    PROVE  thread' \in [Threads -> Locals]
<1> DEFINE n == next[thread[t].cur]
           r == [thread[t] EXCEPT !.pc = "visit", !.code = NoNode, !.cur = n]
<1>1. n \in Nodes
  BY DEF Typed, TypeOK, StepsFromNode, Advance
<1>2. /\ thread[t] \in Locals
      /\ NoNode \in Nodes /\ "visit" \in Steps
      /\ thread \in [Threads -> Locals]
  BY DEF Typed, TypeOK, Nodes, Steps, Locals
<1>3. thread' = [thread EXCEPT ![t] = r]
  BY DEF Advance
<1> HIDE DEF n
<1>4. r \in Locals
  BY <1>1, <1>2, LocalsMove
<1> HIDE DEF r
<1> QED
  BY <1>2, <1>3, <1>4, ThreadMoves

\* A cleanup never takes the marker for a node.
LEMMA RootReadTyped ==
    ASSUME Typed, NEW t \in Threads, ReadRoot(t) \/ AwaitRoot(t)
    PROVE  thread' \in [Threads -> Locals]
<1> DEFINE r(s, n) == [thread[t] EXCEPT !.pc = s, !.cur = n]
<1>1. thread[t] \in Locals /\ thread \in [Threads -> Locals]
  BY DEF Typed, TypeOK, Locals
<1>2. PICK s \in Steps, n \in Nodes : thread' = [thread EXCEPT ![t] = r(s, n)]
  <2>1. CASE allCodes = Marker
    <3>1. "wait" \in Steps /\ thread[t].cur \in Nodes /\ ReadRoot(t)
      BY <2>1, RootAssumption DEF Typed, TypeOK, Steps, AwaitRoot
    <3>2. thread' = [thread EXCEPT ![t] = r("wait", thread[t].cur)]
      BY <2>1, <3>1 DEF ReadRoot
    <3> HIDE DEF r
    <3> QED
      BY <3>1, <3>2
  <2>2. CASE allCodes # Marker
    <3>1. "scan" \in Steps /\ allCodes \in Nodes
      BY <2>2 DEF Typed, TypeOK, Steps
    <3>2. thread' = [thread EXCEPT ![t] = r("scan", allCodes)]
      BY <2>2 DEF ReadRoot, AwaitRoot
    <3> HIDE DEF r
    <3> QED
      BY <3>1, <3>2
  <2> QED
    BY <2>1, <2>2
<1>3. r(s, n) \in Locals
  BY <1>1, LocalsMove
<1> HIDE DEF r
<1> QED
  BY <1>1, <1>2, <1>3, ThreadMoves

\* Nor does a registration, which holds the lock.
LEMMA ReadPrevCodeTyped ==
    ASSUME Typed, NEW t \in Threads, ReadPrevCode(t)
    PROVE  thread' \in [Threads -> Locals]
<1> DEFINE r == [thread[t] EXCEPT !.pc = "link", !.prev = allCodes]
<1>1. allCodes # Marker
  BY NobodyAssumption DEF ReadPrevCode, Typed, TypeOK, LocksHeld, Registering, Enumerating
<1>2. /\ allCodes \in Nodes /\ "link" \in Steps
      /\ thread[t] \in Locals /\ thread \in [Threads -> Locals]
  BY <1>1 DEF Typed, TypeOK, Steps, Locals
<1>3. thread' = [thread EXCEPT ![t] = r]
  BY DEF ReadPrevCode
<1>4. r \in Locals
  BY <1>2, LocalsMove
<1> HIDE DEF r
<1> QED
  BY <1>2, <1>3, <1>4, ThreadMoves

\* A thread that is done is idle.
LEMMA BecomesTyped ==
    ASSUME Typed, NEW t \in Threads, Become(t, Idle)
    PROVE  thread' \in [Threads -> Locals]
<1>1. thread \in [Threads -> Locals]
  BY DEF Typed, TypeOK, Locals
<1>2. Idle \in Locals
  BY DEF Idle, Locals, Steps, Nodes
<1> QED
  BY <1>1, <1>2, ThreadMoves DEF Become

\* Every step keeps the types, the locks and the place of the marker.
LEMMA TypedKept == ASSUME Typed, CountIsExact, [Next]_vars PROVE Typed'
<1> USE NobodyAssumption, RootAssumption
    DEF Typed, TypeOK, LocksHeld, StepsFromNode, Locals, Idle, Nodes, Steps, Registering, Enumerating, Cleaning, Goto, Become,
        list, counts
<1>1. CASE UNCHANGED vars
  BY <1>1 DEF vars
<1>2. CASE \E c \in Codes : Collect(c)
  BY <1>2 DEF Collect
<1>3. ASSUME NEW t \in Threads, NEW c \in Codes, BeginRegister(t, c) PROVE Typed'
  BY <1>3 DEF BeginRegister
<1>4. ASSUME NEW t \in Threads, BeginEnumeration(t) PROVE Typed'
  BY <1>4 DEF BeginEnumeration
<1>5. ASSUME NEW t \in Threads, BeginQueuedCleanup(t) \/ BeginSynchronousCleanup(t) PROVE Typed'
  BY <1>5 DEF BeginQueuedCleanup, BeginSynchronousCleanup, LockToClean
<1>6. ASSUME NEW t \in Threads, Register(t) PROVE Typed'
  <2>1. CASE LockToRegister(t)
    BY <2>1 DEF LockToRegister
  <2>2. CASE ReadPrevCode(t)
    <3>1. thread' \in [Threads -> Locals]
      BY <2>2, ReadPrevCodeTyped
    <3>2. /\ allCodes' \in Nodes \cup {Marker} /\ next' \in [Codes -> Nodes]
          /\ status' \in [Codes -> {"unborn", "alive", "dead"}]
          /\ lock' \in Threads \cup {Nobody} /\ cleanupLock' \in Threads \cup {Nobody}
          /\ codeCount' \in Nat /\ nextCleanup' \in Nat /\ queued' \in Nat /\ visited' \subseteq Codes
      BY <2>2 DEF ReadPrevCode
    <3>3. allCodes' = Marker <=> lock' # Nobody /\ thread'[lock'].pc \in Enumerating
      BY <2>2 DEF ReadPrevCode
    <3>4. LocksHeld' /\ StepsFromNode'
      BY <2>2 DEF ReadPrevCode
    <3> QED
      BY <3>1, <3>2, <3>3, <3>4
  <2>3. CASE LinkCode(t)
    <3>1. thread' \in [Threads -> Locals]
      BY <2>3 DEF LinkCode
    <3>2. /\ allCodes' \in Nodes \cup {Marker} /\ next' \in [Codes -> Nodes]
          /\ status' \in [Codes -> {"unborn", "alive", "dead"}]
          /\ lock' \in Threads \cup {Nobody} /\ cleanupLock' \in Threads \cup {Nobody}
          /\ codeCount' \in Nat /\ nextCleanup' \in Nat /\ queued' \in Nat /\ visited' \subseteq Codes
      BY <2>3 DEF LinkCode
    <3>3. allCodes' = Marker <=> lock' # Nobody /\ thread'[lock'].pc \in Enumerating
      BY <2>3 DEF LinkCode
    <3>4. LocksHeld' /\ StepsFromNode'
      BY <2>3 DEF LinkCode
    <3> QED
      BY <3>1, <3>2, <3>3, <3>4
  <2>4. CASE CountCode(t)
    BY <2>4 DEF CountCode
  <2> QED
    BY <1>6, <2>1, <2>2, <2>3, <2>4 DEF Register
<1>7. ASSUME NEW t \in Threads, Enumerate(t) PROVE Typed'
  <2>1. CASE Visit(t)
    BY <2>1 DEF Visit
  <2>2. CASE Advance(t)
    <3>1. thread' \in [Threads -> Locals]
      BY <2>2, AdvanceTyped
    <3>2. /\ allCodes' \in Nodes \cup {Marker} /\ next' \in [Codes -> Nodes]
          /\ status' \in [Codes -> {"unborn", "alive", "dead"}]
          /\ lock' \in Threads \cup {Nobody} /\ cleanupLock' \in Threads \cup {Nobody}
          /\ codeCount' \in Nat /\ nextCleanup' \in Nat /\ queued' \in Nat /\ visited' \subseteq Codes
      BY <2>2 DEF Advance
    <3>3. allCodes' = Marker <=> lock' # Nobody /\ thread'[lock'].pc \in Enumerating
      BY <2>2 DEF Advance
    <3>4. LocksHeld' /\ StepsFromNode'
      BY <2>2 DEF Advance
    <3> QED
      BY <3>1, <3>2, <3>3, <3>4
  <2>3. CASE EndEnumeration(t)
    <3>1. thread' \in [Threads -> Locals]
      BY <2>3 DEF EndEnumeration
    <3>2. /\ allCodes' \in Nodes \cup {Marker} /\ next' \in [Codes -> Nodes]
          /\ status' \in [Codes -> {"unborn", "alive", "dead"}]
          /\ lock' \in Threads \cup {Nobody} /\ cleanupLock' \in Threads \cup {Nobody}
          /\ codeCount' \in Nat /\ nextCleanup' \in Nat /\ queued' \in Nat /\ visited' \subseteq Codes
      BY <2>3 DEF EndEnumeration
    <3>3. allCodes' = Marker <=> lock' # Nobody /\ thread'[lock'].pc \in Enumerating
      BY <2>3 DEF EndEnumeration
    <3>4. LocksHeld' /\ StepsFromNode'
      BY <2>3 DEF EndEnumeration
    <3> QED
      BY <3>1, <3>2, <3>3, <3>4
  <2> QED
    BY <1>7, <2>1, <2>2, <2>3 DEF Enumerate
<1>8. ASSUME NEW t \in Threads, Clean(t) PROVE Typed'
  <2>1. CASE ReadRoot(t)
    <3>1. thread' \in [Threads -> Locals]
      BY <2>1, RootReadTyped
    <3>2. /\ allCodes' \in Nodes \cup {Marker} /\ next' \in [Codes -> Nodes]
          /\ status' \in [Codes -> {"unborn", "alive", "dead"}]
          /\ lock' \in Threads \cup {Nobody} /\ cleanupLock' \in Threads \cup {Nobody}
          /\ codeCount' \in Nat /\ nextCleanup' \in Nat /\ queued' \in Nat /\ visited' \subseteq Codes
      BY <2>1 DEF ReadRoot
    <3>3. allCodes' = Marker <=> lock' # Nobody /\ thread'[lock'].pc \in Enumerating
      BY <2>1 DEF ReadRoot
    <3>4. LocksHeld' /\ StepsFromNode'
      BY <2>1 DEF ReadRoot
    <3> QED
      BY <3>1, <3>2, <3>3, <3>4
  <2>2. CASE AwaitRoot(t)
    <3>1. thread' \in [Threads -> Locals]
      BY <2>2, RootReadTyped
    <3>2. /\ allCodes' \in Nodes \cup {Marker} /\ next' \in [Codes -> Nodes]
          /\ status' \in [Codes -> {"unborn", "alive", "dead"}]
          /\ lock' \in Threads \cup {Nobody} /\ cleanupLock' \in Threads \cup {Nobody}
          /\ codeCount' \in Nat /\ nextCleanup' \in Nat /\ queued' \in Nat /\ visited' \subseteq Codes
      BY <2>2 DEF AwaitRoot
    <3>3. allCodes' = Marker <=> lock' # Nobody /\ thread'[lock'].pc \in Enumerating
      BY <2>2 DEF AwaitRoot
    <3>4. LocksHeld' /\ StepsFromNode'
      BY <2>2 DEF AwaitRoot
    <3> QED
      BY <3>1, <3>2, <3>3, <3>4
  <2>3. CASE KeepNode(t) \/ NextNode(t)
    BY <2>3 DEF KeepNode, NextNode
  <2>4. CASE UnlinkRoot(t)
    <3>1. thread[t].cur \in Codes /\ thread[t].pc = "scan" /\ thread[t].removed + 1 \in Nat
      BY <2>4 DEF UnlinkRoot
    <3>2. thread' \in [Threads -> Locals]
      BY <2>4, <3>1 DEF UnlinkRoot
    <3>3. /\ allCodes' \in Nodes \cup {Marker} /\ next' \in [Codes -> Nodes]
          /\ status' \in [Codes -> {"unborn", "alive", "dead"}]
          /\ lock' \in Threads \cup {Nobody} /\ cleanupLock' \in Threads \cup {Nobody}
          /\ codeCount' \in Nat /\ nextCleanup' \in Nat /\ queued' \in Nat /\ visited' \subseteq Codes
      BY <2>4, <3>1 DEF UnlinkRoot
    <3>4. allCodes' = Marker <=> lock' # Nobody /\ thread'[lock'].pc \in Enumerating
      BY <2>4, <3>1 DEF UnlinkRoot
    <3>5. LocksHeld' /\ StepsFromNode'
      BY <2>4, <3>1 DEF UnlinkRoot
    <3> QED
      BY <3>2, <3>3, <3>4, <3>5
  <2>5. CASE UnlinkNode(t)
    <3>1. thread[t].cur \in Codes /\ thread[t].pc = "scan" /\ thread[t].removed + 1 \in Nat
      BY <2>5 DEF UnlinkNode
    <3>2. thread' \in [Threads -> Locals]
      BY <2>5, <3>1 DEF UnlinkNode
    <3>3. /\ allCodes' \in Nodes \cup {Marker} /\ next' \in [Codes -> Nodes]
          /\ status' \in [Codes -> {"unborn", "alive", "dead"}]
          /\ lock' \in Threads \cup {Nobody} /\ cleanupLock' \in Threads \cup {Nobody}
          /\ codeCount' \in Nat /\ nextCleanup' \in Nat /\ queued' \in Nat /\ visited' \subseteq Codes
      BY <2>5, <3>1 DEF UnlinkNode
    <3>4. allCodes' = Marker <=> lock' # Nobody /\ thread'[lock'].pc \in Enumerating
      BY <2>5, <3>1 DEF UnlinkNode
    <3>5. LocksHeld' /\ StepsFromNode'
      BY <2>5, <3>1 DEF UnlinkNode
    <3> QED
      BY <3>2, <3>3, <3>4, <3>5
  <2>6. CASE FinishCleanup(t)
    <3>1. thread' \in [Threads -> Locals]
      BY <2>6, BecomesTyped DEF FinishCleanup
    <3>2. /\ allCodes' \in Nodes \cup {Marker} /\ next' \in [Codes -> Nodes]
          /\ status' \in [Codes -> {"unborn", "alive", "dead"}]
          /\ lock' \in Threads \cup {Nobody} /\ cleanupLock' \in Threads \cup {Nobody}
          /\ nextCleanup' \in Nat /\ queued' \in Nat /\ visited' \subseteq Codes
      BY <2>6, NextThresholds DEF FinishCleanup
    <3>5. codeCount' \in Nat
      <4>1. codeCount \in Nat /\ thread[t].removed \in Nat /\ thread[t].removed <= codeCount
        BY <2>6, CountFacts DEF FinishCleanup
      <4>2. codeCount' \in {0, codeCount - thread[t].removed}
        BY <2>6 DEF FinishCleanup
      <4> QED
        BY <4>1, <4>2
    <3>3. allCodes' = Marker <=> lock' # Nobody /\ thread'[lock'].pc \in Enumerating
      BY <2>6 DEF FinishCleanup
    <3>4. LocksHeld' /\ StepsFromNode'
      BY <2>6 DEF FinishCleanup
    <3> QED
      BY <3>1, <3>2, <3>3, <3>4, <3>5
  <2> QED
    BY <1>8, <2>1, <2>2, <2>3, <2>4, <2>5, <2>6 DEF Clean
<1> QED
  BY <1>1, <1>2, <1>3, <1>4, <1>5, <1>6, <1>7, <1>8 DEF Next
-----------------------------------------------------------------------------
(* The list.                                                                 *)

\* Where the root is.
LEMMA RootFacts ==
    ASSUME Typed
    PROVE  /\ Root \in Nodes /\ next \in [Codes -> Nodes]
           /\ Linked \subseteq Codes /\ Root \in Linked \cup {NoNode} /\ Closed(next, Linked)
           /\ allCodes # Marker => Root = allCodes
           /\ \A t \in Threads : thread[t].pc \in Enumerating =>
                 allCodes = Marker /\ Root = thread[t].prev /\ lock = t
           /\ \A t \in Threads : thread[t].pc \in Registering => allCodes # Marker /\ lock = t
           /\ lock = Nobody => allCodes # Marker
<1>1. /\ allCodes \in Nodes \cup {Marker} /\ next \in [Codes -> Nodes]
      /\ lock \in Threads \cup {Nobody}
      /\ \A t \in Threads : thread[t].prev \in Nodes
      /\ allCodes = Marker <=> lock # Nobody /\ thread[lock].pc \in Enumerating
      /\ \A t \in Threads : thread[t].pc \in Registering \cup Enumerating <=> lock = t
  BY DEF Typed, TypeOK, LocksHeld
<1>2. Root \in Nodes
  BY <1>1 DEF Root
<1>3. \A t \in Threads : thread[t].pc \in Registering => thread[t].pc \notin Enumerating
  BY DEF Registering, Enumerating
<1>4. /\ allCodes # Marker => Root = allCodes
      /\ \A t \in Threads : thread[t].pc \in Enumerating =>
            allCodes = Marker /\ Root = thread[t].prev /\ lock = t
      /\ \A t \in Threads : thread[t].pc \in Registering => allCodes # Marker /\ lock = t
  BY <1>1, <1>3, NobodyAssumption DEF Root
<1> QED
  BY <1>1, <1>2, <1>4, FromIsClosed DEF Linked

\* A code that is not in the list yet.
LEMMA FreshIsUnlinked ==
    ASSUME Typed, NEW c \in Codes, Fresh(c)
    PROVE  c \notin Linked
<1>1. Closed(next, Linked \ {c}) /\ Linked \ {c} \subseteq Codes /\ Root \in (Linked \ {c}) \cup {NoNode}
  BY RootFacts DEF Fresh, Closed
<1>2. Linked \subseteq Linked \ {c}
  BY <1>1, FromIsLeast DEF Linked
<1> QED
  BY <1>2

\* What a step has to show that leaves the list as it is and moves one thread.
LEMMA QuietStep ==
    ASSUME IInv, Typed', UNCHANGED <<next, status>>, Root' = Root, NEW t \in Threads,
           \A u \in Threads : u # t => thread'[u] = thread[u],
           thread[t].pc \in Registrars <=> thread'[t].pc \in Registrars,
           thread[t].pc \in Registrars => thread'[t].code = thread[t].code,
           visited \subseteq visited' \/ thread'[t].pc \in Enumerating,
           CleanerAt(t)', EnumeratorAt(t)', CountIsExact'
    PROVE  IInv'
<1>1. Linked' = Linked /\ Acyclic(next)' /\ \A c : Fresh(c)' <=> Fresh(c)
  BY DEF Linked, IInv, Acyclic, Fresh
<1>2. CodesAreFresh'
  BY <1>1 DEF IInv, CodesAreFresh
<1>3. ASSUME NEW u \in Threads PROVE CleanerAt(u)' /\ EnumeratorAt(u)'
  <2>1. CASE u = t
    BY <2>1
  <2>2. CASE u # t
    <3>1. thread'[u] = thread[u] /\ CleanerAt(u) /\ EnumeratorAt(u)
      BY <2>2 DEF IInv, Placed
    <3>2. CleanerAt(u)'
      BY <1>1, <3>1 DEF CleanerAt
    <3>3. CASE thread'[t].pc \in Enumerating
      <4>1. thread'[u].pc \notin Enumerating
        BY <2>2, <3>3 DEF Typed, LocksHeld
      <4> QED
        BY <3>2, <4>1 DEF EnumeratorAt, Enumerating
    <3>4. CASE visited \subseteq visited'
      BY <1>1, <3>1, <3>2, <3>4 DEF EnumeratorAt
    <3> QED
      BY <3>3, <3>4
  <2> QED
    BY <2>1, <2>2
<1>4. NoLiveCodeLost'
  <2> SUFFICES ASSUME NEW c \in Codes, status[c] = "alive", c \notin Linked,
                      \A u \in Threads : thread'[u].code = c => thread'[u].pc \notin Registrars
               PROVE  FALSE
    BY <1>1 DEF NoLiveCodeLost, Registrars
  <2>1. PICK u \in Threads : thread[u].code = c /\ thread[u].pc \in Registrars
    BY DEF IInv, NoLiveCodeLost, Registrars
  <2> QED
    BY <2>1
<1> QED
  BY <1>1, <1>2, <1>3, <1>4 DEF IInv, Placed

\* The count stays exact if nothing is linked, counted or removed.
LEMMA CountKept ==
    ASSUME CountIsExact, UNCHANGED <<next, codeCount, cleanupLock>>, Root' = Root, Typed, NEW t \in Threads,
           \A u \in Threads : u # t => thread'[u] = thread[u],
           thread'[t].removed = thread[t].removed \/ cleanupLock # t,
           thread'[t].pc = "count" <=> thread[t].pc = "count"
    PROVE  CountIsExact'
<1>1. Linked' = Linked
  BY DEF Linked
<1>2. {u \in Threads : thread[u].pc = "count"}' = {u \in Threads : thread[u].pc = "count"}
  OBVIOUS
<1>3. (IF cleanupLock = Nobody THEN 0 ELSE thread[cleanupLock].removed)'
         = IF cleanupLock = Nobody THEN 0 ELSE thread[cleanupLock].removed
  BY DEF Typed, TypeOK
<1> QED
  BY <1>1, <1>2, <1>3 DEF CountIsExact
-----------------------------------------------------------------------------
(* Steps that leave the list alone.                                          *)

\* A code that dies was never in danger of being lost.
LEMMA CollectKeeps ==
    ASSUME IInv, Typed', NEW c \in Codes, Collect(c)
    PROVE  IInv'
<1>1. /\ UNCHANGED <<list, thread, lock, visited, codeCount, cleanupLock>>
      /\ \A d \in Codes : status'[d] = "alive" => status[d] = "alive"
      /\ \A d \in Codes : status'[d] = "unborn" => status[d] = "unborn"
      /\ \A d \in Codes : status[d] # "unborn" => status'[d] # "unborn"
  BY DEF Collect, counts, IInv, Typed, TypeOK
<1>2. Root' = Root /\ Linked' = Linked /\ UNCHANGED next
  BY <1>1 DEF Root, Linked, list
<1>3. \A d : Fresh(d)' <=> Fresh(d)
  BY <1>2 DEF Fresh
<1>4. Acyclic(next)' /\ CountIsExact'
  BY <1>1, <1>2 DEF IInv, Acyclic, CountIsExact
<1>5. CodesAreFresh'
  BY <1>1, <1>3 DEF IInv, CodesAreFresh
<1>6. Linked \subseteq Codes
  BY RootFacts DEF IInv
<1>7. Placed' /\ NoLiveCodeLost'
  BY <1>1, <1>2, <1>6 DEF IInv, Placed, CleanerAt, EnumeratorAt, NoLiveCodeLost
<1> QED
  BY <1>4, <1>5, <1>7 DEF IInv

\* A code that is born is not in the list yet, and its thread is at work on it.
LEMMA BeginRegisterKeeps ==
    ASSUME IInv, Typed', NEW t \in Threads, NEW c \in Codes, BeginRegister(t, c)
    PROVE  IInv'
<1>1. /\ UNCHANGED <<list, lock, visited, codeCount, cleanupLock>>
      /\ thread[t].pc = "idle" /\ status[c] = "unborn"
      /\ \A d \in Codes : d # c => status'[d] = status[d]
      /\ status'[c] = "alive"
      /\ \A u \in Threads : u # t => thread'[u] = thread[u]
      /\ thread'[t].pc = "register" /\ thread'[t].code = c
  BY DEF BeginRegister, Become, Idle, counts, IInv, Typed, TypeOK
<1>2. Root' = Root /\ Linked' = Linked /\ UNCHANGED next
  <2>1. allCodes = Marker => lock # t
    BY <1>1, RootFacts DEF IInv, Typed, TypeOK, Enumerating
  <2> QED
    BY <1>1, <2>1 DEF Root, Linked, list, IInv, Typed, TypeOK
<1>3. \A d : Fresh(d)' <=> Fresh(d)
  BY <1>2 DEF Fresh
<1>4. Fresh(c) /\ c \notin Linked /\ Linked \subseteq Codes
  BY <1>1, FreshIsUnlinked, RootFacts DEF IInv, CodesAreFresh
<1>5. CodesAreFresh'
  BY <1>1, <1>3, <1>4 DEF IInv, CodesAreFresh, Registrars
<1>6. Placed'
  <2>1. \A u \in Threads : CleanerAt(u)'
    BY <1>1, <1>2 DEF IInv, Placed, CleanerAt
  <2>2. \A d \in Linked : status'[d] = status[d]
    BY <1>1, <1>4
  <2>3. \A u \in Threads : EnumeratorAt(u)'
    BY <1>1, <1>2, <2>2 DEF IInv, Placed, EnumeratorAt
  <2> QED
    BY <2>1, <2>3 DEF Placed
<1>7. NoLiveCodeLost'
  BY <1>1, <1>2 DEF IInv, NoLiveCodeLost
<1>8. CountIsExact'
  <2>1. thread'[t].removed = thread[t].removed \/ cleanupLock # t
    BY <1>1 DEF IInv, Typed, LocksHeld, Cleaning
  <2> QED
    BY <1>1, <1>2, <2>1, CountKept DEF IInv
<1> QED
  BY <1>2, <1>5, <1>6, <1>7, <1>8 DEF IInv, Acyclic
-----------------------------------------------------------------------------
\* The root stays where it is when the thread at the marker keeps prev.
LEMMA RootKept ==
    ASSUME Typed, NEW t \in Threads, UNCHANGED <<allCodes, lock>>,
           \A u \in Threads : u # t => thread'[u] = thread[u],
           thread[t].pc \in Enumerating => thread'[t].prev = thread[t].prev
    PROVE  Root' = Root
<1>1. CASE allCodes # Marker
  BY <1>1 DEF Root
<1>2. CASE allCodes = Marker
  <2>1. lock \in Threads /\ thread[lock].pc \in Enumerating
    BY <1>2 DEF Typed, TypeOK
  <2>2. thread'[lock].prev = thread[lock].prev
    BY <2>1
  <2> QED
    BY <1>2, <2>2 DEF Root
<1> QED
  BY <1>1, <1>2

\* Taking the lock moves nothing.
LEMMA LockToRegisterKeeps ==
    ASSUME IInv, Typed', NEW t \in Threads, LockToRegister(t)
    PROVE  IInv'
<1>1. /\ UNCHANGED <<list, status, visited, codeCount, cleanupLock>>
      /\ thread[t].pc = "register" /\ lock = Nobody /\ lock' = t
      /\ \A u \in Threads : u # t => thread'[u] = thread[u]
      /\ thread'[t] = [thread[t] EXCEPT !.pc = "read"]
      /\ thread'[t].pc = "read" /\ thread'[t].code = thread[t].code
      /\ thread'[t].removed = thread[t].removed
  BY DEF LockToRegister, Goto, counts, IInv, Typed, TypeOK
<1>2. Root' = Root
  BY <1>1, RootFacts DEF Root, list, IInv
<1>3. CountIsExact'
  BY <1>1, <1>2, CountKept DEF IInv, list
<1>4. CleanerAt(t)' /\ EnumeratorAt(t)'
  BY <1>1 DEF CleanerAt, EnumeratorAt
<1> QED
  BY <1>1, <1>2, <1>3, <1>4, QuietStep DEF list, Registrars

\* Nor does reading the root.
LEMMA ReadPrevCodeKeeps ==
    ASSUME IInv, Typed', NEW t \in Threads, ReadPrevCode(t)
    PROVE  IInv'
<1>1. /\ UNCHANGED <<list, status, visited, lock, codeCount, cleanupLock>>
      /\ thread[t].pc = "read"
      /\ \A u \in Threads : u # t => thread'[u] = thread[u]
      /\ thread'[t].pc = "link" /\ thread'[t].code = thread[t].code
      /\ thread'[t].removed = thread[t].removed
  BY DEF ReadPrevCode, counts, IInv, Typed, TypeOK
<1>2. Root' = Root
  BY <1>1, RootKept DEF list, IInv, Enumerating
<1>3. CountIsExact'
  BY <1>1, <1>2, CountKept DEF IInv, list
<1>4. CleanerAt(t)' /\ EnumeratorAt(t)'
  BY <1>1 DEF CleanerAt, EnumeratorAt
<1> QED
  BY <1>1, <1>2, <1>3, <1>4, QuietStep DEF list, Registrars

\* The lock is released, and the code that was in the list already is counted.
LEMMA CountCodeKeeps ==
    ASSUME IInv, Typed', NEW t \in Threads, CountCode(t)
    PROVE  IInv'
<1>1. /\ UNCHANGED <<list, status, visited, cleanupLock>>
      /\ thread[t].pc = "count" /\ lock' = Nobody /\ codeCount' = codeCount + 1
      /\ \A u \in Threads : u # t => thread'[u] = thread[u]
      /\ thread'[t].pc = "idle"
  BY DEF CountCode, Become, Idle, counts, IInv, Typed, TypeOK
<1>2. lock = t /\ cleanupLock # t /\ allCodes # Marker
  BY <1>1, RootFacts DEF IInv, Typed, LocksHeld, Registering, Cleaning
<1>3. Root' = Root /\ Linked' = Linked
  BY <1>1, <1>2 DEF Root, list, Linked
<1>4. CountIsExact'
  <2>1. {u \in Threads : thread[u].pc = "count"} = {t}
    BY <1>1, <1>2 DEF IInv, Typed, LocksHeld, Registering
  <2>2. {u \in Threads : thread[u].pc = "count"}' = {}
    BY <1>1, <2>1
  <2>3. Cardinality({t}) = 1 /\ Cardinality({}) = 0
    BY FS_Singleton, FS_EmptySet
  <2>4. (IF cleanupLock = Nobody THEN 0 ELSE thread[cleanupLock].removed)'
           = IF cleanupLock = Nobody THEN 0 ELSE thread[cleanupLock].removed
    BY <1>1, <1>2 DEF IInv, Typed, TypeOK
  <2>5. Cardinality(Linked) + (IF cleanupLock = Nobody THEN 0 ELSE thread[cleanupLock].removed) = codeCount + 1
    BY <2>1, <2>3 DEF IInv, CountIsExact
  <2>6. codeCount \in Nat
    BY DEF IInv, Typed, TypeOK
  <2>7. codeCount + 1 = codeCount' + 0
    BY <1>1, <2>6
  <2> QED
    BY <1>3, <2>2, <2>3, <2>4, <2>5, <2>7 DEF CountIsExact
<1>5. CleanerAt(t)' /\ EnumeratorAt(t)'
  BY <1>1 DEF CleanerAt, EnumeratorAt
<1> QED
  BY <1>1, <1>3, <1>4, <1>5, QuietStep DEF list, Registrars

\* Everything is ahead of an enumeration that begins.
LEMMA BeginEnumerationKeeps ==
    ASSUME IInv, Typed', NEW t \in Threads, BeginEnumeration(t)
    PROVE  IInv'
<1>1. /\ UNCHANGED <<next, status, codeCount, cleanupLock>>
      /\ thread[t].pc = "idle" /\ lock = Nobody /\ lock' = t /\ allCodes' = Marker
      /\ \A u \in Threads : u # t => thread'[u] = thread[u]
      /\ thread'[t].pc = "visit" /\ thread'[t].prev = allCodes /\ thread'[t].cur = allCodes
  BY DEF BeginEnumeration, Become, Idle, counts, IInv, Typed, TypeOK
<1>2. Root = allCodes /\ Root' = Root /\ Linked' = Linked
  BY <1>1, RootFacts DEF IInv, Root, Linked
<1>3. CountIsExact'
  <2>1. cleanupLock # t
    BY <1>1 DEF IInv, Typed, LocksHeld, Cleaning
  <2> QED
    BY <1>1, <1>2, <2>1, CountKept DEF IInv
<1>4. CleanerAt(t)'
  BY <1>1 DEF CleanerAt
<1>5. EnumeratorAt(t)'
  <2>1. From(next, thread[t].cur)' = Linked
    BY <1>1, <1>2 DEF Linked
  <2> QED
    BY <1>1, <1>2, <2>1 DEF EnumeratorAt
<1> QED
  BY <1>1, <1>2, <1>3, <1>4, <1>5, QuietStep DEF Registrars, Enumerating

\* A node that is passed was updated or holds a code that is dead.
LEMMA VisitKeeps ==
    ASSUME IInv, Typed', NEW t \in Threads, Visit(t)
    PROVE  IInv'
<1>1. /\ UNCHANGED <<list, status, lock, codeCount, cleanupLock>>
      /\ thread[t].pc = "visit" /\ thread[t].cur # NoNode /\ thread[t].cur \in Nodes
      /\ \A u \in Threads : u # t => thread'[u] = thread[u]
      /\ thread'[t].pc = "advance" /\ thread'[t].cur = thread[t].cur
      /\ thread'[t].prev = thread[t].prev /\ thread'[t].removed = thread[t].removed
      /\ visited \subseteq visited'
      /\ status[thread[t].cur] = "alive" => thread[t].cur \in visited'
  BY DEF Visit, Goto, counts, IInv, Typed, TypeOK
<1>2. Root' = Root /\ Linked' = Linked /\ UNCHANGED next
  BY <1>1, RootKept DEF IInv, list, Linked
<1>3. CountIsExact'
  BY <1>1, <1>2, CountKept DEF IInv
<1>4. CleanerAt(t)'
  BY <1>1 DEF CleanerAt
<1>5. EnumeratorAt(t)'
  <2>1. From(next, thread[t].cur) = {thread[t].cur} \cup From(next, next[thread[t].cur])
    BY <1>1, FromStep, RootFacts DEF IInv, Nodes
  <2>2. \A c \in Linked : status[c] = "alive" => c \in visited \cup From(next, thread[t].cur)
    BY <1>1 DEF IInv, Placed, EnumeratorAt
  <2>3. \A c \in Linked : status[c] = "alive" => c \in visited' \cup From(next, next[thread[t].cur])
    BY <1>1, <2>1, <2>2
  <2> QED
    BY <1>1, <1>2, <2>3 DEF EnumeratorAt
<1> QED
  BY <1>1, <1>2, <1>3, <1>4, <1>5, QuietStep DEF Registrars

\* An enumeration moves past the node it has updated.
LEMMA AdvanceKeeps ==
    ASSUME IInv, Typed', NEW t \in Threads, Advance(t)
    PROVE  IInv'
<1>1. /\ UNCHANGED <<list, status, lock, codeCount, cleanupLock, visited>>
      /\ thread[t].pc = "advance"
      /\ \A u \in Threads : u # t => thread'[u] = thread[u]
      /\ thread'[t].pc = "visit" /\ thread'[t].cur = next[thread[t].cur]
      /\ thread'[t].prev = thread[t].prev /\ thread'[t].removed = thread[t].removed
  BY DEF Advance, counts, IInv, Typed, TypeOK
<1>2. Root' = Root /\ Linked' = Linked /\ UNCHANGED next
  BY <1>1, RootKept DEF IInv, list, Linked
<1>3. CountIsExact'
  BY <1>1, <1>2, CountKept DEF IInv
<1>4. CleanerAt(t)'
  BY <1>1 DEF CleanerAt
<1>5. EnumeratorAt(t)'
  <2>1. \A c \in Linked : status[c] = "alive" => c \in visited \cup From(next, next[thread[t].cur])
    BY <1>1 DEF IInv, Placed, EnumeratorAt
  <2> QED
    BY <1>1, <1>2, <2>1 DEF EnumeratorAt
<1> QED
  BY <1>1, <1>2, <1>3, <1>4, <1>5, QuietStep DEF Registrars

\* The root comes back from where the enumeration kept it.
LEMMA EndEnumerationKeeps ==
    ASSUME IInv, Typed', NEW t \in Threads, EndEnumeration(t)
    PROVE  IInv'
<1>1. /\ UNCHANGED <<next, status, codeCount, cleanupLock, visited>>
      /\ thread[t].pc = "visit" /\ allCodes' = thread[t].prev /\ thread[t].prev \in Nodes
      /\ \A u \in Threads : u # t => thread'[u] = thread[u]
      /\ thread'[t].pc = "idle"
  BY DEF EndEnumeration, Become, Idle, counts, IInv, Typed, TypeOK
<1>2. Root' = Root
  BY <1>1, RootFacts, RootAssumption DEF IInv, Root, Enumerating, Nodes
<1>3. CountIsExact'
  <2>1. cleanupLock # t
    BY <1>1 DEF IInv, Typed, LocksHeld, Cleaning
  <2> QED
    BY <1>1, <1>2, <2>1, CountKept DEF IInv
<1>4. CleanerAt(t)' /\ EnumeratorAt(t)'
  BY <1>1 DEF CleanerAt, EnumeratorAt
<1> QED
  BY <1>1, <1>2, <1>3, <1>4, QuietStep DEF Registrars

\* A cleanup has removed nothing when it begins.
LEMMA LockToCleanKeeps ==
    ASSUME IInv, Typed', NEW t \in Threads, LockToClean(t),
           UNCHANGED <<list, status, lock, counts, visited>>
    PROVE  IInv'
<1>1. /\ UNCHANGED <<list, status, lock, codeCount, visited>>
      /\ thread[t].pc = "idle" /\ cleanupLock = Nobody /\ cleanupLock' = t
      /\ \A u \in Threads : u # t => thread'[u] = thread[u]
      /\ thread'[t].pc = "root" /\ thread'[t].prev = NoNode /\ thread'[t].removed = 0
  BY DEF LockToClean, Become, Idle, counts, IInv, Typed, TypeOK
<1>2. Root' = Root /\ Linked' = Linked
  BY <1>1, RootKept DEF IInv, list, Linked, Enumerating
<1>3. CountIsExact'
  <2>1. {u \in Threads : thread[u].pc = "count"}' = {u \in Threads : thread[u].pc = "count"}
    BY <1>1
  <2>2. (IF cleanupLock = Nobody THEN 0 ELSE thread[cleanupLock].removed)' = 0
    BY <1>1, NobodyAssumption
  <2> QED
    BY <1>1, <1>2, <2>1, <2>2 DEF IInv, CountIsExact
<1>4. CleanerAt(t)' /\ EnumeratorAt(t)'
  BY <1>1 DEF CleanerAt, EnumeratorAt
<1> QED
  BY <1>1, <1>2, <1>3, <1>4, QuietStep DEF Registrars, list

\* A scan begins at the root, and goes on to the next node or starts again.
LEMMA ScanKeeps ==
    ASSUME IInv, Typed', NEW t \in Threads, ReadRoot(t) \/ AwaitRoot(t) \/ KeepNode(t) \/ NextNode(t)
    PROVE  IInv'
<1>1. /\ UNCHANGED <<list, status, lock, codeCount, cleanupLock, visited>>
      /\ thread[t].pc \in Cleaning /\ thread'[t].pc \in Cleaning
      /\ \A u \in Threads : u # t => thread'[u] = thread[u]
      /\ thread'[t].removed = thread[t].removed
  BY DEF ReadRoot, AwaitRoot, KeepNode, NextNode, Goto, Cleaning, counts, IInv, Typed, TypeOK
<1>2. /\ thread[t].pc \notin Enumerating \cup Registering \cup Registrars
      /\ thread'[t].pc \notin Enumerating \cup Registering \cup Registrars
  BY <1>1 DEF Cleaning, Enumerating, Registering, Registrars
<1>3. Root' = Root /\ Linked' = Linked /\ UNCHANGED next
  BY <1>1, <1>2, RootKept DEF IInv, list, Linked
<1>4. CountIsExact'
  BY <1>1, <1>2, <1>3, CountKept DEF IInv, Registering
<1>5. EnumeratorAt(t)'
  BY <1>2 DEF EnumeratorAt, Enumerating
<1>6. CleanerAt(t)'
  <2>1. CleanerAt(t)
    BY DEF IInv, Placed
  <2>2. CASE ReadRoot(t)
    <3>1. /\ thread[t].prev = NoNode /\ thread'[t].prev = NoNode
          /\ \/ thread'[t].pc = "wait"
             \/ thread'[t].pc = "scan" /\ allCodes # Marker /\ thread'[t].cur = allCodes
      BY <2>1, <2>2 DEF ReadRoot, CleanerAt, IInv, Typed, TypeOK
    <3> QED
      BY <1>3, <3>1, RootFacts DEF CleanerAt, IInv
  <2>3. CASE AwaitRoot(t)
    <3>1. /\ thread[t].prev = NoNode /\ thread'[t].prev = NoNode
          /\ thread'[t].pc = "scan" /\ lock = Nobody /\ thread'[t].cur = allCodes
      BY <2>1, <2>3 DEF AwaitRoot, CleanerAt, IInv, Typed, TypeOK
    <3> QED
      BY <1>3, <3>1, RootFacts DEF CleanerAt, IInv
  <2>4. CASE KeepNode(t)
    <3>1. /\ thread[t].pc = "scan" /\ thread'[t].pc = "next"
          /\ thread'[t].cur = thread[t].cur /\ thread'[t].prev = thread[t].prev
      BY <2>4 DEF KeepNode, Goto, IInv, Typed, TypeOK
    <3> QED
      BY <1>3, <2>1, <3>1 DEF CleanerAt
  <2>5. CASE NextNode(t)
    <3>1. /\ thread[t].pc = "next" /\ thread'[t].pc = "scan"
          /\ thread'[t].cur = next[thread[t].cur] /\ thread'[t].prev = thread[t].cur
          /\ thread[t].cur \in Codes
      BY <2>5 DEF NextNode, IInv, Typed, TypeOK, StepsFromNode
    <3>2. thread[t].cur \in Linked
      BY <2>1, <3>1, RootAssumption DEF CleanerAt
    <3>3. next[thread[t].cur] \in Linked \cup {NoNode}
      BY <3>2, RootFacts DEF Closed, IInv
    <3> QED
      BY <1>3, <3>1, <3>2, <3>3 DEF CleanerAt
  <2> QED
    BY <2>2, <2>3, <2>4, <2>5
<1> QED
  BY <1>1, <1>2, <1>3, <1>4, <1>5, <1>6, QuietStep

\* What the cleanup removed is taken off the count.
LEMMA FinishCleanupKeeps ==
    ASSUME IInv, Typed', NEW t \in Threads, FinishCleanup(t)
    PROVE  IInv'
<1>1. /\ UNCHANGED <<list, status, lock, visited>>
      /\ thread[t].pc = "scan" /\ lock = Nobody /\ cleanupLock' = Nobody
      /\ codeCount' = IF codeCount = 0 THEN 0 ELSE codeCount - thread[t].removed
      /\ \A u \in Threads : u # t => thread'[u] = thread[u]
      /\ thread'[t].pc = "idle"
  BY DEF FinishCleanup, Become, Idle, IInv, Typed, TypeOK
<1>2. Root' = Root /\ Linked' = Linked
  BY <1>1, RootKept DEF IInv, list, Linked, Enumerating
<1>3. CountIsExact'
  <2>1. cleanupLock = t
    BY <1>1 DEF IInv, Typed, LocksHeld, Cleaning
  <2>2. {u \in Threads : thread[u].pc = "count"}' = {} /\ {u \in Threads : thread[u].pc = "count"} = {}
    BY <1>1, NobodyAssumption DEF IInv, Typed, LocksHeld, Registering
  <2>3. Cardinality(Linked) + thread[t].removed = codeCount + Cardinality({})
    BY <2>1, <2>2, NobodyAssumption DEF IInv, CountIsExact
  <2>4. Cardinality({}) = 0 /\ codeCount \in Nat /\ thread[t].removed \in Nat
        /\ Cardinality(Linked) \in Nat
    <3>1. Linked \subseteq Codes
      BY RootFacts DEF IInv
    <3> QED
      BY <3>1, CodesAssumption, FS_EmptySet, FS_Subset, FS_CardinalityType DEF IInv, Typed, TypeOK
  <2>5. Cardinality(Linked) + 0 = codeCount' + Cardinality({})
    BY <1>1, <2>3, <2>4
  <2> QED
    BY <1>1, <1>2, <2>2, <2>5 DEF CountIsExact
<1>4. CleanerAt(t)' /\ EnumeratorAt(t)'
  BY <1>1 DEF CleanerAt, EnumeratorAt
<1> QED
  BY <1>1, <1>2, <1>3, <1>4, QuietStep DEF Registrars, list
-----------------------------------------------------------------------------
(* Steps that change the list.                                               *)

\* A code that is linked before the root: the others stay where they are.
LEMMA LinkCodeKeeps ==
    ASSUME IInv, Typed', NEW t \in Threads, LinkCode(t)
    PROVE  IInv'
<1>1. /\ UNCHANGED <<status, lock, cleanupLock, codeCount, visited>>
      /\ thread[t].pc = "link" /\ thread[t].code \in Nodes
      /\ \A u \in Threads : u # t => thread'[u] = thread[u]
      /\ thread'[t].code = thread[t].code /\ thread'[t].removed = thread[t].removed
      /\ thread'[t].prev = thread[t].prev
  BY DEF LinkCode, Goto, counts, IInv, Typed, TypeOK
<1>2. /\ lock = t /\ allCodes # Marker /\ Root = allCodes /\ cleanupLock # t
      /\ thread[t].code \in Codes /\ status[thread[t].code] # "unborn" /\ Fresh(thread[t].code)
  BY <1>1, RootFacts DEF IInv, Typed, LocksHeld, Registering, Cleaning, CodesAreFresh, Registrars
<1>3. CASE allCodes # thread[t].prev
  <2>1. UNCHANGED list /\ thread'[t].pc = "read"
    BY <1>3 DEF LinkCode, Goto, IInv, Typed, TypeOK
  <2>2. Root' = Root
    BY <1>1, <2>1, RootKept DEF IInv, list
  <2>3. CountIsExact'
    BY <1>1, <2>1, <2>2, CountKept DEF IInv, list
  <2>4. CleanerAt(t)' /\ EnumeratorAt(t)'
    BY <2>1 DEF CleanerAt, EnumeratorAt
  <2> QED
    BY <1>1, <2>1, <2>2, <2>3, <2>4, QuietStep DEF list, Registrars
<1>4. CASE allCodes = thread[t].prev
  <2>1. PICK c : c = thread[t].code
    OBVIOUS
  <2>2. /\ c \in Codes /\ status[c] # "unborn" /\ c # Root /\ next[c] = NoNode
        /\ \A d \in Codes : next[d] # c
        /\ allCodes' = c /\ next' = [next EXCEPT ![c] = Root] /\ thread'[t].pc = "count"
    BY <1>2, <1>4, <2>1 DEF LinkCode, Goto, Fresh, IInv, Typed, TypeOK
  <2>3. Root' = c
    BY <2>2, RootAssumption DEF Root
  <2>4. /\ Root \in Nodes /\ next \in [Codes -> Nodes] /\ Acyclic(next) /\ Linked \subseteq Codes
    BY RootFacts DEF IInv
  <2>5. /\ Acyclic(next') /\ next' \in [Codes -> Nodes]
        /\ From(next', c) = {c} \cup From(next, Root) /\ c \notin From(next, Root)
    <3>1. /\ next' \in [Codes -> Nodes] /\ next'[c] = Root
          /\ \A d \in Codes : d # c => next'[d] = next[d]
      BY <2>2, <2>4
    <3>2. PICK m \in Nodes : m = Root
      BY <2>4
    <3>3. Acyclic(next') /\ From(next', c) = {c} \cup From(next, m) /\ c \notin From(next, m)
      <4>1. /\ next \in [Codes -> Nodes] /\ Acyclic(next) /\ c \in Codes /\ next[c] = NoNode
            /\ m # c /\ next' \in [Codes -> Nodes] /\ next'[c] = m
        BY <2>2, <2>4, <3>1, <3>2
      <4>2. (\A d \in Codes : next[d] # c) /\ \A d \in Codes : d # c => next'[d] = next[d]
        BY <2>2, <3>1
      <4> QED
        BY <4>1, <4>2, LinkFacts
    <3> QED
      BY <3>1, <3>2, <3>3
  <2>6. Linked' = Linked \cup {c} /\ c \notin Linked
    BY <2>3, <2>5 DEF Linked
  <2>7. next'[c] = Root /\ \A d \in Codes : d # c => next'[d] = next[d]
    BY <2>2, <2>4
  <2>8. CodesAreFresh'
    <3>1. \A d \in Codes : Fresh(d) /\ d # c => Fresh(d)'
      BY <2>3, <2>7 DEF Fresh
    <3>2. \A u \in Threads : u # t /\ thread[u].pc \in Registrars => thread[u].code # c
      BY <1>1, <2>1 DEF IInv, CodesAreFresh, Registrars
    <3>3. thread'[t].pc \notin Registrars
      BY <2>2 DEF Registrars
    <3> QED
      BY <1>1, <2>2, <3>1, <3>2, <3>3 DEF IInv, CodesAreFresh
  <2>9. ASSUME NEW u \in Threads PROVE CleanerAt(u)' /\ EnumeratorAt(u)'
    <3>1. CASE u = t
      BY <2>2, <3>1 DEF CleanerAt, EnumeratorAt
    <3>2. CASE u # t
      <4>1. thread'[u] = thread[u] /\ CleanerAt(u) /\ thread[u].pc \notin Enumerating
        BY <1>1, <1>2, <3>2 DEF IInv, Placed, Typed, LocksHeld
      <4>2. EnumeratorAt(u)'
        BY <4>1 DEF EnumeratorAt, Enumerating
      <4>3. CleanerAt(u)'
        BY <2>4, <2>6, <2>7, <4>1 DEF CleanerAt
      <4> QED
        BY <4>2, <4>3
    <3> QED
      BY <3>1, <3>2
  <2>10. NoLiveCodeLost'
    BY <1>1, <2>1, <2>2, <2>6 DEF IInv, NoLiveCodeLost
  <2>11. CountIsExact'
    <3>1. {u \in Threads : thread[u].pc = "count"} = {}
      BY <1>1, <1>2 DEF IInv, Typed, LocksHeld, Registering
    <3>2. {u \in Threads : thread[u].pc = "count"}' = {t}
      BY <1>1, <2>2, <3>1
    <3>3. Cardinality({t}) = 1 /\ Cardinality({}) = 0
      BY FS_Singleton, FS_EmptySet
    <3>4. IsFiniteSet(Linked) /\ Cardinality(Linked) \in Nat
      BY <2>4, CodesAssumption, FS_Subset, FS_CardinalityType
    <3>5. Cardinality(Linked') = Cardinality(Linked) + 1
      BY <2>6, <3>4, FS_AddElement
    <3>6. PICK removed : removed = IF cleanupLock = Nobody THEN 0 ELSE thread[cleanupLock].removed
      OBVIOUS
    <3>7. (IF cleanupLock = Nobody THEN 0 ELSE thread[cleanupLock].removed)' = removed
      BY <1>1, <1>2, <3>6 DEF IInv, Typed, TypeOK
    <3>8. removed \in Nat /\ codeCount \in Nat
      BY <3>6 DEF IInv, Typed, TypeOK
    <3>9. Cardinality(Linked) + removed = codeCount + 0
      BY <3>1, <3>3, <3>6 DEF IInv, CountIsExact
    <3>10. Cardinality(Linked') + removed = codeCount' + Cardinality({t})
      BY <1>1, <3>3, <3>4, <3>5, <3>8, <3>9
    <3> QED
      BY <3>2, <3>7, <3>10 DEF CountIsExact
  <2> QED
    BY <2>5, <2>8, <2>9, <2>10, <2>11 DEF IInv, Placed
<1> QED
  BY <1>3, <1>4

\* What follows for the counts and the live codes when a dead code is unlinked.
LEMMA RemovalFacts ==
    ASSUME IInv, Typed', NEW t \in Threads, NEW x \in Linked, status[x] = "dead",
           UNCHANGED <<status, lock, cleanupLock, codeCount, visited>>, Linked' = Linked \ {x},
           \A u \in Threads : u # t => thread'[u] = thread[u],
           thread[t].pc = "scan", thread'[t].pc = "scan",
           thread'[t].removed = thread[t].removed + 1
    PROVE  NoLiveCodeLost' /\ CountIsExact'
<1>1. NoLiveCodeLost'
  BY DEF IInv, NoLiveCodeLost
<1>2. cleanupLock = t
  BY DEF IInv, Typed, LocksHeld, Cleaning
<1>3. {u \in Threads : thread[u].pc = "count"}' = {u \in Threads : thread[u].pc = "count"}
  OBVIOUS
<1>4. IsFiniteSet(Linked) /\ Cardinality(Linked) \in Nat
  <2>1. Linked \subseteq Codes
    BY RootFacts DEF IInv
  <2> QED
    BY <2>1, CodesAssumption, FS_Subset, FS_CardinalityType
<1>5. Cardinality(Linked') = Cardinality(Linked) - 1
  BY <1>4, FS_RemoveElement
<1>6. thread[t].removed \in Nat
  BY DEF IInv, Typed, TypeOK
<1>7. Cardinality(Linked') + thread'[t].removed = Cardinality(Linked) + thread[t].removed
  BY <1>4, <1>5, <1>6
<1>8. Cardinality(Linked) + thread[t].removed = codeCount + Cardinality({u \in Threads : thread[u].pc = "count"})
  BY <1>2, NobodyAssumption DEF IInv, CountIsExact
<1>9. CountIsExact'
  BY <1>2, <1>3, <1>7, <1>8, NobodyAssumption DEF CountIsExact
<1> QED
  BY <1>1, <1>9

\* A dead root gives way to the node that follows it.
LEMMA UnlinkRootKeeps ==
    ASSUME IInv, Typed', NEW t \in Threads, UnlinkRoot(t)
    PROVE  IInv'
<1>1. PICK cur : cur = thread[t].cur
  OBVIOUS
<1>2. /\ UNCHANGED <<next, status, lock, cleanupLock, codeCount, visited>>
      /\ thread[t].pc = "scan" /\ cur # NoNode /\ cur \in Nodes /\ status[cur] = "dead"
      /\ thread[t].prev = NoNode /\ thread'[t].prev = NoNode
      /\ \A u \in Threads : u # t => thread'[u] = thread[u]
  BY <1>1 DEF UnlinkRoot, Goto, counts, IInv, Typed, TypeOK
<1>3. cur \in Codes /\ next \in [Codes -> Nodes] /\ cleanupLock = t /\ thread[t].pc \notin Enumerating
  BY <1>2, RootFacts DEF IInv, Nodes, Typed, LocksHeld, Cleaning, Enumerating
<1>4. CASE allCodes # cur
  <2>1. /\ UNCHANGED allCodes /\ thread'[t].pc = "root"
        /\ thread'[t].removed = thread[t].removed /\ thread'[t].code = thread[t].code
    BY <1>1, <1>4 DEF UnlinkRoot, Goto, IInv, Typed, TypeOK
  <2>2. Root' = Root
    BY <1>2, <1>3, <2>1, RootKept DEF IInv
  <2>3. CountIsExact'
    BY <1>2, <2>1, <2>2, CountKept DEF IInv
  <2>4. CleanerAt(t)' /\ EnumeratorAt(t)'
    BY <1>2, <2>1 DEF CleanerAt, EnumeratorAt
  <2> QED
    BY <1>2, <2>1, <2>2, <2>3, <2>4, QuietStep DEF Registrars
<1>5. CASE allCodes = cur
  <2>1. /\ allCodes' = next[cur] /\ thread'[t].pc = "scan" /\ thread'[t].cur = next[cur]
        /\ thread'[t].removed = thread[t].removed + 1
    BY <1>1, <1>5 DEF UnlinkRoot, IInv, Typed, TypeOK
  <2>2. allCodes # Marker /\ next[cur] \in Nodes /\ Root = cur /\ Root' = next[cur]
    BY <1>3, <1>5, <2>1, RootAssumption DEF Root, Nodes
  <2>3. From(next, cur) = {cur} \cup From(next, next[cur]) /\ cur \notin From(next, next[cur])
    BY <1>3, FromStep DEF IInv, Acyclic
  <2>4. Linked' = Linked \ {cur} /\ cur \in Linked
    BY <1>2, <2>2, <2>3 DEF Linked
  <2>5. Linked' \subseteq Codes /\ Root' \in Linked' \cup {NoNode}
    <3>1. next[cur] \in From(next, next[cur]) \cup {NoNode}
      BY <1>3, <2>2, FromIsClosed
    <3>2. Linked' = From(next, next[cur])
      BY <1>2, <2>2 DEF Linked
    <3> QED
      BY <2>2, <2>4, <3>1, <3>2, RootFacts DEF IInv
  <2>6. CodesAreFresh'
    <3>1. \A d \in Codes : Fresh(d) => Fresh(d)'
      BY <1>2, <1>3, <2>2 DEF Fresh
    <3>2. thread[t].pc \notin Registrars /\ thread'[t].pc \notin Registrars
      BY <1>2, <2>1 DEF Registrars
    <3> QED
      BY <1>2, <3>1, <3>2 DEF IInv, CodesAreFresh
  <2>7. ASSUME NEW u \in Threads PROVE CleanerAt(u)' /\ EnumeratorAt(u)'
    <3>1. CASE u = t
      BY <1>2, <2>1, <2>2, <2>5, <3>1 DEF CleanerAt, EnumeratorAt
    <3>2. CASE u # t
      <4>1. thread'[u] = thread[u] /\ thread[u].pc \notin Cleaning /\ thread[u].pc \notin Enumerating
        BY <1>2, <1>3, <2>2, <3>2, RootFacts DEF IInv, Typed, LocksHeld
      <4> QED
        BY <4>1 DEF CleanerAt, EnumeratorAt, Cleaning, Enumerating
    <3> QED
      BY <3>1, <3>2
  <2>8. NoLiveCodeLost' /\ CountIsExact'
    BY <1>2, <2>1, <2>4, RemovalFacts
  <2>9. Acyclic(next)'
    BY <1>2 DEF IInv, Acyclic
  <2> QED
    BY <2>6, <2>7, <2>8, <2>9 DEF IInv, Placed
<1> QED
  BY <1>4, <1>5

\* A dead node is bypassed, under enumerations and registrations.
LEMMA UnlinkNodeKeeps ==
    ASSUME IInv, Typed', NEW t \in Threads, UnlinkNode(t)
    PROVE  IInv'
<1>1. PICK x : x = thread[t].cur
  OBVIOUS
<1>2. PICK p : p = thread[t].prev
  OBVIOUS
<1>3. /\ UNCHANGED <<allCodes, status, lock, cleanupLock, codeCount, visited>>
      /\ thread[t].pc = "scan" /\ x # NoNode /\ x \in Nodes /\ status[x] = "dead"
      /\ p # NoNode /\ p \in Nodes /\ next' = [next EXCEPT ![p] = next[x]]
      /\ \A u \in Threads : u # t => thread'[u] = thread[u]
      /\ thread'[t].pc = "scan" /\ thread'[t].cur = next[x] /\ thread'[t].prev = p
      /\ thread'[t].removed = thread[t].removed + 1
  BY <1>1, <1>2 DEF UnlinkNode, counts, IInv, Typed, TypeOK
<1>4. /\ x \in Linked /\ p \in Linked /\ next[p] = x
      /\ x \in Codes /\ p \in Codes /\ Linked \subseteq Codes /\ Closed(next, Linked)
      /\ next \in [Codes -> Nodes] /\ Acyclic(next) /\ Root \in Nodes
  BY <1>1, <1>2, <1>3, RootFacts DEF IInv, Placed, CleanerAt, Nodes
<1>5. cleanupLock = t /\ thread[t].pc \notin Enumerating
  BY <1>3 DEF IInv, Typed, LocksHeld, Cleaning, Enumerating
<1>6. Root' = Root
  BY <1>3, <1>5, RootKept DEF IInv
<1>7. /\ next' \in [Codes -> Nodes] /\ Acyclic(next') /\ p # x /\ next[x] # x
      /\ \A n \in Nodes : From(next, n) \ {x} \subseteq From(next', n)
      /\ \A c \in Codes : From(next, next[c]) \ {x} \subseteq From(next', next'[c])
      /\ \A n \in Nodes : p \in From(next, n) => From(next', n) = From(next, n) \ {x}
  <2>1. /\ next' \in [Codes -> Nodes] /\ next'[p] = next[x]
        /\ \A c \in Codes : c # p => next'[c] = next[c]
    BY <1>3, <1>4, RootFacts DEF IInv
  <2> QED
    BY <1>4, <2>1, BypassFacts
<1>8. Linked' = Linked \ {x}
  BY <1>4, <1>6, <1>7 DEF Linked
<1>9. next'[p] = next[x] /\ \A c \in Codes : c # p => next'[c] = next[c]
  BY <1>3, <1>4
<1>10. CodesAreFresh'
  <2>1. \A d \in Codes : Fresh(d) => Fresh(d)'
    <3> SUFFICES ASSUME NEW d \in Codes, Fresh(d) PROVE Fresh(d)'
      OBVIOUS
    <3>1. d # p
      BY <1>4, FreshIsUnlinked DEF IInv
    <3> QED
      BY <1>4, <1>6, <1>9, <3>1 DEF Fresh
  <2>2. thread[t].pc \notin Registrars /\ thread'[t].pc \notin Registrars
    BY <1>3 DEF Registrars
  <2> QED
    BY <1>3, <2>1, <2>2 DEF IInv, CodesAreFresh
<1>11. ASSUME NEW u \in Threads PROVE CleanerAt(u)' /\ EnumeratorAt(u)'
  <2>1. CASE u = t
    <3>1. next[x] \in (Linked \ {x}) \cup {NoNode}
      BY <1>4, <1>7 DEF Closed
    <3> QED
      BY <1>3, <1>4, <1>7, <1>8, <1>9, <2>1, <3>1 DEF CleanerAt, EnumeratorAt
  <2>2. CASE u # t
    <3>1. thread'[u] = thread[u] /\ thread[u].pc \notin Cleaning
      BY <1>3, <1>5, <2>2 DEF IInv, Typed, LocksHeld
    <3>2. CleanerAt(u)'
      BY <3>1 DEF CleanerAt, Cleaning
    <3>3. EnumeratorAt(u) /\ thread[u].cur \in Nodes /\ (thread[u].pc = "advance" => thread[u].cur \in Codes)
      BY DEF IInv, Placed, Typed, TypeOK, StepsFromNode
    <3>4. EnumeratorAt(u)'
      <4> SUFFICES ASSUME NEW c \in Linked, c # x, status[c] = "alive"
                   PROVE  /\ thread[u].pc = "visit" => c \in visited \cup From(next', thread[u].cur)
                          /\ thread[u].pc = "advance" =>
                                c \in visited \cup From(next', next'[thread[u].cur])
        BY <1>3, <1>8, <3>1 DEF EnumeratorAt
      <4>1. CASE thread[u].pc = "visit"
        BY <1>7, <3>3, <4>1 DEF EnumeratorAt
      <4>2. CASE thread[u].pc = "advance"
        BY <1>7, <3>3, <4>2 DEF EnumeratorAt
      <4> QED
        BY <4>1, <4>2
    <3> QED
      BY <3>2, <3>4
  <2> QED
    BY <2>1, <2>2
<1>12. NoLiveCodeLost' /\ CountIsExact'
  BY <1>3, <1>4, <1>8, RemovalFacts
<1> QED
  BY <1>7, <1>10, <1>11, <1>12 DEF IInv, Placed
-----------------------------------------------------------------------------
(* The theorems.                                                             *)

\* The inductive invariant holds in every reachable state.
LEMMA Invariance == Spec => []IInv
<1>1. Init => IInv
  BY Initially
<1>2. ASSUME IInv, [Next]_vars PROVE IInv'
  <2>1. Typed'
    BY <1>2, TypedKept DEF IInv
  <2>2. CASE UNCHANGED vars
    <3>1. /\ Linked' = Linked /\ UNCHANGED <<next, status, visited, thread>>
          /\ \A c : Fresh(c)' <=> Fresh(c)
      BY <2>2 DEF vars, list, Linked, Root, Fresh
    <3>2. \A t \in Threads : (CleanerAt(t) <=> CleanerAt(t)') /\ (EnumeratorAt(t) <=> EnumeratorAt(t)')
      BY <3>1 DEF CleanerAt, EnumeratorAt
    <3>3. CodesAreFresh' /\ Placed'
      BY <1>2, <3>1, <3>2 DEF IInv, CodesAreFresh, Placed
    <3>4. NoLiveCodeLost' /\ Acyclic(next)'
      BY <1>2, <3>1 DEF IInv, NoLiveCodeLost, Acyclic
    <3>5. CountIsExact'
      BY <1>2, <2>2, <3>1 DEF IInv, CountIsExact, vars, counts
    <3> QED
      BY <2>1, <3>3, <3>4, <3>5 DEF IInv
  <2>3. ASSUME NEW c \in Codes, Collect(c) PROVE IInv'
    BY <1>2, <2>1, <2>3, CollectKeeps
  <2>4. ASSUME NEW t \in Threads, NEW c \in Codes, BeginRegister(t, c) PROVE IInv'
    BY <1>2, <2>1, <2>4, BeginRegisterKeeps
  <2>5. ASSUME NEW t \in Threads, BeginEnumeration(t) PROVE IInv'
    BY <1>2, <2>1, <2>5, BeginEnumerationKeeps
  <2>6. ASSUME NEW t \in Threads, BeginQueuedCleanup(t) \/ BeginSynchronousCleanup(t) PROVE IInv'
    BY <1>2, <2>1, <2>6, LockToCleanKeeps DEF BeginQueuedCleanup, BeginSynchronousCleanup
  <2>7. ASSUME NEW t \in Threads, Register(t) PROVE IInv'
    BY <1>2, <2>1, <2>7, LockToRegisterKeeps, ReadPrevCodeKeeps, LinkCodeKeeps, CountCodeKeeps DEF Register
  <2>8. ASSUME NEW t \in Threads, Enumerate(t) PROVE IInv'
    BY <1>2, <2>1, <2>8, VisitKeeps, AdvanceKeeps, EndEnumerationKeeps DEF Enumerate
  <2>9. ASSUME NEW t \in Threads, Clean(t) PROVE IInv'
    BY <1>2, <2>1, <2>9, ScanKeeps, UnlinkRootKeeps, UnlinkNodeKeeps, FinishCleanupKeeps DEF Clean
  <2> QED
    BY <1>2, <2>2, <2>3, <2>4, <2>5, <2>6, <2>7, <2>8, <2>9 DEF Next
<1> QED
  BY <1>1, <1>2, PTL DEF Spec

\* The fields of the list, its locks and the local variables of every operation keep their
\* types, and the marker is at the root exactly while an enumeration holds the lock.
THEOREM TypeCorrect == Spec => []TypeOK
<1>1. IInv => TypeOK
  BY DEF IInv, Typed
<1> QED
  BY <1>1, Invariance, PTL

\* A code that a registration has linked stays in the list while it is alive, whatever
\* registrations, enumerations and cleanups run.
THEOREM LiveCodesStay == Spec => []NoLiveCodeLost
<1>1. IInv => NoLiveCodeLost
  BY DEF IInv
<1> QED
  BY <1>1, Invariance, PTL

\* _codeCount is the number of nodes, but for the code being counted and those a cleanup
\* has unlinked and not accounted for.
THEOREM CountIsAlwaysExact == Spec => []CountIsExact
<1>1. IInv => CountIsExact
  BY DEF IInv
<1> QED
  BY <1>1, Invariance, PTL

\* UpdateAllCode misses no live code, although a cleanup unlinks nodes behind, at and
\* ahead of it.
THEOREM EnumerationsAreComplete == Spec => []EnumerationIsComplete
<1>1. IInv => EnumerationIsComplete
  BY DEF IInv, Placed, EnumeratorAt, EnumerationIsComplete
<1> QED
  BY <1>1, Invariance, PTL

\* The Debug.Asserts of registration, root reading and unlinking hold, for any number of
\* threads and codes.
THEOREM AssertionsAlwaysHold == Spec => []AssertionsHold
<1>1. IInv => AssertionsHold
  <2> SUFFICES ASSUME IInv, NEW t \in Threads
               PROVE  /\ thread[t].pc \in Registering => allCodes # Marker
                      /\ thread[t].pc = "wait" /\ lock = Nobody => allCodes # Marker
                      /\ thread[t].pc = "scan" /\ thread[t].prev # NoNode
                            => next[thread[t].prev] = thread[t].cur
    BY DEF AssertionsHold
  <2> QED
    BY RootFacts DEF IInv, Placed, CleanerAt
<1> QED
  BY <1>1, Invariance, PTL

\* "Debug.Assert(removed <= _codeCount)": when a cleanup does its bookkeeping, it has not
\* unlinked more nodes than were counted, so that the count stays a number of codes.
THEOREM RemovalsWereCounted ==
    Spec => [](\A t \in Threads :
                   cleanupLock = t /\ lock = Nobody => thread[t].removed <= codeCount)
<1>1. IInv => \A t \in Threads : cleanupLock = t /\ lock = Nobody => thread[t].removed <= codeCount
  BY CountFacts DEF IInv
<1> QED
  BY <1>1, Invariance, PTL
=============================================================================
