# IronPython 2 in TLA+

A verification project for the IronPython 2 runtime (`src/Src/IronPython2`,
`src/Src/IronPython2.Modules`, and the concurrency modules of `src/Src/StdLib/Lib`
that stand on them): TLA+ modules of the parts of the runtime whose
correctness is a matter of state, order and concurrency, TLC configurations
that check them on small instances, and TLAPS proofs of the facts that hold
for every instance.

IronPython has no global interpreter lock. Python threads are .NET threads, so
the containers, the function registry, the type caches and the module
machinery are all reached from several threads at once, and most of them are
built from short locked mutations and lock-free reads. That is where this
project starts.

## 1. Inventory

Paths are relative to `src/Src/`. "Hard" names the behaviours that tests
hardly reach.

| Component | State | Operations | Interacts with | Hard | Correct when |
|---|---|---|---|---|---|
| Dictionary storage (`IronPython2/Runtime/CommonDictionaryStorage.cs`) | bucket array, count, version, null value, hash and equality functions, key type | Add, Remove, TryGetValue, Clear, GetItems, GetEnumerator, Clone, CopyTo, (de)serialisation | `PythonDictionary`, every namespace, binders that cache the version | lock-free readers against locked writers, resize, tombstones, change of the key type, user `__hash__`/`__eq__` | probe chains stay unbroken, a read returns a value that was bound during the read, the mapping of `dict` |
| Other dictionary storages (`DictionaryStorage.cs`, `ConstantDictionaryStorage.cs`, `EmptyDictionaryStorage.cs`, `StringDictionaryStorage.cs`, `ModuleDictionaryStorage.cs`, `Types/CustomInstanceDictionaryStorage.cs`, `GlobalDictionaryStorage`, `SysModuleDictionaryStorage.cs`) | a storage reference that is swapped by `ref` | copy on write, lazy module members, reload | dictionary, modules, types | losing the race of the swap, lazily hidden members | no write is lost, a shared constant is never written |
| Set storage (`SetStorage.cs`, `Set.cs`) | as the dictionary, with a has-null flag | Add, Remove, Contains, Union, Intersection, ... | sets | two sets locked in one operation | set algebra, no deadlock of `a \|= b` and `b \|= a` |
| Code registry (`FunctionCode.cs`, `PythonContext.cs`) | a lock-free weak list of function codes whose head is also a lock, code count, next cleanup | register, enumerate, clean up | function creation on any thread, tracing, recursion limit | the head CAS that doubles as a mutex, weak references dying under the cleaner | no live code is lost, every code is enumerated, the count matches the list |
| Delegate updates (`FunctionCode.cs`, `PythonContext.cs`, `PythonTracebackListener.cs`) | per code: target, normal and tracing delegate, compiling flag; tracing count, recursion limit | SetTrace, UpdateAllCode, UpdateDelegate, LazyCompile, background compilation | registry, debugger, profiler | a compilation that finishes after the mode changed | a code's target matches the mode once updates are done |
| Generators (`Generator.cs`) | closed, active, sent value, pending exception, saved exception state | next, send, throw, close, finalisation | compiled generator bodies, `sys.exc_info` | reentrant calls, throw and send racing, close in a body that yields | a call that is refused leaves nothing behind, PEP 342 |
| Thread primitives (`IronPython2.Modules/thread.cs`) | lock word and event, thread count, stack size, thread locals | acquire, release, locked, start_new_thread | conditions and threads, the import lock | the event is created lazily, concurrently with release | mutual exclusion, no lost wakeup |
| Conditions (`StdLib/Lib/threading.py`) | the lock of the condition, the list of waiters, one lock per waiter | wait, with a timeout or without, notify, notify_all; Event.set and Event.wait | the locks of `thread.cs`; queues, events and threads | a waiter that times out leaves the list without the lock, while a notify spends its wakeup on it | a notify wakes somebody who waits, or somebody who will look again |
| Queue (`StdLib/Lib/Queue.py`, `IronPython2.Modules/_heapq.cs`) | a deque, list or heap of items, unfinished tasks, a mutex and three conditions on it | put, get, task_done, join, with every form of blocking | conditions, `deque`, `_heapq` | timeouts racing puts, a notified getter whose item is taken by one that never waited | a blocking bounded queue in its order of service; nobody sleeps while what it waits for is there |
| Threads (`StdLib/Lib/threading.py`, `IronPython2.Modules/thread.cs`) | per thread: started, stopped, daemon; the tables of starting and of active threads | start, bootstrap, join, is_alive, enumerate, the wait at exit | conditions; `PythonContext.Shutdown` calls `_shutdown` | a start that fails, a join that times out, threads that start others while the main thread looks for those alive | enumerate() lists the living, join returns after the end, the exit waits for those it has to |
| Import (`Importer.cs`, `IronPython2/Modules/imp.cs`, `PythonContext.cs`) | `sys.modules`, the import lock count, path hooks | import, reload, acquire_lock | module dictionaries | a failed import removes its entry, recursive imports | one module object per name |
| deque (`IronPython2.Modules/_collections.cs`) | ring buffer, head, tail, item count, maximum length, version | append, appendleft, pop, popleft, extend, rotate, remove, index, iterators | threads | ring arithmetic, growth, maxlen eviction, mutation under an iterator | a bounded sequence |
| list (`IronPython2/Runtime/List.cs`) | array and size | append, insert, pop, slices, sort, extend, `OrderedLocker` | threads, user comparison functions | bounds are checked before the lock is taken, sort hides the items, two lists locked | `0 <= size <= length`, no deadlock of `a += b` and `b += a` |
| Weak references (`WeakRef.cs`, `IronPython2.Modules/_weakref.cs`) | tracker: ids, callbacks, short and long handles | chain, remove, finaliser | garbage collector | callbacks run on the finaliser thread, last registered first | each live callback runs once, after its referent died |
| Types (`Types/PythonType.cs`, `Types/Mro.cs`, `Types/PythonSiteCache.cs`) | bases, resolution order, weak subtypes, version, slot caches | set attribute, set bases, lookup, version check | binders, call sites | a lookup that overlaps a change of a base | a cached lookup is never older than the type version it was cached for |
| MRO computation (`Types/Mro.cs`) | none (pure) | Calculate | types | old-style bases, inconsistent orders | C3: keeps local precedence and every base's order |
| Exceptions and stack (`Exceptions/*.cs`, `Operations/PythonOps.cs`) | per-thread `sys.exc_info`, traceback | raise, save, restore | generators, frames | nested handlers | the saved state is restored on every path |
| Buffered I/O (`IronPython2.Modules/_io.cs`) | read buffer and position, write buffer, raw position | read, peek, write, flush, seek, truncate | `_fileio.cs`, raw streams | partial writes of a raw stream, seek inside the buffer | the bytes of the raw file seen through the buffer |
| File table (`PythonFile.cs`, `PythonContext.cs`) | descriptor to file map, reader and writer buffers | open, close, dup, cross-thread locking | `nt.cs` | close racing a read | a descriptor is never reused while it is open |
| Iterators (`IronPython2.Modules/IterTools.cs`) | cursors, the shared list of `tee` | next, tee | any iterable | tee's consumers at different positions | each tee consumer sees the same sequence |
| Signals (`IronPython2.Modules/signal.cs`, `NtSignalState.cs`, `SimpleSignalState.cs`) | handler table | signal, getsignal, console handler | the operating system | handler called on another thread | a handler installed is the handler run |
| Profiler (`Profiler.cs`) | a growing array of counters | start, call counts, snapshot | compiled functions | unsynchronised growth | counts never decrease |
| Compiler front end (`IronPython2/Compiler/*.cs`, `Compiler/Ast/*.cs`) | tokenizer state, scopes | tokenise, parse, bind names, generate | the DLR | indentation stack, name resolution, generator rewriting | sequential; a pure function of the source text |
| Binders and call sites (`Runtime/Binding/*.cs`, `Runtime/Operations/*.cs`) | rules cached in DLR call sites | bind, invoke | types, the DLR | stale rules | guarded by type versions |
| Library modules (`IronPython2.Modules/*.cs`: `_struct`, `cPickle`, `_sre`, `datetime`, `_csv`, `zipimport`, `_heapq`, `_socket`, `_ssl`, `_ctypes`, ...) | per-object buffers | as in CPython | the operating system, .NET | mostly data conversion | agreement with CPython |
| Vendored and generated code (`zlib/zlib.net`, `bz2/dotnetzip`, `*.Generated.cs`, the rest of `StdLib`, the empty `DLR` submodule) | - | - | - | - | outside the project |

Nine of these components are modelled, the thread primitives as far as their
lock: dictionary storage, thread.lock, conditions, queues, threads, the code
registry, delegate updates, deque and generators. Sections 3 to 6 are about
them; `PROJECT.json` lists every component with its status and every hazard at
its line.

## 2. Plan

Modules, in the order in which they are written. What is done is marked.

| Order | Modules | Component | Abstract specification | Theorems worth proving |
|---|---|---|---|---|
| 1 (done) | `LockSpec`, `ThreadLock`, `SyncProofs` | thread.lock | a binary semaphore that is granted while it is free | type, no lost wakeup, step simulation (all proved) |
| 2 (done) | `BucketArray`, `CommonDictionaryStorage`, `MCDictionary`, `DictionaryProofs` | dictionary storage | the mapping `before`/`after` each mutation, and what a lookup may answer meanwhile | type, chains, uniqueness, exact count and mapping, lookups, delegates (all proved) |
| 3 (done) | `CodeRegistry`, `RegistryProofs` | code registry | the set of live codes | type, no code lost, exact count, complete enumerations, assertions (all proved) |
| 4 (done) | `CodeDelegates`, `DelegateProofs` | delegate updates | the mode of each target | listeners counted, targets match the mode (all proved) |
| 5 (done) | `DequeSpec`, `Deque`, `MCDeque`, `DequeProofs` | deque | a bounded sequence | type, bounds, gaps, iterators, the refinement, operation by operation (all proved) |
| 6 (done) | `Generator`, `MCGenerator`, `GeneratorProofs` | generators | what PEP 342 promises a body | bodies run alone, exact delivery, saved exceptions (all proved) |
| 7 (done) | `Condition`, `SyncProofs` | conditions | - (each user states its own) | what each step of wait and notify keeps: lists of waiters and the threads that wait agree (proved) |
| 8 (done) | `Heap`, `QueueSpec`, `Queue`, `MCQueue`, `QueueProofs` | queues | a bounded queue whose calls take effect at one moment, and go on while one can | type, no wakeup lost, step simulation (all proved) |
| 9 (done) | `Threading`, `MCThreading`, `ThreadingProofs` | threads | - | type, the tables list the living, the exit waits (all proved) |
| 10 | `List`, `OrderedLocker` | list | a sequence; two locks taken in an order | no deadlock of `a.extend(b)` and `b.extend(a)`, size within the array |
| 11 | `DictionaryReference` | other dictionary storages | one mapping behind a storage that is replaced | no write lost by the swap |
| 12 | `WeakRefTracker` | weak references | each registered callback runs once | callbacks in order, none twice |
| 13 | `BufferedReader` | buffered I/O | the bytes of a file and a position | bytes are delivered once and in order |
| 14 | `Mro` | MRO computation | the C3 conditions | - (recursive functions over data: TLC only) |

`CommonDictionaryStorage` extends `BucketArray`; `ThreadLock`, `Deque` and
`Queue` instantiate their abstract specifications (`LockSpec`, `DequeSpec`,
`QueueSpec`) under a refinement mapping. The layers of the threads' library are
composed as they are written: `Queue` and `Threading` extend `Condition`, whose
locks are what `ThreadLock` is shown to implement, granted while they are free
and to somebody. `CodeDelegates` takes from `CodeRegistry` the fact that an
update visits every code (`EnumerationIsComplete`), and visits all of them.

Recursion is written as recursive functions (the moves of an item in `Heap`), so
that the modules that use it can be proved about, and avoided where a definition
without it will do: the nodes of `CodeRegistry`'s list are the least set that is
closed under its links (`From`), about which one can argue without induction.
Parameters are constants with named assumptions. Two of these are about more
than the kinds of the constants: `SizeAssumption` says that growth grows, and
`CodesAssumption` that there are finitely many codes, for the registry counts
them.

The runs stay at a number that is checked in a few minutes: a new module
brings one run with everything that shares its bounds, and a second one only
for a disagreement with the code's own words.

## 3. The modules and the code

### thread.lock: `ThreadLock`, `LockSpec`

`curHolder` and `blockEvent` are the fields of the class (`blockEvent` also
says whether the event is set), `step` is where each thread is in `acquire` and
`release`. Each access to a shared field is an action: `CompareExchange`,
`LookAtEvent`, `CreateBlockEvent`, `WaitOne` (the framework's AutoResetEvent,
external), `Release`, `CheckEvent`, `SetEvent`. `LockSpec` is what a Python
program relies on.

### Dictionary storage: `BucketArray`, `CommonDictionaryStorage`

`BucketArray` has the buckets and the probe sequence as pure operators: what a
scan meets, passes and may use. `CommonDictionaryStorage` has the fields
(`buckets`, `count`, `keyType`, `eqFunc`), the mutation in progress (`op`:
mutations hold `lock(this)`, so there is one) and the lock-free calls
(`reader`). Every write that a reader can see is an action, in the order of the
code: the hash code, the value and the key of a new bucket are three
(`WriteHash`, `WriteValue`, `WriteKey`); a removal writes its marker and nulls
the value later (`RemoveKey`, `ForgetValue`); growth fills a new array bucket by
bucket (`RehashBucket`) and publishes it (`PublishGrown`). A lookup picks up the
array (`PickUp`), reads the count, the key type and the delegate, and then a
bucket at a time (`ReadKey`, `ReadBucket`). Scans under the lock are one step:
only the holder writes what they read.

`before`, `after` and `admissible` are history variables: the mapping before
and after the mutation in progress, and the answers that are linearizable for
each lookup. `copied` remembers whether anything was ever copied into the
dictionary.

### Conditions: `Condition`

A condition variable is a lock, a list of waiters and, for each call of
`wait()`, a lock allocated for that call. A thread waits at one place at a time,
so the thread stands for its waiter: `waiters` is the list, `woken` the waiters
that were released, `waiting` where each `wait()` has come to. `Wait` enters the
list and lets go of the lock, `WakeUp` is the acquire that succeeds, `TimeOut`
the last attempt of the polling loop that fails, `RemoveWaiter` the removal
without the lock, `Restore` the way out. A notify reads its slice of the list at
once (`StartNotify`, `StartNotifyAll`) and then, for each waiter, releases it
(`ReleaseWaiter`) and removes it (`RemoveNotified`) in two steps, between which
the waiter may run, time out, and remove itself. There are as many conditions
and locks as the module that extends this one says.

### Queues: `Queue`, `QueueSpec`, `Heap`

The three conditions of a queue share its mutex. A call takes it (`Acquire`),
runs its try block (`Put`, `Get`, `TaskDone`, `Join`), which either ends the
call or waits at a condition and is run again, and leaves by the finally clause
(`Exit`) when the notify it has started is over. Critical sections are one step
up to a wait or the notify: other threads only touch the lists of waiters
meanwhile. The deadline of a timed call may be over at any time. `call` is the
request of each thread and then its answer, and is what `QueueSpec` has too;
the mapping reads the items in the order in which `get()` returns them: the
deque of a Queue, the list of a LifoQueue backwards, the heap sorted. `Heap`
translates the sifting of `_heapq.cs`.

### Threads: `Threading`

`started` and `stopped` are the flags of each thread object, `active` and
`limbo` the two tables, `pc` where each thread is: starting another (`EnterLimbo`,
`Launch`, which may fail, `LeaveLimbo`, `Await`, `Awaited`), in its bootstrap
(`SetStarted`, `Announced`, `Register`), in its body (`run`), at its end, where
it holds the lock of the tables from `End` to `Delete` while it stops, or in a
join. Each thread has two conditions, the one of its started event and the one
joins wait at. A critical section in which nothing is waited for is one action.
The main thread goes to `_exitfunc` when its body ends: it stops, looks through
what `enumerate()` returned (`Pick`, `LookAt`) and joins what it finds, until
there is nothing (`Exit`).

`owed`, the threads that were alive when the main thread came to its end, and
`ancestors`, those that led to the start of each thread, are history variables.
A program is taken to start a thread object from one thread at a time, and not
to join in a circle.

### Code registry: `CodeRegistry`

`allCodes` is the root of the weak list, which doubles as the mark that an
enumeration is under way, `next` its links, `lock` and `cleanupLock` the two
monitors, `codeCount` and `nextCleanup` the counters of `PythonContext`.
Registration, enumeration and cleanup are sequences of actions, one for each
access to the list; `Collect` is the garbage collector, which may take a
registered code at any time.

### Delegate updates: `CodeDelegates`

A delegate is abstracted to the mode it was compiled for and whether it counts
the depth of recursion. `settrace` (`BeginSetTrace`, `CountListener`,
`BeginUpdateAllCode`, `UpdateCode`, `EndUpdateAllCode`) and the recursion limit
change the settings. `option` is `-X:Tracing`, with which codes are always
compiled for tracing and a thread gets a listener by itself (`OnTraceEvent`).

The `Functions` are only called: their stub compiles them under the lock
(`CallStub`, `LazyCompileFirstTarget`, `ReadMode`, `TransformLambda`,
`CompileDelegate`, `StoreDelegate`). The `Others` are what `FunctionCode.Call`
and `MakeClass` run too: modules, bodies of classes, and functions whose code is
given to `exec`; `kind` says which. Whatever of them has a stub or nothing is
compiled by `Call` without the lock, and the body of a class also by the pool
(`CompileClass`). The adaptive compiler reports later (`SetCompiledTarget`), and
`LightThrowCompile` compiles on a pool thread. An update that is not forced
gives a code the delegate of the mode if it can be had without creating a lambda
(`ReuseDelegate`), otherwise the functions' stub (`FallBackToStub`), but leaves
the body of a class alone when tracing is switched on (`KeepClass`).

### deque: `Deque`, `DequeSpec`

The fields are the variables; the version is not a counter but the fact that
an iterator is `Stale`. Every operation holds the lock and is one action;
within it the operators follow the code's cases: a full deque that overwrites
its other end (`AppendOver`, `AppendLeftOver`), growth (`GrowArray`), the slide
of `remove`, the rotation in place or by copying, the rebuilt array of
`__delitem__`. `result` is what the operation returned or raised. `DequeSpec`
is a bounded sequence, and the mapping reads it from the ring.

### Generators: `Generator`

One thread. `state`, `closed`, `active`, `excInfo` and `sendValue` are the
fields; `stack` holds the bodies that run, the innermost last, with the call
that resumed each of them; `current` is what `sys.exc_info()` returns. A body
may do whatever a body can: call any generator, its own included, catch, raise,
yield or return. An exception on its way may meet a finally clause (`Finally`),
which is a part of the body like any other and may let it go on (`Raise`);
`sys.exc_clear()` may be called at any time (`ExcClear`). ValueError, TypeError
and RuntimeError, which the calls raise, are one exception in the model.
`result` is what the call that has just returned raised. `refused` is a history variable: a refused call may have left
something in a field.

## 4. Runs

| Run | Question | Bounds, and why they are enough |
|---|---|---|
| `dict_collisions` | does the table stay well formed and exact, and does a lookup that overlaps mutations answer for a moment of its duration? | three keys that probe the same slots of an array of three: collision, wrap, removed buckets in a chain and growth to eight all happen; one reader, because readers write nothing that others read |
| `dict_readers` | is a stably bound key read with a value it had, while items are added, removed and copied in from a dictionary of another key type, and are delegates, until something is copied in, given keys they can compare? | two keys of two types with the same hash code, two values, an array of two that grows, one source of one item |
| `dict_torn_read` | violation, section 6 | one key and one value: a value that was never bound needs no more |
| `thread_lock` | lost wakeups, and the abstract lock with its liveness | three threads: one releasing, two competing for one event |
| `queue` | is it a blocking queue in its order of service, is no wakeup lost, and are calls finished while one can be? | three threads: one that waits, one that was notified and one that comes in between. A Queue of maxsize 1 with every call and every form of timeout, so that both ends block, and two unfinished tasks; an unbounded LifoQueue of three items; a PriorityQueue of four, where both children of a node exist |
| `threads` | do the tables list the living, does the exit wait for those it owes, and does everything end? | the main thread and two others: a thread that starts another while it is listed is all the exit can miss; two calls each for the first two and one for the third; none or one of them daemonic |
| `threads_exit` | violation, section 6 | as `threads` |
| `registry` | are codes lost, missed or miscounted? | two threads, three codes: a head, a middle and an end of the list; cleanup thresholds scaled from 200 and 500 to 1 and 1 so that cleanups run, bounded by `MaxNextCleanup` |
| `delegates` | does what runs match the mode once updates are done, and do updates end? | two threads, with and without `-X:Tracing`; one function, and one other code, which is each of a module, a class body and a function that `exec` runs, and adaptive; the count of listeners gets at most `MaxUncounted` below 0, and a recursion limit that was set is not lifted, which changes no mode |
| `deque` | is the ring a bounded sequence, operation by operation? | first array of 2 instead of 8, so that three items mean growth; maxlen unbounded, 1 (smaller than the array) and 3 (not a power of two); indices -4 to 4 reach past both ends; `MaxItems` bounds unbounded deques |
| `generator` | reentrant and nested calls: exclusion, delivery, saved exceptions | two generators: each runs once at a time, so two are all the nesting there is; one without an except clause; two values to send and one exception beside those that calls raise |
| `generator_refused` | violation, section 6 | as `generator` |

Deadlock is checked wherever the system cannot stop. It may in `thread_lock`,
where everybody may be in `acquire` with nobody left to release, in `queue`,
where everybody may wait for an item that nobody will put, and in `threads` and
`threads_exit`, whose program ends. That nobody is stuck who need not be is the
subject of the liveness properties there.

Symmetry is used only where no liveness property is checked and the permuted
values are interchangeable in every constant, in `dict_collisions`, `deque` and
the runs of `Generator`: keys of one type and hash code, the items of a deque,
the values sent to a generator.

### Fairness

Fairness is weak and of calls that have begun: a thread inside an operation
that can take its next step takes it, which any scheduler grants. Nobody is
required to call anything, to release a lock, to end a body, or to collect a
code. The bodies of threads are an exception: `threads` takes them to end
(`WF(Finish)`), for a join may wait for one. Whoever waits for a lock shares
one fairness condition with the others. `LockSpec` asks that a lock which stays
free is granted to somebody, not to a given thread, for `AutoResetEvent`
promises no order, and `Queue` and `Threading` use no more
(`WF(\E t : Locking(t))`). So a single call of a queue may be overtaken for
ever; what is checked is that some call is finished as long as one can be.

## 5. Proofs

TLAPS proves the following for every value of the constants that satisfies the
modules' assumptions.

- `SyncProofs`, about thread.lock: `LockTypeCorrect`, `WakeupNeverLost` and
  `LockSimulation` (every step of the lock is a step or a stutter of
  `LockSpec`), for any number of callers. The inductive invariant is
  `LockTypeOK /\ NoLostWakeup`: the wakeup argument needs what `LockTypeOK` says,
  that the event exists while somebody waits.
- `DictionaryProofs`: every property of the runs of the dictionary but
  `ValueWasBound`, which the code does not have, for any keys, hash codes, sizes
  (`SizeAssumption`), values, sources of copies and number of readers. There are
  five inductive invariants, each of which rests on those before it:
  - `IInv`, for `TypeCorrect`, `ProbesReachKeys` and `KeysAreUnique`.
    `ChainsUnbroken` is not inductive alone: a key may only be written to the
    bucket its scan settled on and while no other bucket has it (`Settled`), and
    during growth only keys of the buckets already visited are in the new array
    (`RehashedFrom`). The proof has one lemma per kind of write
    (`WriteKeepsChains`, `WriteKeepsUnique`) and one step per action.
  - `CountOK`, for `CountIsAlwaysExact`. A mutation in progress leaves the count
    a known amount behind the array (`Lag`), and whatever a copy has yet to add
    has a bucket to spare (`ToAdd`), so that AddWorker never runs out of
    buckets. Growth needs the arithmetic of the load: that an array at its load
    has room for one more, and one that is multiplied has room for all.
  - `MappingOK`, for `MappingIsAlwaysExact`. Each mutation takes effect in one
    of its writes: before it the array shows `before`, from it on `after`
    (`Mapped`), and an array being filled shows the buckets already visited
    (`Rehashed`).
  - `LookupsOK`, for `LookupsAreAlwaysConsistent` and `StableKeysAreAlwaysRead`.
    An array that was replaced under a lookup stays as it was and has an
    admissible answer in it; and a scan has only passed a bucket that has the
    key if the key was also unbound at a moment of the call (`LookupOK`).
  - `SitesOK`, for `DelegatesAlwaysFit`. As long as nothing was copied, an array
    that a delegate of one type is used on has keys of that type only, because
    the change to two types replaces the array before it writes to it.
- `RegistryProofs`: `TypeCorrect`, `LiveCodesStay`, `CountIsAlwaysExact`,
  `EnumerationsAreComplete`, `AssertionsAlwaysHold` and `RemovalsWereCounted`,
  for any threads and any finite set of codes. The invariant `IInv` is about the
  shape of the list: it is acyclic; no node leads to a code that is not
  registered yet (`Fresh`); the one cleanup that there is stands in the list,
  and its prev leads to its cur (`CleanerAt`), because nobody else unlinks a
  node or changes a Next; and every live code an enumeration has not updated is
  ahead of it (`EnumeratorAt`), even where it stands on a node that was
  unlinked, because a bypassed node keeps its Next. Three lemmas about `From`
  carry the argument: what it is when a node is put in front (`LinkFacts`), when
  a node is bypassed (`BypassFacts`), and that of two nodes of the list one is
  reached from the other (`FromIsChain`).
- `DequeProofs`: `TypeCorrect`, `NeverLonger`, `NoGaps`, `IteratorsStand`,
  `EveryOperationIsExact` and `RingIsASequence`, for any values, indices,
  initial length and bound of the items, and for every maxlen but 0
  (`0 \notin MaxLens` is an assumption of the theorems: with it, the code does
  leave the array, section 6). The heart of the inductive invariant is
  `tail = Slot(itemCnt)`, that the ring is closed, together with the place of
  each iterator. The refinement reads the items off the ring (`Contents`); one
  lemma for each operation (`AppendIsExact`, ..., `DelItemIsExact`) says that it
  makes of them what its counterpart in `DequeSpec` does, and they give both
  theorems: that every operation is its own counterpart (`OperationsAreExact`)
  and that the ring implements `DequeSpec`. The slides of `remove` and the
  rotation that copies are matters of arithmetic modulo the length of the array.
- `GeneratorProofs`: `TypeCorrect`, `BodiesNeverOverlap`, `DeliveryExact`,
  `ExcInfoRestored` and `CloseCloses`, for any generators, values and depth of
  calls. The inductive invariant is about the whole stack of running bodies: a
  generator is active exactly if one frame is its, and each frame of a body
  without an except clause runs with the exception that was current when it was
  called, or none if it was cleared since, and that is what the frame above has
  saved in turn. Only a refused call leaves
  something in the fields of a generator that is not closed.
- `DelegateProofs`: `TypeCorrect`, `TargetsFollowMode`,
  `LightTargetsFollowMode` and `CountFollowsListeners`, for any finite set of threads and
  any codes. `TargetsMatchMode` is not inductive: while a thread compiles, the
  mode it has read must be the current one unless an update has begun
  (`ModeIsFollowed`), an update that has begun must still visit what is stored
  meanwhile, which the lock around the compilation gives (`LocksHeld`), and
  what it has visited fits already. The count is never more than the threads with a listener, as of
  their last completed count (`Counted`), and is exact unless `-X:Tracing` gave
  one of them a listener that nothing counted.
- `SyncProofs`, about conditions: lemmas for whoever uses them. `CInv` says that the
  lists of waiters and the threads that wait agree: a thread is on the list of
  the condition it waits at and on no other, once, and one that sleeps is on it,
  with no notify having released it. There is one lemma for each step of wait
  and notify, which says what the step keeps and whose wait it moves on.
- `QueueProofs`: `TypeCorrect`, for any threads, queues and requests;
  `NoWakeupLost` and `QueueImplementsSpec` (every step is a step or a stutter of
  `QueueSpec`), for any finite number of threads and any requests, and any
  queues without a PriorityQueue among them (`NoHeap`). The argument is a
  balance (`Balance`): as long as somebody sleeps at an end of the queue, what
  is there for them, items or free slots, is not more than the threads that are
  coming, that is, notified, timed out, or inside the mutex with such a call. A
  put adds an item and takes a sleeper into the coming ones; a get takes an item
  and is one of the coming ones itself; a wait goes to sleep where nothing is
  left; a timeout only moves a sleeper among the coming ones. `CallsOK` ties a
  waiting thread to the request that made it wait. The refinement needs in
  addition that the answer of a call stands until its finally clause
  (`Phases`), and that the operations of the list are those of the order of
  service (`OrderIsKept`). The heap's recursive functions need induction over
  the heap, so a PriorityQueue is left to TLC.
- `ThreadingProofs`: `TypeCorrect`, `EnumerationIsTrue` and `ExitWaits`, for any
  threads and any number of calls, with starts that fail and joins that time
  out. `LInv` is about locks and waits: whoever is between `End` and `Delete`
  holds the lock of the tables, and a starter waits until its thread has
  started. `SInv` ties the flags and the tables to the place of each thread;
  with the lock of the tables free, nobody is between stopping and leaving the
  table, so they list the living. For the exit (`ExitOK`), a thread that the
  main thread owes is in the tables from before the list is made until it has
  stopped, so what is owed and has not stopped is in what is left to look at
  (`owed \ stopped \subseteq snapshot`), and the list is only empty when all of
  them have stopped.

Every safety property that a passing run checks is a theorem, but for the
PriorityQueue. Only model-checked are: liveness (the fairness of `ImplementsLock`
and the progress of `ImplementsQueue`, `LockIsReleased`, `UpdatesFinish`,
`AllEnd`), which is out of the prover's reach; and the PriorityQueue, whose
sifting is recursive, so that what it computes needs induction over the heap.

## 6. Where the code disagrees with its own words

Kept as runs, each with the line it contradicts in `PROJECT.json`:

- `dict_torn_read`: a lookup copies a bucket while its key is removed, and
  returns a null value for a key that never had it.
- `generator_refused`: a refused reentrant `throw()` leaves its exception in
  the generator, where a later `send()` meets it.
- `threads_exit`: at exit the main thread skips a thread of its list that has
  ended meanwhile (`threading.py:1104`); a non-daemonic thread which that one
  started after the list was made is not waited for, although the documentation
  of `daemon` (`threading.py:1008`) says that the program exits when only
  daemonic threads are left. The threads that were alive when the main thread
  came to its end are all waited for (`ExitJoinsTheLiving`, proved).

Seen while modelling, and part of the models unless it says otherwise, without a run of their own:

- `CommonDictionaryStorage.cs:731`: a copy that changes the key type does not
  clone the buckets, as `:234` does for this reason, so a lookup that chose the
  comparison of one type can meet a key of the other. `DelegatesFitKeys` is
  stated of dictionaries into which nothing was copied (`copied`).
- `FunctionCode.cs:161` and `:335`: codes registered during a cleanup can pass
  the threshold that the cleanup sets; the count is compared with it for
  equality, so no cleanup is queued any more.
- `FunctionCode.cs:596` and `:954`, `PythonOps.cs:1443`, `ClassDefinition.cs:162`:
  `Call`, the adaptive compiler, `MakeClass` and the pool store a delegate
  without the lock, which may be one of a mode that is over. That includes a
  function whose code is given to `exec`. `TargetsMatchMode` is stated of
  `Guarded` codes, those whose compilations all take the lock.
- `PythonContext.cs:4116`: with `-X:Tracing` a thread that runs a traced line gets
  a listener which `_tracebackListenersCount` does not count, and a later
  `settrace(None)` of it takes one off the count (`:4158`), which may become -1.
  The mode does not suffer, for the option alone enables tracing (`:381`);
  `ListenersAreCounted` says what is left: the count is never too great.
- `FunctionCode.cs:746`: when tracing is switched off, the body of a class that
  has only been compiled for tracing gets the functions' stub, which the other
  branch avoids (`:720`, "ClassDefinition does not have the same signature as
  call targets"); `MakeClass` then casts it to another type of delegate
  (`PythonOps.cs:1445`). The model has the stub (`FallBackToStub`) and not the
  cast.
- `Generator.cs:443`: the current exception is only restored for bodies with an
  except clause, so a `sys.exc_clear()` in another one clears it for the caller
  as well, although "A generator restores the sys.exc_info() status after each
  yield point" (`:428`). `ExcInfoIsRestored` says what is left: such a body can
  lose the caller's exception and not put another in its place.
- `_collections.cs:539` and `:602`: `Current` of a deque's iterator reads the array
  after `MoveNext` has returned, without the lock and without looking at the
  version. What changes the deque in between can make it yield an empty slot or
  another item, or leave the array. Not modelled: `IteratorsAreExact` is about
  the index that `MoveNext` leaves.
- `CommonDictionaryStorage.cs:621`: `GetKeys` reads the buckets before the lock
  and the count inside it; the two may not belong together. Not modelled.
- `PythonContext.cs:370`: the setter of the recursion limit compares the new
  value with the field it has just assigned, so the codes are never updated;
  the model assigns and does not update (`SetRecursionLimit`), and a function
  compiled before keeps or lacks the check of the depth.
- `FunctionCode.cs:204`: the target for light exceptions does not count the
  depth of recursion.
- `_collections.cs:173`: `appendleft` to a deque with maxlen 0 stores outside
  of its array and raises; the runs and the theorems of `Deque` have no maxlen 0
  for this reason.
- `threading.py:729`: `start()` tests whether the thread is started, and sets
  the event much later, on the new thread: two threads that call it of one
  object run its body twice. The model takes this for a misuse.
- `_collections.cs:361`: an assignment to an index out of range invalidates
  iterators; `:271`: `remove` of a missing item from a deque of maxlen 0 raises
  IndexError instead of ValueError.

## 7. What is not modelled

Of the modelled components: the None key, clones, `GetKeys` and the other
enumerations and (de)serialisation of dictionaries, a source of a copy that was
emptied and still hands its delegates over (`CommonDictionaryStorage.cs:726`,
which only matters to dictionaries that are copied into), and user-defined
`__hash__` and `__eq__`, which run inside the dictionary's lock and may mutate
it (the lock is reentrant). The models' probes compare keys only, where the code
compares the hash codes first (`:540`): equal keys have equal ones. Further:
comparison and copies of deques, and what `Current` of their iterators reads;
the finaliser, the function stack of `-X:Frames` and calls of one generator from
two threads (`_active` is tested and set without a lock); the thread locals and
the stack size of `thread.cs`; debug targets, precompiled code and class bodies
compiled with debug symbols. An enumerator of a dictionary holds the
dictionary's lock from one item to the next (`CommonDictionaryStorage.cs:604`),
so one that is dropped keeps it: a matter of whole programs, as the user-defined
comparisons are.

Of `threading.py`: RLock, Semaphore, Timer, `Event.clear`, the condition's checks
that its caller holds the lock, dummy threads for those that were not started
here, fork, and the tracing hooks; of `Queue.py`: `qsize`, `empty` and `full`,
which read one length under the mutex.

Memory is sequentially consistent in the models: the .NET memory model lets
ordinary writes be seen out of order on weak hardware, and the code has few
barriers. Each action is one access in program order.

The other components are listed in section 1; section 2 and `PROJECT.json`
say which of them are planned and why the others are not. The hazards known of
the planned ones are: `List.cs:966`, where `sort` empties the list while it
calls user code under a lock that the same thread can take again; `List.cs:778`,
where `extend` locks two lists in an order of its own; `List.cs:873`, where `pop`
tests the size before it takes the lock; `_io.cs:817`, where a read that has
emptied the buffer may fail before its result is returned; and `WeakRef.cs:177`,
where callbacks are delivered by the finaliser while others are registered.
