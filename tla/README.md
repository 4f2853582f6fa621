# ConcurrencySandbox in TLA+

ConcurrencySandbox is a header-heavy C++ library of concurrent building blocks: spin locks, mutexes,
lock-based containers, lock-free containers with hazard pointers, and a work-stealing thread pool. It has
no main program; the components are used by their tests and by each other. This directory models the
components at the grain at which their threads interleave (one action per access to shared memory, or one
per critical section where a mutex makes it indivisible), model-checks them, and proves the results that
matter most for every number of threads, addresses and so on.

Paths below are relative to `src/`.

1. [The system](#1-the-system)
2. [Modules and how they correspond to the code](#2-modules-and-how-they-correspond-to-the-code)
3. [Runs](#3-runs)
4. [Fairness](#4-fairness)
5. [Proofs](#5-proofs)
6. [Disagreements between the code and what is said of it](#6-disagreements-between-the-code-and-what-is-said-of-it)
7. [What is not modelled](#7-what-is-not-modelled)
8. [Plan](#8-plan)
9. [Running it](#9-running-it)

## 1. The system

### Locks (`Lock/`)

| Component | State | Operations | What makes it correct |
|---|---|---|---|
| TicketLock | one 64-bit word: `owner` (low half), `next` (high half) | lock, unlock | mutual exclusion in order of tickets; nobody starves |
| CLHQueueLock | `mTail`; per thread `sMyNode`, `sPredNode`; a flag per node | lock, unlock | same; a recycled node is not reused while somebody spins on it |
| MCSQueueLock | `mTail`; per thread a node with `mNext`, `mLocked` | lock, unlock | same; the late link between two nodes is always awaited |
| ArrayQueueLock | a ring of flags, `mTail`; per thread `sIndex` | lock, unlock | same, under the relaxed store of `ArrayQueueLock.cpp:19` |
| PetersonLock | `mFlags`, `mVictim`, a global counter of indices | lock, unlock | mutual exclusion of two threads; bounded bypass |
| CompositeQueueLock | array of nodes with states, stamped `mTail` | tryLock, unlock | the same with threads that give up; no node of the array is lost |
| CLHTimeOutQueueLock | `mTail`, a chain of nodes with `mPred` | tryLock, unlock | as above; each node is freed once |
| HierarchicalCLHQueueLock | a local tail per cluster, a global tail, one word per node | lock, unlock | mutual exclusion although nodes move between clusters |
| SharedLock | a writer flag, two counters, mutex and condition variable | lock, unlock, lock_shared, unlock_shared | readers exclude writers; no lost wake-up |
| HierarchicalMutex | a mutex and a level; `thread_local` current level | lock, unlock, try_lock | no cycle of waits, for any legal sequence of calls |

The state that is `thread_local` is shared by all lock objects of a type, so a thread can hold at most one
lock of a type at a time. The tests do not do otherwise, and the models make it a precondition.

### Lock-based containers (`LockBasedDataStructure/`)

| Component | State | Operations | What makes it correct |
|---|---|---|---|
| ThreadSafeQueue | linked list with a dummy, head mutex, tail mutex, condition variable | push, tryPop, waitAndPop (two forms each), empty | linearizable although the ends have different mutexes; no lost wake-up; a throwing move loses nothing |
| ThreadSafeStack | `std::stack`, mutex, condition variable | push, pop, try_pop | as above |
| FixedSizeThreadSafeHashMap | a mutex per bucket | find, addOrUpdate, remove, getSnapShot | a snapshot is a state the map was in |
| StripedThreadSafeHashmap | a fixed array of mutexes, a growing array of buckets | same | rehash excludes every other operation |
| RefinableThreadSafeHashmap | both arrays grow; `mRehash` names the thread that rehashes | same | nobody works under a mutex of the array that was replaced |

### Lock-free containers (`LockFreeDataStructure/`, `Misc/ThreadPool/`)

| Component | State | Operations | What makes it correct |
|---|---|---|---|
| HazardPointerDomain | list of hazard pointers, a list of retired objects per thread, a global one | register, store, release, retire, thread exit | no object is deleted while announced, none twice, none forgotten; garbage is bounded |
| claimPointer | one local variable | load, store, check | what it returns stays allocated until it is released |
| LockFreeStack | `mHead`, nodes | push, pop | linearizable, lock-free, no ABA |
| MSQueue | `mHead`, `mTail`, nodes that hold the values | push, tryPop | linearizable; no value lost |
| LockFreeLocalWorkQueue | `mTop`, `mBottom`, a growing circular array | push, pop (owner), steal (thieves) | every task is run once |
| LockFreeHashMap | a split-ordered list with marked links, an extendible tree of buckets | insert, remove, find | linearizable; a bucket's sentinel is inserted once |
| AtomicStampedPointer | pointer and 16-bit stamp (or mark) in one word | load, store, CAS | zip and unzip are inverse |

### Misc (`Misc/`)

| Component | State | Operations | What makes it correct |
|---|---|---|---|
| ThreadPool | GlobalWorkQueue, a LocalWorkQueue per worker, `mDone` | submit, the workers' loop, destruction | each task runs once; what happens to queued tasks at the end |
| ParallelAlgorithm | a tree of calls with a future each and a shared flag; a promise per block | for_each, find, partial_sum | the blocks partition the range; no thread outlives the call, also after an exception; the chain of partial sums does not block itself |
| Barrier, Latch, Future, InterruptibleThread, DoubleCheckInitialization | a mutex and a condition variable, or two atomics | see the files | generations do not mix, no wake-up is lost, one initialisation |

### Interactions

Everything is shared memory. The containers call the hazard pointer domain (register, store, release,
retire), and the domain calls back the deleter of a retired object. LockFreeLocalWorkQueue reaches the domain
through claimPointer, the stack and the queue through their own load-store-check loops. The pool composes
the work queues with futures of the standard library; its users, the tests, run tasks of the pool while they wait. The
parallel algorithms do not use the pool: their threads are those of `std::async` and of the file's own jthread.

### Hard behaviour

The hard part is nearly always an interleaving: a value that is read, then used after it went stale.
Addresses and lock nodes are *recycled*, so that a stale pointer may look right (ABA). Threads come and go, and
leave their garbage to others. Locks time out while their predecessor and successor do so as well. Condition
variables wake up spuriously, or are notified too early. Counters and stamps have 16 or 32 bits. A few
orderings are relaxed. Nothing is persistent and there are no messages, so there is no crash recovery
and no lossy channel. `PROJECT.json` lists each hazard with its line and the properties that catch it.

## 2. Modules and how they correspond to the code

`PROJECT.json` ("map") gives, for each definition that models code, the file, the lines and the function.
Variables keep the names of the members; `pc[t]` is where thread *t* is in its operation. Definitions under a
comment that starts with "Mutant:" are variants of the definition that follows them with a plausible bug; the
specifications do not use them, and each shows that one property does notice the bug.

### Memory reclamation

* **Reclamation** is the abstract promise of the domain. An address is free, live or retired; `holders[p]`
  are the owners that announced *p* before it was retired and still do; `Reclaim(p)` needs `holders[p] = {}`.
  An owner that announces *p* after `Retire(p)` is *not* protected. Addresses are allocated again. `Retire` has no guard: nothing keeps a
  client from retiring an object twice, or one that is deleted. The address is then "broken", which no state of the domain
  allows, so that the type invariants and the theorems `ClientObeysDomain` and `StackObeysDomain` detect the misuse.
* **HazardPointer** is the domain itself (`HazardPointer.hpp`): an owner is first counted in `mSize`, then linked;
  `Retire` appends to the thread's list and compares its length with a value of `mSize` that may be stale; a
  scan adopts the global list, loads the head of the hazard pointer list, reads the slots one at a time,
  detaches the local list and deletes or keeps its members one by one; at `Exit` a thread closes its
  owners and leaves its list to the global one, in any order (the order of destruction of `thread_local` objects
  depends on the client). `ImplementsReclamation` is the refinement.
* **ClaimPointer** is the loop of claimPointer as a client of Reclamation, with writers that replace and retire what
  shared pointers refer to.
* **LockFreeStack** and **MSQueue** run on Reclamation rather than on HazardPointer: what they rely on is what the
  domain promises, and the refinement above is what makes that enough. `Linearizable` of each is an
  `INSTANCE` of **AbstractStack** or **AbstractQueue** with the abstract contents computed from the linked
  list (`Contents`), and for the queue with values already filled in but not yet reached by the tail. Both have
  a history variable, `nodes`: the nodes of the stack from the top, or of the queue from the head, which only a successful
  CAS of `mHead` or of a link changes. MSQueue has a second one, `reused`: the node at an
  address that a tryPop has loaded and not yet validated (`Unvalidated`) was deleted, and the allocator has handed out the
  address again. That is what the algorithm does not survive (section 6); its properties are claimed until it happens.
* **ReclamationClients** is the sum of ClaimPointer and LockFreeStack: the variable `client` says which of the two
  uses the domain. It adds the fairness of the stack's steps and `NodesValid`, which joins the stack's invariants.
* **LockFreeHashMap** has `insert`, `remove` and `find` with the sentinels of the buckets, one action per access to a
  link, the counter or the array of buckets. Sorting is by the reversed bits of the hash, computed as the code does
  (`Reverse`, `makeSentinelKey`, `makeOrdinaryKey`). The recursion of `insertSentinel` over the parents of a bucket is the
  sequence `path`; the three holders that `find` swaps are the permutation `hp`. A claim is one action (ClaimPointer
  has its parts): it takes effect at its second load and protects from then on. The tree of arrays
  that holds the buckets is one array. **AbstractSet** is a linearizable set: what changes the set
  takes effect at one instant, and any other call must give an answer that was true at some instant during it
  (`seen` collects them).
* **LockFreeLocalWorkQueue** has `push` and `pop` of the owner and `steal` of the thieves, one action per access to `mTop`,
  `mBottom` and a slot of the array, with the growth of the array. The owner may steal from
  its own queue too, as `getFromOtherLocalQueue` lets it. **AbstractDeque** is its
  abstract specification: a steal may fail whenever another thread interferes, a pop may not.

### Sharing work

* **ThreadPool** has `submit`, `runPendingTask` (own queue, global queue, the queues of the others in the order of the code),
  the loop of the workers and the destruction, used by two clients: the quick sort of the tests, and a thread that
  submits tasks and destroys the pool without waiting for them. `stack[t]` is the call stack of a thread: a call of `sort` that
  waits for its lower part runs other tasks *on top of itself*, and cannot look at its future before they have returned.
  A queue of a worker is what AbstractDeque promises, one step per operation and a steal that may fail, so that it stands for
  LocalWorkQueue (a mutex) and LockFreeLocalWorkQueue both.
* **ParallelAlgorithm** has `parallel_for_each` and `parallel_find` as trees of calls named by their ranges, of which
  `std::async` starts a thread or defers, with the shared flag of find and an exception thrown at any element, and
  `parallel_partial_sum` as blocks joined by a chain of promises. The destructor of a future waits for its thread. In
  partial_sum an addition may throw in a block's own sums, when the sum of the block before is added to its last one, or in the rest.
  When the caller leaves, it destroys the promises, then the futures, then the threads (which joins them); a thread that uses a promise or
  a future after that is in the state `undefined`, and one that throws after it has set its value, so that setting the
  exception throws out of the thread's function, in `terminate`. `Lost` is either.
* **WorkSharing** is the sum of the deque, the pool and the algorithms; `job` says which of them runs.

### Locks

* **TicketLock**, **CLHQueueLock**, **MCSQueueLock**, **ArrayQueueLock**, **PetersonLock**: one module each, with `Lock(t)` (the
  call) and `Step(t)` (every further step of `lock` and `unlock`). `queue` is a history variable: the order in
  which the threads joined.
* ArrayQueueLock asks in a TODO whether its relaxed store is enough. That question has no
  answer in a sequentially consistent model, so the module has the memory model of C++ by views: each location
  is the list of its stores, a thread's view says which stores it must at least see, release stores carry the
  view and acquire loads take it over. The lock protects a non-atomic location `Data`.
* **SharedLock**: each function holds the mutex of the lock from its first line to its last or to a wait, so a step is
  such a section. `sharedPc` tells the three waits apart; `notify_all` moves every waiting thread on, to look again.
* **HierarchicalCLHQueueLock** has `lock` and `unlock` of the clusters' masters and of the threads behind them: the exchange of
  the local tail, the wait for a predecessor of the own cluster or for the splice, the splice itself (the load of the local tail
  and the CAS of the global one, again and again if it fails), the mark that tells the next master where the local queue was
  cut, and the word of each node, changed in one step. Nodes change hands as in CLHQueueLock.
* **HierarchicalMutex** has `lock`, `try_lock` and `unlock` in any legal order, several mutexes per thread; a call that throws
  changes nothing.
* **Monitors** has Barrier (with a counter of generations that wraps around), Latch, Promise with Future, InterruptibleThread
  and the double-checked initialization. A section under a mutex is a step. Sleeping, woken and spuriously woken threads
  are told apart, and `notify_one` picks any sleeper. For the double-checked initialization, whose point is a memory order,
  `synchronized` says of which threads the making of the data *happened before* what they do next.
* **FifoLock** is a fair lock: a queue of threads, of which only the first enters; its `TimeoutSpec` adds `GiveUp`. **Locks**
  is the sum of the modules above: the variable `lock` says which of them the program uses. The queue locks share
  `queue`, so that one refinement mapping serves all of them; what the small synchronisers need is in `shared` and `me`.
  PetersonLock is not first-come first-served and has `PassedOnce` instead; SharedLock has `SharedInv` (a part of
  `RecordInv`) and `Forgotten` (a part of `EveryoneEnters`).
* **CompositeQueueLock** is `tryLock` (getNode, spliceNode, waitForPredecessor) and `unlock`. A deadline
  may pass at every place where the code compares the clock.
  `Interruptible` says whether another thread may run between the failed CAS of `getNode` (line 67) and the load
  of the tail (line 71): see section 6.
* **CLHTimeOutQueueLock** has nodes on the heap: who gives up leaves its node to its successor, who deletes it, or takes
  it off the tail and deletes it itself; `mPred` of a node is null, the node before, or `Available`. A freed address is allocated
  again. **TimeoutLocks** is the sum of the two, and both implement `TimeoutSpec` of FifoLock.

### Lock-based data structures

* **ThreadSafeQueue**: two mutexes, the waiters of the condition variable, spurious wake-ups and a move that may
  throw. The list of nodes is the sequence `contents`; the comparison `mHead.get() != getTail()` takes
  `mTailLock` inside `mHeadLock`, as the code does.
* **ThreadSafeStack**: one mutex, held during the notification too; a critical section is one step. It implements
  AbstractStack, the specification of LockFreeStack. `NoneForgotten` (a part of `ConsumersServed`) is the safety form
  of "no lost wake-up" that the queue does not have.
* **ThreadSafeHashMap** is what the three hash maps have in common: the buckets, the mutexes, what `find`, `addOrUpdate` and
  `remove` do under the mutex of their key (to read the number of buckets and to use it are two steps), and the two halves of
  a rehash. **FixedSizeThreadSafeHashMap**, **StripedThreadSafeHashmap** and **RefinableThreadSafeHashmap** add how a thread gets
  its mutex, the rehash and the snapshot, one action per lock, unlock or access to an atomic. Refinable
  uses Reclamation for its old arrays of mutexes, whose addresses are recycled. **AbstractMap** is
  a linearizable map with snapshots.
* **LockBased** is the sum of ThreadSafeQueue, ThreadSafeStack and the hash maps; `structure` says which is in use. It names the
  assumptions on the constants, which hold of every use (finitely many threads and keys, a hash that is a natural number, at least
  one bucket), and ends with the hash function and the symmetry of its run.

## 3. Runs

All runs are exhaustive within their bounds.

| Run | What it shows | Bounds and why they are enough |
|---|---|---|
| hazard_pointer | `OneList`: each retired object is in exactly one list. `ScanInv`: a scan misses no announcement older than the retirement. `GarbageBound`. `ImplementsReclamation` | 3 threads (one scans, one announces, one exits or adopts the global list at the same time), 3 addresses so that two are retired while one is announced, 1 hazard pointer each. Proved for all sizes |
| reclamation_clients | `NoUseAfterFree`, and `ClaimInv`, the reason, for claimPointer; `NodesValid`, `Linearizable`, `LockFree` for the stack | 2 threads, 2 shared pointers, 3 recycled addresses, 2 values: an object moves from one pointer to the other while a reader is between two steps; ABA needs one stalled thread and three nodes. All but `LockFree` are proved for all sizes |
| ms_queue | `ListInv`, `NoUseAfterFree`, `Linearizable` | 2 threads, 4 recycled addresses, 2 values: the tail lags and is helped by a push and by a pop, nodes are retired, deleted and allocated again while a thread stands still. The properties are claimed until `reused`; the run ms_queue_recycling shows that they fail then. Proved for all sizes |
| locks | For each lock its types, `RecordInv` and, for the queue locks, `ImplementsFifoLock`; `MutualExclusion` and `PassedOnce` for PetersonLock; `LevelsInOrder` for HierarchicalMutex; `NobodyEarly` and `NoSleeperForgotten` for the monitors; `EveryoneEnters` for all | 3 threads (2 for PetersonLock), so that a third joins while one unlocks; 7 tickets on counters of 8 values; 7 slots drawn from a ring of 3, so that every slot is used again twice. SharedLock: a reader inside, a writer that drains, and a third that waits. Clusters: two threads of one and one of another, so that a local queue is spliced behind a foreign node, and nodes are recycled without end. 3 mutexes, two of the same level. Barrier: 3 threads and a generation counter of 2 values, so that a sleeper of one generation meets threads of the next and the counter wraps. All but `EveryoneEnters` are proved for all sizes |
| composite_lock | `LockTypeOK`, `NodesKept` (one owner per node, none lost, none freed twice or while somebody follows a link to it), `ImplementsTimeoutLock`, for both locks with time-out | 3 threads; 3 nodes and stamps up to 6 (CompositeQueueLock): a chain of two aborted nodes, the takeover of a node at the tail and a full array, without interruption inside getNode; 4 addresses (CLHTimeOutQueueLock): three threads wait, two of them give up in either order, and an address is used again |
| lock_based | `ConsumersServed`, `RehashAlone`, `NoLockAfterFree`, `StructureLinearizable` | Queue: 2 producers, 2 consumers, at most 2 values: the ends meet at a single element, and two consumers compete for it. Stack: 4 threads that do everything, at most 2 values: two sleep while one pushes and one takes the value away. Maps: 2 threads, 3 keys, 2 values. The map of fixed size and the striped one start with 2 buckets, the refinable one with 1 and 2 addresses for its arrays, so that two rehashes follow each other and reuse the first address. Deadlock is checked. All are proved for all sizes |
| work_stealing | The deque: `NoOverwrite`, `Linearizable`. The pool: `RunOnce`, `SubmitterWaits`. The algorithms: `ResultRight`. `EveryJobEnds` for the last two | Deque: an array of 2 slots, 4 tasks, 2 thieves: the array wraps, grows while a thief reads it, and the last task is contended three ways. Pool: 2 workers and the caller, who all sort, a list of 3 values in any order, so that calls wait on top of each other and steal from each other; 2 tasks that nobody waits for. Algorithms: `minPerThread` 1 and 2 instead of 25 and 32, ranges up to one more than twice that, so that a range is empty, divided unevenly, or divided twice; 1, 2 (when unknown) and 3 hardware threads. partial_sum: up to `MaxLength` elements, so that three blocks hold two each and every addition can throw; `ResultRight` says when the program can get `Lost`, and that it computes the right thing otherwise. Deadlock is checked. The properties of the deque are proved for all sizes |
| lock_free_hash_map | `ListInv`, `NoUseAfterFree`, `SizeCounts`, `Linearizable` | 2 threads, 2 recycled nodes, the keys 1 and 3, which are their own hashes (`MCHash`, as `std::hash` of an integer) and share a bucket of two and not of four; the array grows from 2 buckets to 4, so that a sentinel needs the one of its parent first. Threads race to insert the same sentinel, the same key, and to unlink the same node. find runs among inserts only, see section 6 |
| ms_queue_recycling, lock_free_hash_map_find, composite_lock_stale, thread_safe_queue_wakeup | the four counterexamples of section 6 | the smallest instance in which each occurs |

Deadlock checking is off where the models really stop: when the tickets of a bounded run are used up, when every
thread of the domain has exited, when no address is left. Symmetry is used only in runs without
liveness properties, over sets whose elements no action tells apart.

Every bound is a constant of its module or a parameter of the configuration: `MaxTickets` (TicketLock,
ArrayQueueLock), `Limit` (the range of a ticket, 2^32 in the code), `MaxStamp`, `MaxLen`, `MaxTasks`, the sizes of `Ptrs` and `HeapNodes`, `Generations` (2^32 in the code);
`NumThread`, `Values`, `MaxSubmitted` (ThreadPool), `MinPerThreads`, `MaxMore`, `MaxLength`, `Hardware` (ParallelAlgorithm);
for the hash maps and LockFreeHashMap `MaxSize` (the number of buckets), `Bits` (the width of a hash), `SizeRange` (the range of `mSize`, 2^32
in the code) and `Threshold` (0 instead of 2 or 4, so that two elements suffice to extend the array).

## 4. Fairness

* **LockFreeStack** (`LockFree`, in ReclamationClients): weak fairness of the disjunction of all threads' steps. *Some* thread that is in
  an operation runs; any particular one may be stalled for ever. This is the least a scheduler can do, and the
  definition of lock-freedom.
* **Locks** (`EveryoneEnters`): weak fairness of each thread's steps inside `lock`, `unlock` and the functions of the
  monitors, and of leaving the critical section. The operating system runs each runnable thread again, and the spin loops
  are always runnable. Calls are not fair: nobody has to want the lock. A spurious wake-up is not fair either, so that only
  notifications count; the time-out of `wait_for` in InterruptibleThread is, since the code asks for it. For ArrayQueueLock
  fairness includes that a spinning thread sees a store in the end, which C++ asks of implementations. A cluster master of
  HierarchicalCLHQueueLock may fail its CAS for ever, since other clusters may succeed for ever: it is only claimed that whoever is
  spliced enters.
* **WorkSharing** (`EveryJobEnds`): weak fairness of each thread of the pool, and of the algorithms as a whole (some call that can
  go on does; the calls are finitely many and none repeats a state). The deque's threads need none. A steal may fail
  whenever it is tried, but the owner's own steps, and the task it then finds, suffice.
* **ThreadSafeQueue** (`NoLostWakeup`): weak fairness of each thread's steps; spurious wake-ups are not fair, since
  no program may rely on them.

Every other property is a safety property and needs none.

## 5. Proofs

The theorems are for every value of the constants: any finite number of threads and hazard pointers, any sets of
addresses and shared pointers, and so on.

**HazardPointerProofs.** Assumptions: `NoPtr` is no address; the sets of threads and of indices are finite. The
inductive invariant is `TypeOK /\ OneList /\ ScanInv`.
`ScanInv` is needed because what a scan has read says nothing of the *present* hazard pointers: an
owner may have been set after it was read. It may only be ignored because such an owner is not in
`holders[p]`: it announced *p* after *p* was retired, and *p* was in the scanning thread's list before the scan
began. So for each holder of an object that waits: while the scan reads, the holder is still to be read or its
address has been; in the sweep, its address has been. That in turn needs `OneList` (an adopted list
belongs to nobody else, so that nothing enters the list of a thread that reads) and that an owner that
announces anything is linked.
`TypeCorrect`, `OneListCorrect`, `ScanCorrect` state the invariants, `Implementation` states that the domain refines
Reclamation: the only step that needs the invariant is `Delete`.
`GarbageBoundCorrect` needs an invariant of its own (`BoundInv`): `mSize` is at least the number of owners that are linked,
a scan has copied and has still to read no more slots than that, and what it keeps is among what it copied; a list that
was adopted from exited threads is judged before the thread leaves `retire`, however long it is.

**ReclamationClientsProofs.** For claimPointer the inductive invariant is `TypeOK /\ ClaimInv`: what a shared pointer
refers to is live, and a claimed object is live or retired with its reader among the holders. `ClaimIsKept` and `ClaimIsSafe`
follow at once. `ClientObeysDomain` says that the clients only take steps that Reclamation allows them: they never retire an object twice or
after it was deleted, which `Retire` does not check; it follows from the invariant, since what is taken out of a shared pointer is live. With
`HazardPointerProofs!Implementation` it closes the chain from the client to the domain's code. The module also carries the
theorems on the stack over to the program that runs either of the two (`NodesValidCorrect`, `LinearizableCorrect`).

**LockFreeStackProofs.** Nothing can be said of a linked list without walking along it, and what a recursive walk
yields for lists of any length is an induction. So the model keeps the list as a history variable, the sequence `nodes`; `ListInv`
says that `mHead` is the first of them, that each `mNext` is the one after it, and that all of them are live. The invariant `IInv` adds what is needed
of each thread: a node that is being pushed or was just taken is known to nobody else and not in the list
(`OwnInv`); a node that pop has announced and checked is live or protected, is not in the hands of a pushing thread,
and `link` is still its `mNext` (`HoldInv`). The last is why there is no ABA: a node cannot be used again,
and its link not be written, before the thread has let it go. `NoUseAfterFreeCorrect` and `NoABACorrect` follow, `StackObeysDomain` is
the counterpart of `ClientObeysDomain` (the node that a pop retires is live, because by `OwnInv` nobody else has taken it), and `LinearizableCorrect` is the refinement of AbstractStack: push takes effect with its CAS, pop
with its CAS or with the load that finds the stack empty.

**MSQueueProofs.** The only assumption is that `NoValue` is no value. The addresses of deleted nodes are used again. The properties hold
until `reused`, so the inductive invariant is `Inv == ~ reused => IInv`. It speaks of nodes, not of addresses: `Listed` are the nodes
that are allocated and not the private node of a thread that has yet to append it; `Popped` those that `mHead` has passed, `Queued` the
others, and `Reached` the head or a popped one; `Known` are those that are not *behind* the tail (a node behind it is
appended, but the tail has yet to be moved on), `Passed` those before the tail. `IInv` says

* of the list (`LinksInv`, `PoppedInv`, `NodesInv`): links of queued nodes lead to queued nodes, never to the head, and no two to the same; a
  node before the tail is full and has a successor; at most one node is behind the tail, and then the tail is full; a popped
  node is before the tail, and only one thread retires it. Nothing is said of where the link of a popped node leads:
  the next node may be deleted before it, and its address be anything by now;
* of a node that a thread has not appended (`Private`): it is empty, has no link, and nobody else has it;
* of a thread (`LocalInv`): a head that it has loaded and not validated is deleted, or still `Known` and `Reached`; as long as it is
  deleted its address is in no use, or `reused` would be true, so the comparison with `mTail` and the validation speak of one
  node. A validated node is `Known`, announced, and not deleted while it stays so (`Held`); after the CAS of `mData` it
  is full; and the node a popping thread has loaded is the head or is popped.

`OthersKeep` says what a step must leave alone for the other threads' `LocalInv` to survive (`Keeps`): each `Known` node is deleted
when nobody holds it (`Deleted`), or keeps what was known of it (`Stays`). Each action has a lemma that it does.

In the refinement push takes effect with the CAS of `mData`: a node that it finds empty is the tail still, because the nodes before
it are full and a `Known` one is not behind it. tryPop takes effect with the CAS of `mHead` or, when it returns nothing, with its load
of `mData`. The code compares the node only with `mTail` there, not with `mHead` (`e-check`). That is enough: the node is the head or
popped, and a popped node is before the tail and therefore full.

**LockFreeLocalWorkQueueProofs.** The invariant says, for each place the owner may be at, how `mTop` stands to
`mBottom` and to what the owner has loaded (`OwnerInv`), so that a push that does not grow the array has a free slot, and a pop that
does not compete for the last task cannot meet a thief there. For a thief (`ThiefInv`): as long as `mTop` is what it has
loaded, the slot it reads, in the array it has claimed, holds what the last array holds at `mTop`, even if the array was
replaced since. The lemmas about the indices modulo the size (`ModRange`, `ModApart`) show that `put` and the copy of
`resize` change no other task. `NoOverwriteCorrect` is an invariant, `LinearizableCorrect` the refinement of AbstractDeque: a push takes effect
with the store of `mBottom`, a pop with its load of `mTop` or, for the last task, its CAS, a steal with its CAS.

**LocksProofs, ClustersProofs** are one argument in two modules: LocksProofs has the single locks, HierarchicalMutex and the monitors,
ClustersProofs the hierarchical lock and the theorems about the sum.

*HierarchicalMutex* (LocksProofs). Assumption: the levels are natural numbers up to the highest (`HierarchyAssumption`). `TypeOK /\ LevelsInOrder` is
inductive: the level of a thread is below those of the other mutexes it holds, and the saved levels lead from one of them to
the next, which is what `unlock` relies on when it restores one. `LevelsCorrect` follows, and `NeverACircle`: the levels of the
threads of a circle are a set of naturals with a least element (`WFMin` of the library), and the thread that has it
waits for a mutex whose owner has a lower one.

`LevelsInOrderCorrect` carries the invariant over to the sum.

*LocksProofs* has the invariants of TicketLock, CLHQueueLock, MCSQueueLock, SharedLock, ArrayQueueLock and PetersonLock. Each queue lock has the lemmas `Init...`
(the invariant holds, nobody is inside) and `Next...` (a step keeps the invariant, and changes `queue` and the threads inside as
FifoLock does). What the invariants add to the types and to the `RecordInv` of the lock:

* *TicketLock*: the thread in place *i* of the queue has the ticket `owner + i - 1`. This holds as long as the lock was taken fewer than
  2^32 times (`TicketsSuffice`, that is `MaxTickets < Limit`), see section 7; it is a hypothesis of the combined theorems.
* *CLHQueueLock*: a thread waits for the node of the one before it, and the nodes of all threads and of the tail are
  different, so that a node that `unlock` recycles is one that nobody else can look at.
* *MCSQueueLock*: every thread but the first waits for the thread before it with its own flag set, and the first one's flag is
  clear when it looks at it (`MCSWaiting`); the links follow the queue except where the next thread has not yet set them (`MCSLinks`).
* *SharedLock*: `mReader` counts the threads that read, and at most one writer has announced itself, drains or writes.
* *ArrayQueueLock*: the store of false to `mArray[sIndex].mFlag` in `unlock` is relaxed, and a TODO in the code asks whether that is enough.
  It is: a flag that is read by a later thread carries at least the last reset. `ResetKnown` says why: the reset of slot *k* is
  known to the thread that made it, and either the tail already carries it on, or the threads that know of it or wait
  are at least as many as the tickets drawn since. There are no more threads than slots (`EnoughSlots`), so by the time the slot is
  drawn again somebody who knows of the reset has drawn a ticket, with the acquire and release `fetch_add` of `mTail`.
  `ArraySeen` is the other half, that the store which lets a thread in carries everything earlier holders wrote.
* *PetersonLock*: mutual exclusion is not inductive. The invariant adds that a thread's flag is set exactly between its
  store in `lock` and its store in `unlock` (`FlagInv`), that an unused index has a clear flag (`ClearInv`), that whoever
  waits beside the holder is the victim (`VictimInv`), and that a waiting thread that was passed once cannot be passed
  again because the other one is the victim (`PassedInv`). The loop condition is two separate loads, as in the code. Assumption: at
  most two threads (`TwoThreads`, what the assertion in `lock` says). `IdsCorrect`, `Exclusion` and `BoundedBypass` follow.

*ClustersProofs* has the invariant of HierarchicalCLHQueueLock (`ClustersIInv`). The hard
part is that a thread that finds its predecessor's node in its cluster must know whether it may go on in that cluster or has
become its master, while that node may be spliced, marked, released, and used again by a thread of another cluster. The parts of the
invariant: a thread that is not outside is in the global queue or in the local queue of its cluster (`ClusterQueues`); each waits
for the node of the one before it, and no node has two owners (`ClusterNodes`); the word of a node is what its thread has
written, and nobody who waits in its cluster in the global queue looks at a marked node (`ClusterWords`); a master that has
spliced will mark the last node of what it took along, and the thread behind it, if any, is another master's
(`ClusterMarks`); and `ClusterBoundaries`: the node that the first thread of a local queue finds before it is the end of what the cluster
spliced last, marked or about to be; or, once no thread of the cluster is in the global queue, it is marked or has been taken over by
another cluster, whose number in the word says so. `PassedToOne` is a consequence.

`LocksIInv` is the conjunction of all these. In ClustersProofs, `LockTypeOKCorrect`, `RecordInvCorrect` and `FifoCorrect` state for every lock what the
run locks checks of it (`LockTypeOK`, `RecordInv`, `ImplementsFifoLock`): the program with any of the five queue locks lets
one thread in at a time, in the order of the queue.

*Monitors* (LocksProofs). An invariant each for Barrier (`mCount` is the number of threads that have not arrived in this generation, a
sleeper of which has the present generation, so that the wrap-around does not matter), Latch, Future, InterruptibleThread
and the double-checked initialization (the holder of `gLock` is alone and knows of the data once they are made, and so does
whoever finds the flag set). `NobodyEarlyCorrect` and `NoSleeperForgottenCorrect` follow.

**LockBasedProofs.** The inductive invariant is `StructureInv`. For the queue it is the type invariant with `NeverTheDummy`: a consumer
that holds `mHeadLock` and has found the list longer than the dummy is the only one that can shorten it. For the stack it is
`NoneForgotten` itself: a push raises the length by one and, if anybody sleeps, the number of those on their way by one as well.
The hash maps have `BucketsInv` (each pair is in the bucket of its key, once, and `mSize` is the number of keys in the map),
`LocksInv` (an array of mutexes has a length as long as it is allocated, and only mutexes that exist are held), `LocalInv` (the
arguments of a call, and that the index of a thread that accesses a bucket is that of its key) and one part each:

* *FixedSizeThreadSafeHashMap* (`FixedInv`): a thread that accesses a bucket is among the owners of its mutex; a snapshot has the
  mutexes below its index, then all of them, and what it has read is what the buckets still hold.
* *StripedThreadSafeHashmap* (`StripedInv`): the same with the mutex of the key modulo the number of mutexes, and a rehash has all
  the mutexes from the comparison on. `Spread` is what the copy must be when it is swapped in.
* *RefinableThreadSafeHashmap* (`RefinableInv`): here nobody holds all mutexes at any time. The invariant says that whoever is about
  to lock a mutex has its array protected by the hazard pointer (`Protected`), that the mutexes held are those of the threads between
  `lock` and the end of their operation (`OwnersInside`), and, for any two threads (`Apart`): only one rehashes; two replaced
  arrays that are still to be retired are different; and a thread that has passed the check of `mRehash` in the array in use
  has a mutex that the draining rehash still has to pass, so that it is not moving elements yet. The check of the array comes
  after that of the flag, and only both together put a thread on the safe side of the drain.

`NextFixed`, `NextStriped` and `NextRefinable` prove that each step keeps it, with one lemma per action. `StructureTypeOKCorrect`,
`ConsumersServedCorrect`, `RehashAloneCorrect` and `NoLockAfterFreeCorrect` follow.

`StructureLinearizableCorrect` needs `ValsInv` besides: a call that has no value yet, or whose value is in the structure
already, carries none, so that the refinement mapping shows the abstract specification the right argument and result. Then each
step of a structure is a step of its abstract specification or one that it does not see (`QueueNextMaps`, `StackNextMaps` and,
for the maps, `FixedMaps`, `StripedMaps` and `RefinableMaps`). The maps share their lemmas. `ContentsHave` and `ContentsBecome`
lead from the buckets to the contents, a function from keys to values, and back; they rest on `BucketsInv`, by which a key has at
most one value. `Drifts` says which moves of a thread its caller does not notice: those before and those after the instant at which
the call takes effect (`Drift`); `TakesEffect` is that instant, under the mutex of the bucket. The snapshot of the map of fixed size takes effect when it
has read the last bucket: it holds all mutexes then, and what it read from the first one on is what the buckets still hold. `SwapMaps`
is the rehash, which changes no contents because what is swapped in is `Spread`.

**Only model-checked.** Liveness, which is beyond the prover together with `ENABLED`. What the pool and the algorithms
compute (`RunOnce`, `SubmitterWaits`, `ResultRight`), which is defined over sorted sequences and trees of calls. LockFreeHashMap, whose
model defines the contents by a walk along the links; and the locks with time-out.
The theorems on the stack, the queue and the deque are about Reclamation and about arrays that live on; that the domain's code
keeps that promise is `Implementation`.

## 6. Disagreements between the code and what is said of it

Each has a run whose counterexample is the sequence of steps, and an entry under "findings".

1. **MSQueue with recycled addresses** (`MSQueue.hpp:121`). tryPop compares the tail with a head that it has not
   validated. If the address of a deleted node is in use again as the new last node, the comparison is about
   the old one and the validation about the new one: `mHead` becomes null and later values are never popped.
   Until an address comes back in this way, whatever else is deleted and allocated, the algorithm is linearizable (run
   ms_queue, and proved).
2. **LockFreeHashMap, find of a removed key** (`LockFreeHashMap.hpp:304`). `get` judges the node it has come to by the mark on the link
   of the node *before* it. A remove whose second compare-and-swap fails has done its work and leaves the marked node for
   the next `LockFreeList::find` to unlink; until then `find` of the removed key returns the removed value, with no
   other thread running (run lock_free_hash_map_find, invariant `FindIsRight`). For the same reason an element
   behind a marked node is not found. When find is called only while no removed node is in the list and no remove is
   running (run lock_free_hash_map), the map is linearizable. Neither run covers a third consequence: `get` announces the next node
   and does not check that the one before is still in the list (`:298`), so it may follow the link of an unlinked node to one that
   is deleted. Nothing is deleted while `find` runs among inserts only, so `NoUseAfterFree` speaks of insert and remove.
3. **CompositeQueueLock, a stale state** (`CompositeQueueLock.hpp:72`). The state that the failed CAS has read is used after the
   load of the tail; in between the node may have been taken by a thread that then holds the lock, and it is taken off the
   queue under it. When nobody runs between these two steps (run composite_lock) the lock is correct.
4. **ThreadSafeQueue, a lost wake-up** (`ThreadSafeQueue.hpp:135`). The notification is sent without the mutex that
   the consumer waits with, so it can come after the consumer looked at the queue and before it waits.

## 7. What is not modelled

* Destruction: of the containers (no other thread may use them then) and of the global delete list at program
  exit.
* `ThreadSafeQueue::empty`, a read. Its `tryPop(T&)` returns `head` as a bool (`ThreadSafeQueue.hpp:110`), which does not
  compile when it is instantiated; it is modelled by what its other statements do.
* Weak memory, except for ArrayQueueLock, where the code itself raises the question, and for the two relaxed
  loads of the domain (the size and the head of the global list), which may return old values.
* The wrap-around of the 16-bit stamp in CompositeQueueLock: a thread would have to stand still for exactly a
  multiple of 65536 changes of the tail.
* A thread that holds two locks of the same type, more than 64 threads on an ArrayQueueLock, more than two on a
  PetersonLock: preconditions of the models, which nothing in the code enforces.
* A TicketLock after 2^32 unlocks: the carry out of `owner` then reaches `next` (`TicketLock.hpp:40`), so that the lock waits for a
  number nobody drew. The run stays below that bound (`MaxTickets < Limit`).
* The tree of arrays in LockFreeHashMap, which `extend` lets grow one step beyond what it indexes before it gets
  another level (`:153`); the two threads that find a bucket empty at once both insert its child array, and one of them
  discards its own (`:112`). The comment at `:288` that get is wait-free does not hold: get follows links for as long as others insert.
* Waiting time: a deadline may pass at any check, and the back-off of CompositeQueueLock is an arbitrary delay.
* Failing allocations. One of them would matter: `RefinableThreadSafeHashmap::rehash` allocates with `mRehash` set
  (`RefinableThreadSafeHashMap.hpp:396`, `:408`), and an exception there would leave it set and everyone waiting.
* AtomicStampedPointer of the lock-free containers (`zip`, `unzip` of a pointer and a mark): used by LockFreeHashMap, where the
  pair is a record. Its arithmetic on real addresses has no small instance.
* ThreadPool: a thread that fails to start in the constructor; tasks that throw (the packaged task stores it); a pool used
  from a worker of another pool (`sLocalWorkQueue` is `thread_local` and static, so the task would go to the other pool's queue).
* ParallelAlgorithm: an empty range for `parallel_partial_sum` (`ParallelAlgorithm.hpp:114` then reserves -1 elements and throws), and
  threads that fail to start.
* What `parallel_partial_sum` does once it is `Lost`. When a block but the first throws in its own sums, the exception is the caller's
  or reaches it along the chain, and the caller destroys the promises and futures (`:115-117`) while earlier blocks
  have yet to use them (`:136`, `:141`); the program terminates when a thread throws after it has set its value. The model
  contains both, stops there, and `SumRight` says that nothing else leads there.
* LockFreeHashMap's `mSize` may pass below zero, and the array be extended too early, when a remove counts before the insert it follows
  (`SizeCounts` is what remains true: the counter differs from the number of nodes by the calls that have yet to count).
* Monitors: two threads that wait for one Future (`notify_one` would wake one of them), a second `setValue`, which
  the model allows but nobody need wait for, `interrupt` before the thread has started (it dereferences a null pointer) or
  after it ended, and condition variables that die before the thread that registered them.
* HierarchicalCLHQueueLock with more than 2^30 clusters, and CLHTimeOutQueueLock when an allocation fails.
* HierarchicalMutex unlocked by a thread that does not own it.

## 8. Plan

Done so far, in this order: the domain and its promise (Reclamation, HazardPointer), its clients (ClaimPointer,
LockFreeStack, MSQueue), the locks without time-out and their common specification (FifoLock), CompositeQueueLock, the lock-based
structures (ThreadSafeQueue, ThreadSafeStack, the hash maps), the work-stealing deque, LockFreeHashMap, the remaining locks
(CLHTimeOutQueueLock, HierarchicalCLHQueueLock, HierarchicalMutex), the monitors, the pool and the parallel algorithms.

Components of one family share an interface; they have a module each and one module that is their sum (Locks,
TimeoutLocks, LockBased, WorkSharing, ReclamationClients), so that a family is checked by one run.

Left, the most important first:

1. **Proofs**: the locks with time-out (`NodesKept`, and that they implement
   `TimeoutSpec`); `ListInv` and `NoUseAfterFree` of LockFreeHashMap, with a history of its list like those of the stack and the queue.
2. **LockFreeHashMap**: the tree of arrays (its indexing as a pure operator against the flat array).

## 9. Running it

```
tlc -config Locks.cfg MCLocks      # any run: module and configuration of PROJECT.json
tlapm LocksProofs.tla              # the proofs of a module
```
