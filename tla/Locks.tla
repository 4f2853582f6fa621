------------------------------ MODULE Locks -----------------------------
(***************************************************************************)
(* The locks without time-out and the synchronisers of Misc: lock says     *)
(* which of them the threads use.  Whichever queue lock it is, the threads *)
(* get the same first-come first-served lock; PetersonLock is for two      *)
(* threads, and nearly as fair; SharedLock lets readers in together; a     *)
(* thread holds several HierarchicalMutexes at a time.                     *)
(***************************************************************************)
EXTENDS PetersonLock, SequencesExt, FiniteSets

CONSTANTS QueueThreads,        \* all threads; Threads are the two of PetersonLock
          Limit, MaxTickets,   \* TicketLock
          OwnNode, FirstNode,  \* CLHQueueLock
          NoThread,            \* MCSQueueLock
          Capacity,            \* ArrayQueueLock
          Cluster, Null,       \* HierarchicalCLHQueueLock
          Mutexes, Hierarchy, Highest,  \* HierarchicalMutex
          Generations, Promiser, Getter, Worker, Notifier  \* Monitors

VARIABLES
  lock,                                              \* the lock the program uses
  queuePc, queue,                                    \* the queue locks
  owner, next, ticket, taken,                        \* TicketLock
  clhTail, clhLocked, sMyNode, sPredNode,            \* CLHQueueLock
  mcsTail, mcsLocked, mNext, pred,                   \* MCSQueueLock
  arrayTail, tailView, mFlag, written, view, sIndex, \* ArrayQueueLock
  mReader, mWriter, sharedPc,                        \* SharedLock
  shared, me                                         \* the others

ticketVars == <<owner, next, ticket, taken>>
clhVars == <<clhTail, clhLocked, sMyNode, sPredNode>>
mcsVars == <<mcsTail, mcsLocked, mNext, pred>>
arrayVars == <<arrayTail, tailView, mFlag, written, view, sIndex>>
sharedVars == <<mReader, mWriter, sharedPc>>
otherVars == <<shared, me>>
lockVars == <<lock, vars, queuePc, queue, ticketVars, clhVars, mcsVars, arrayVars,
              sharedVars, otherVars>>

Ticket == INSTANCE TicketLock WITH Threads <- QueueThreads, pc <- queuePc
CLH == INSTANCE CLHQueueLock WITH
  Threads <- QueueThreads, pc <- queuePc, mTail <- clhTail, mLocked <- clhLocked
MCS == INSTANCE MCSQueueLock WITH
  Threads <- QueueThreads, pc <- queuePc, mTail <- mcsTail, mLocked <- mcsLocked
Array == INSTANCE ArrayQueueLock WITH
  Threads <- QueueThreads, pc <- queuePc, mTail <- arrayTail
Shared == INSTANCE SharedLock WITH Threads <- QueueThreads
Clusters == INSTANCE HierarchicalCLHQueueLock WITH Threads <- QueueThreads
Mutex == INSTANCE HierarchicalMutex WITH Threads <- QueueThreads
Monitor == INSTANCE Monitors WITH Threads <- QueueThreads, kind <- lock

ASSUME LockAssumptions ==
  /\ Ticket!LimitAssumption
  /\ CLH!NodeAssumption
  /\ MCS!NoThreadAssumption
  /\ Array!EnoughSlots
  /\ TwoThreads /\ Threads \subseteq QueueThreads
  /\ Clusters!NodeAssumption
  /\ Mutex!HierarchyAssumption
  /\ Monitor!BarrierAssumption /\ Monitor!RolesAssumption

-----------------------------------------------------------------------------
LockInit ==
  /\ Init /\ Ticket!Init /\ CLH!Init /\ MCS!Init /\ Array!Init /\ Shared!Init
  /\ \/ /\ lock \in {"peterson", "ticket", "clh", "mcs", "array", "shared"}
        /\ shared = Null /\ me = Null
     \/ lock = "clusters" /\ Clusters!Init
     \/ lock = "mutexes" /\ Mutex!Init
     \/ Monitor!Init

PetersonNext(t, step) ==
  /\ lock = "peterson" /\ t \in Threads
  /\ IF step THEN Step(t) ELSE Lock(t)
  /\ UNCHANGED <<lock, queuePc, queue, ticketVars, clhVars, mcsVars, arrayVars,
                 sharedVars, otherVars>>

TicketNext(t, step) ==
  /\ lock = "ticket"
  /\ IF step THEN Ticket!Step(t) ELSE Ticket!Lock(t)
  /\ UNCHANGED <<lock, vars, clhVars, mcsVars, arrayVars, sharedVars,
                 otherVars>>

CLHNext(t, step) ==
  /\ lock = "clh"
  /\ IF step THEN CLH!Step(t) ELSE CLH!Lock(t)
  /\ UNCHANGED <<lock, vars, ticketVars, mcsVars, arrayVars, sharedVars,
                 otherVars>>

MCSNext(t, step) ==
  /\ lock = "mcs"
  /\ IF step THEN MCS!Step(t) ELSE MCS!Lock(t)
  /\ UNCHANGED <<lock, vars, ticketVars, clhVars, arrayVars, sharedVars,
                 otherVars>>

ArrayNext(t, step) ==
  /\ lock = "array"
  /\ IF step THEN Array!Step(t) ELSE Array!Lock(t)
  /\ UNCHANGED <<lock, vars, ticketVars, clhVars, mcsVars, sharedVars,
                 otherVars>>

SharedNext(t, step) ==
  /\ lock = "shared"
  /\ IF step THEN Shared!Step(t) ELSE Shared!Lock(t) \/ Shared!SpuriousWakeup(t)
  /\ UNCHANGED <<lock, vars, queuePc, queue, ticketVars, clhVars, mcsVars, arrayVars,
                 otherVars>>

ClustersNext(t, step) ==
  /\ lock = "clusters"
  /\ IF step THEN Clusters!Step(t) ELSE Clusters!Lock(t)
  /\ UNCHANGED <<lock, vars, queuePc, ticketVars, clhVars, mcsVars, arrayVars, sharedVars>>

OthersNext(t, step) ==
  /\ \/ lock = "mutexes" /\ IF step THEN Mutex!Step(t) ELSE Mutex!Call(t)
     \/ IF step THEN Monitor!Step(t) ELSE Monitor!Call(t)
  /\ UNCHANGED <<lock, vars, queuePc, queue, ticketVars, clhVars, mcsVars, arrayVars,
                 sharedVars>>

(* A thread calls lock or wakes up without cause, or it does the next step   *)
(* of lock or unlock.                                                      *)
ThreadNext(t, step) ==
  \/ PetersonNext(t, step) \/ TicketNext(t, step) \/ CLHNext(t, step)
  \/ MCSNext(t, step) \/ ArrayNext(t, step) \/ SharedNext(t, step)
  \/ ClustersNext(t, step) \/ OthersNext(t, step)

LockNext == \E t \in QueueThreads, step \in BOOLEAN : ThreadNext(t, step)

(* A thread that has called lock or that holds the lock keeps running, and a *)
(* store becomes visible in the end.                                       *)
LockSpec ==
  /\ LockInit /\ [][LockNext]_lockVars
  /\ \A t \in QueueThreads : WF_lockVars(ThreadNext(t, TRUE))

-----------------------------------------------------------------------------
(* PROPERTIES.  Those of PetersonLock itself are checked as they are.      *)

(* The type invariant of the lock in use: no thread reads a null link, no   *)
(* node has two owners, no index leaves the ring.                          *)
LockTypeOK ==
  CASE lock = "ticket" -> Ticket!TypeOK
    [] lock = "clh"    -> CLH!TypeOK
    [] lock = "mcs"    -> MCS!TypeOK
    [] lock = "array"  -> Array!TypeOK
    [] lock = "shared" -> Shared!TypeOK
    [] lock = "peterson" -> TypeOK
    [] lock = "clusters" -> Clusters!TypeOK
    [] lock = "mutexes"  -> Mutex!TypeOK
    [] OTHER             -> TRUE

(* The lock's own record is right.  Who comes next is the order of arrival:  *)
(* the tickets of TicketLock, the nodes that CLHQueueLock passes on, the     *)
(* links of MCSQueueLock, whose unlock finds the next thread still waiting.  *)
(* SharedLock counts the readers inside, and they exclude a writer inside.   *)
(* ArrayQueueLock: the holder sees what earlier holders have written, and    *)
(* has seen the last store to the flag it stores to.  Of the nodes of        *)
(* HierarchicalCLHQueueLock only one lets a thread in, the first one.      *)
RecordInv ==
  CASE lock = "ticket" -> Ticket!TicketInv
    [] lock = "clh"    -> CLH!NodeInv
    [] lock = "mcs"    -> MCS!LinkInv
    [] lock = "shared" -> Shared!SharedInv
    [] lock = "array"  -> Array!NoRace
    [] lock = "clusters" -> Clusters!PassedToOne
    [] OTHER           -> TRUE

(* HierarchicalMutex: the levels a thread holds are in order, and threads    *)
(* never wait for each other in a circle.                                  *)
LevelsInOrder == lock = "mutexes" => Mutex!LevelsInOrder /\ Mutex!NoCircle

(* Barrier, Latch and InterruptibleThread let nobody through early, and      *)
(* double-checked initialization nobody to data that is not made, or twice.  *)
NobodyEarly == Monitor!NobodyEarly /\ Monitor!InitializedOnce

(* No thread sleeps on once what it waits for has happened.                *)
NoSleeperForgotten == Monitor!NoSleeperForgotten

(* The threads that a queue lock has let in.                               *)
Inside ==
  CASE lock = "ticket" -> Ticket!Inside
    [] lock = "clh"    -> CLH!Inside
    [] lock = "mcs"    -> MCS!Inside
    [] lock = "array"  -> Array!Inside
    [] lock = "clusters" -> Clusters!Inside
    [] OTHER           -> {}

(* The queue locks: one thread at a time, in the order of arrival.         *)
Fifo == INSTANCE FifoLock WITH Threads <- QueueThreads, inside <- Inside
ImplementsFifoLock == Fifo!Spec

(* A thread that has called lock and is not inside; a cluster master may     *)
(* fail for ever, but not whoever it has spliced; a writer of SharedLock    *)
(* that has announced itself; and a thread that another synchroniser has    *)
(* released.                                                               *)
Delayed(t) ==
  CASE lock \in {"ticket", "clh", "mcs", "array"} ->
         queuePc[t] \in {"wait", "swap", "link", "spin"}
    [] lock = "peterson" -> t \in Threads /\ Entering(t)
    [] lock = "shared"   -> Shared!Forgotten(t)
    [] lock = "clusters" -> Contains(queue, t) /\ t \notin Clusters!Inside
    [] lock = "mutexes"  -> FALSE
    [] OTHER             -> Monitor!HeldUp(t)

(* Nobody is delayed for ever, whichever lock or synchroniser is in use.    *)
EveryoneEnters == \A t \in QueueThreads : []<>~Delayed(t)
=============================================================================
