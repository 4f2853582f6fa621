---------------------------- MODULE MCSQueueLock ----------------------------
(***************************************************************************)
(* MCSQueueLock: a thread appends its node to the queue by an exchange of  *)
(* mTail, links it to the node before, and spins on its own flag, which    *)
(* the thread before it clears when it unlocks.  Each thread has one       *)
(* thread_local node, so a node is named by its thread; NoThread is null.  *)
(***************************************************************************)
EXTENDS Naturals, Sequences

CONSTANTS Threads, NoThread

NoThreadAssumption == NoThread \notin Threads

VARIABLES
  mTail,    \* the node at the end of the queue
  mNext,    \* mNext[t]: the link of the node of t
  mLocked,  \* mLocked[t]: its flag
  pc,       \* pc[t]: where thread t is
  pred,     \* pred[t]: the local variable of lock
  queue     \* history: the threads in the order of their exchange

vars == <<mTail, mNext, mLocked, pc, pred, queue>>

TypeOK ==
  /\ mTail \in Threads \cup {NoThread}
  /\ mNext \in [Threads -> Threads \cup {NoThread}]
  /\ mLocked \in [Threads -> BOOLEAN]
  /\ pc \in [Threads -> {"out", "swap", "link", "spin", "in",
                         "cas", "await", "grant", "reset"}]
  /\ pred \in [Threads -> Threads \cup {NoThread}]
  /\ queue \in Seq(Threads)
  /\ \A t \in Threads : pc[t] = "grant" => mNext[t] # NoThread

Init ==
  /\ mTail = NoThread
  /\ mNext = [t \in Threads |-> NoThread]
  /\ mLocked = [t \in Threads |-> FALSE]
  /\ pc = [t \in Threads |-> "out"]
  /\ pred = [t \in Threads |-> NoThread]
  /\ queue = <<>>

Goto(t, label) == pc' = [pc EXCEPT ![t] = label]

-----------------------------------------------------------------------------
(* The stores to the thread's own node, which nobody else can reach yet.   *)
Lock(t) ==
  /\ pc[t] = "out"
  /\ mLocked' = [mLocked EXCEPT ![t] = TRUE]
  /\ mNext' = [mNext EXCEPT ![t] = NoThread]
  /\ Goto(t, "swap")
  /\ UNCHANGED <<mTail, pred, queue>>

(* pred = mTail.exchange(&sMyNode); without predecessor the lock is taken. *)
Swap(t) ==
  /\ pc[t] = "swap"
  /\ pred' = [pred EXCEPT ![t] = mTail]
  /\ mTail' = t
  /\ queue' = Append(queue, t)
  /\ Goto(t, IF mTail = NoThread THEN "in" ELSE "link")
  /\ UNCHANGED <<mNext, mLocked>>

(* pred->mNext.store(&sMyNode)                                             *)
Link(t) ==
  /\ pc[t] = "link"
  /\ mNext' = [mNext EXCEPT ![pred[t]] = t]
  /\ Goto(t, "spin")
  /\ UNCHANGED <<mTail, mLocked, pred, queue>>

Acquire(t) ==
  /\ pc[t] = "spin"
  /\ ~mLocked[t]
  /\ Goto(t, "in")
  /\ UNCHANGED <<mTail, mNext, mLocked, pred, queue>>

(* unlock: is there a successor?                                           *)
Unlock(t) ==
  /\ pc[t] = "in"
  /\ Goto(t, IF mNext[t] = NoThread THEN "cas" ELSE "grant")
  /\ UNCHANGED <<mTail, mNext, mLocked, pred, queue>>

(* No: the queue becomes empty, unless a thread has just joined it.        *)
EmptyQueue(t) ==
  /\ pc[t] = "cas"
  /\ IF mTail = t
       THEN /\ mTail' = NoThread
            /\ queue' = Tail(queue)
            /\ Goto(t, "out")
       ELSE /\ Goto(t, "await")
            /\ UNCHANGED <<mTail, queue>>
  /\ UNCHANGED <<mNext, mLocked, pred>>

(* Mutant: the loop is left out.                                           *)
AwaitNothing(t) ==
  /\ pc[t] = "await"
  /\ Goto(t, "grant")
  /\ UNCHANGED <<mTail, mNext, mLocked, pred, queue>>

(* That thread will link its node.                                         *)
AwaitLink(t) ==
  /\ pc[t] = "await"
  /\ mNext[t] # NoThread
  /\ Goto(t, "grant")
  /\ UNCHANGED <<mTail, mNext, mLocked, pred, queue>>

Grant(t) ==
  /\ pc[t] = "grant"
  /\ mLocked' = [mLocked EXCEPT ![mNext[t]] = FALSE]
  /\ queue' = Tail(queue)
  /\ Goto(t, "reset")
  /\ UNCHANGED <<mTail, mNext, pred>>

Reset(t) ==
  /\ pc[t] = "reset"
  /\ mNext' = [mNext EXCEPT ![t] = NoThread]
  /\ Goto(t, "out")
  /\ UNCHANGED <<mTail, mLocked, pred, queue>>

Step(t) ==
  \/ Swap(t) \/ Link(t) \/ Acquire(t) \/ Unlock(t) \/ EmptyQueue(t)
  \/ AwaitLink(t) \/ Grant(t) \/ Reset(t)

Next == \E t \in Threads : Lock(t) \/ Step(t)

Spec == Init /\ [][Next]_vars

-----------------------------------------------------------------------------
(* PROPERTIES                                                              *)

(* The lock is held until the flag of the next thread is cleared, or the     *)
(* queue is empty.                                                         *)
Inside == {t \in Threads : pc[t] \in {"in", "cas", "await", "grant"}}

(* One thread at a time, in the order of the exchanges.                    *)
Fifo == INSTANCE FifoLock WITH inside <- Inside
ImplementsFifoLock == Fifo!Spec

(* The links follow the queue: a node is followed by the next thread in the  *)
(* queue or, until that thread has linked itself, by none.  The thread that *)
(* is granted the lock still waits for it, as unlock asserts.              *)
LinkInv ==
  /\ mTail = IF queue = <<>> THEN NoThread ELSE queue[Len(queue)]
  /\ \A i \in 1 .. Len(queue) :
       LET linked == i < Len(queue) /\ pc[queue[i + 1]] # "link"
       IN  mNext[queue[i]] = IF linked THEN queue[i + 1] ELSE NoThread
  /\ \A t \in Threads : pc[t] = "grant" => mLocked[mNext[t]]
=============================================================================
