---------------------------- MODULE CLHQueueLock ----------------------------
(***************************************************************************)
(* CLHQueueLock: a thread enqueues its node by an exchange of mTail and    *)
(* spins on the node of its predecessor; when it unlocks, it keeps that    *)
(* node as its own for the next time.                                      *)
(***************************************************************************)
EXTENDS Naturals, Sequences

CONSTANTS Threads,
          OwnNode,     \* OwnNode[t]: the node thread t is born with
          FirstNode    \* the node the constructor of the lock allocates

Nodes == {OwnNode[t] : t \in Threads} \cup {FirstNode}

NodeAssumption ==
  \A t \in Threads : /\ OwnNode[t] # FirstNode
                     /\ \A u \in Threads \ {t} : OwnNode[t] # OwnNode[u]

VARIABLES
  mTail,      \* the last node of the queue
  mLocked,    \* mLocked[n]: the flag of node n
  sMyNode,    \* sMyNode[t]: thread_local
  sPredNode,  \* sPredNode[t]: thread_local
  pc,         \* pc[t]: "out", "swap", "spin", "in"
  queue       \* history: the threads in the order of their exchange

vars == <<mTail, mLocked, sMyNode, sPredNode, pc, queue>>

(* sMyNode is a unique_ptr: no two threads own the same node.              *)
TypeOK ==
  /\ mTail \in Nodes
  /\ mLocked \in [Nodes -> BOOLEAN]
  /\ sMyNode \in [Threads -> Nodes]
  /\ sPredNode \in [Threads -> Nodes]
  /\ pc \in [Threads -> {"out", "swap", "spin", "in"}]
  /\ queue \in Seq(Threads)
  /\ \A t, u \in Threads : sMyNode[t] = sMyNode[u] => t = u

(* sPredNode is null until the first lock; it is not used before.          *)
Init ==
  /\ mTail = FirstNode
  /\ mLocked = [n \in Nodes |-> n # FirstNode]
  /\ sMyNode = [t \in Threads |-> OwnNode[t]]
  /\ sPredNode = [t \in Threads |-> OwnNode[t]]
  /\ pc = [t \in Threads |-> "out"]
  /\ queue = <<>>

-----------------------------------------------------------------------------
(* sMyNode->mLocked.store(true)                                            *)
Lock(t) ==
  /\ pc[t] = "out"
  /\ mLocked' = [mLocked EXCEPT ![sMyNode[t]] = TRUE]
  /\ pc' = [pc EXCEPT ![t] = "swap"]
  /\ UNCHANGED <<mTail, sMyNode, sPredNode, queue>>

(* sPredNode = mTail.exchange(sMyNode.get())                               *)
Swap(t) ==
  /\ pc[t] = "swap"
  /\ sPredNode' = [sPredNode EXCEPT ![t] = mTail]
  /\ mTail' = sMyNode[t]
  /\ queue' = Append(queue, t)
  /\ pc' = [pc EXCEPT ![t] = "spin"]
  /\ UNCHANGED <<mLocked, sMyNode>>

(* The loop of lock finds the predecessor's flag cleared.                  *)
Acquire(t) ==
  /\ pc[t] = "spin"
  /\ ~mLocked[sPredNode[t]]
  /\ pc' = [pc EXCEPT ![t] = "in"]
  /\ UNCHANGED <<mTail, mLocked, sMyNode, sPredNode, queue>>

(* Mutants: the thread keeps its own node; it clears the flag of the last   *)
(* node in the queue.                                                      *)
UnlockKeep(t) ==
  /\ pc[t] = "in"
  /\ mLocked' = [mLocked EXCEPT ![sMyNode[t]] = FALSE]
  /\ queue' = Tail(queue)
  /\ pc' = [pc EXCEPT ![t] = "out"]
  /\ UNCHANGED <<mTail, sMyNode, sPredNode>>

UnlockLast(t) ==
  /\ pc[t] = "in"
  /\ sMyNode' = [sMyNode EXCEPT ![t] = sPredNode[t]]
  /\ mLocked' = [mLocked EXCEPT ![mTail] = FALSE]
  /\ queue' = Tail(queue)
  /\ pc' = [pc EXCEPT ![t] = "out"]
  /\ UNCHANGED <<mTail, sPredNode>>

(* The thread takes over its predecessor's node, then clears its own flag. *)
Unlock(t) ==
  /\ pc[t] = "in"
  /\ sMyNode' = [sMyNode EXCEPT ![t] = sPredNode[t]]
  /\ mLocked' = [mLocked EXCEPT ![sMyNode[t]] = FALSE]
  /\ queue' = Tail(queue)
  /\ pc' = [pc EXCEPT ![t] = "out"]
  /\ UNCHANGED <<mTail, sPredNode>>

Step(t) == Swap(t) \/ Acquire(t) \/ Unlock(t)
Next == \E t \in Threads : Lock(t) \/ Step(t)

Spec == Init /\ [][Next]_vars

-----------------------------------------------------------------------------
(* PROPERTIES                                                              *)

Inside == {t \in Threads : pc[t] = "in"}

(* One thread at a time, in the order of the exchanges.                    *)
Fifo == INSTANCE FifoLock WITH inside <- Inside
ImplementsFifoLock == Fifo!Spec

(* The nodes are passed on along the queue.  Each thread owns one, the lock  *)
(* or the first in the queue holds one more; the second and later threads   *)
(* spin on the node of the thread before them, which is locked; the first   *)
(* one's predecessor node belongs to nobody else and is unlocked.          *)
NodeInv ==
  /\ \A t \in Threads :
       (\E i \in 1 .. Len(queue) : queue[i] = t) <=> pc[t] \in {"spin", "in"}
  /\ \A i, j \in 1 .. Len(queue) : queue[i] = queue[j] => i = j
  /\ \A t \in Threads : pc[t] \in {"swap", "spin", "in"} => mLocked[sMyNode[t]]
  /\ \A i \in 2 .. Len(queue) :
       /\ sPredNode[queue[i]] = sMyNode[queue[i - 1]]
       /\ pc[queue[i]] = "spin"
  /\ LET spare == IF queue = <<>> THEN mTail ELSE sPredNode[queue[1]]
     IN  ~mLocked[spare] /\ \A t \in Threads : sMyNode[t] # spare
  /\ queue # <<>> => mTail = sMyNode[queue[Len(queue)]]
=============================================================================
