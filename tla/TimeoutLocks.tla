---------------------------- MODULE TimeoutLocks ----------------------------
(***************************************************************************)
(* The locks with a time-out have the same interface, and a program picks  *)
(* one of them: lock says which.  Both promise the queue of FifoLock.     *)
(***************************************************************************)
EXTENDS CompositeQueueLock, TLC

CONSTANTS HeapNodes, Available  \* CLHTimeOutQueueLock

VARIABLES lock,                                          \* the lock in use
          clhTail, clhPred, allocated, me                \* CLHTimeOutQueueLock

clhVars == <<clhTail, clhPred, allocated, me>>
lockVars == <<lock, vars, clhVars>>

CLH == INSTANCE CLHTimeOutQueueLock WITH
  Nodes <- HeapNodes, Null <- NoNode, mTail <- clhTail, mPred <- clhPred

LockInit == lock \in {"composite", "clh"} /\ Init /\ CLH!Init

LockNext ==
  \/ lock = "composite" /\ Next /\ UNCHANGED <<lock, clhVars>>
  \/ /\ lock = "clh" /\ CLH!Next
     /\ UNCHANGED <<lock, mTail, mState, mPred, node, pred, tail, state, pc>>

LockSpec == LockInit /\ [][LockNext]_lockVars

-----------------------------------------------------------------------------
(* PROPERTIES                                                              *)

(* A waiting thread of CompositeQueueLock has a node to wait for, and no     *)
(* thread of CLHTimeOutQueueLock touches a node after its deletion.        *)
LockTypeOK ==
  IF lock = "clh" THEN CLH!TypeOK /\ CLH!NoUseAfterFree ELSE TypeOK

(* A node belongs to one thread, and one thread at most waits for it; no     *)
(* node of the fixed array is lost, no allocated one is leaked.            *)
NodesKept ==
  IF lock = "clh" THEN CLH!OneOwner /\ CLH!NoNodeLost ELSE OneOwner /\ NoNodeLost

(* One thread at a time, in the order of the splices, whoever gives up.    *)
Fair == INSTANCE FifoLock WITH
  inside <- IF lock = "clh" THEN CLH!Inside ELSE Inside
ImplementsTimeoutLock == Fair!TimeoutSpec

-----------------------------------------------------------------------------
(* For TLC: threads, nodes and heap nodes are interchangeable.             *)
Symmetry ==
  Permutations(Threads) \cup Permutations(Nodes) \cup Permutations(HeapNodes)
=============================================================================
