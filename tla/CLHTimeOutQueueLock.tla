------------------------- MODULE CLHTimeOutQueueLock ------------------------
(***************************************************************************)
(* CLHTimeOutQueueLock: a thread allocates a node, makes it the tail by an *)
(* exchange and waits for the node before it.  A thread that gives up      *)
(* leaves its node behind, pointing at the node before; whoever waits for  *)
(* a node that was left or released deletes it.  An address is used again  *)
(* once it is freed; the deadline is a choice.                             *)
(***************************************************************************)
EXTENDS FiniteSets, SequencesExt, TLC

CONSTANTS Threads, Nodes,  \* Nodes, the addresses, bound the heap
          Null, Available  \* Available is the address of sAvaiable

VARIABLES mTail,      \* the last node
          mPred,      \* mPred[n]: null, the node before n, or Available
          allocated,  \* the nodes that are not deleted
          me,         \* me[t]: thread t, its sMyNode and the locals of its call
          queue       \* history: the threads in the order of their exchanges

vars == <<mTail, mPred, allocated, me, queue>>

Idle == [pc |-> "out", node |-> Null, pred |-> Null, predPred |-> Null]

TypeOK ==
  /\ mTail \in Nodes \cup {Null}
  /\ mPred \in [Nodes -> Nodes \cup {Null, Available}]
  /\ allocated \subseteq Nodes
  /\ me \in [Threads ->
       [pc : {"out", "first", "wait", "take", "skip", "abort", "leave", "in", "release"},
        node : Nodes \cup {Null}, pred : Nodes \cup {Null},
        predPred : Nodes \cup {Null}]]
  /\ queue \in Seq(Threads)

Init ==
  /\ mTail = Null
  /\ mPred = [n \in Nodes |-> Null]
  /\ allocated = {}
  /\ me = [t \in Threads |-> Idle]
  /\ queue = <<>>

Becomes(t, r) == me' = [me EXCEPT ![t] = r @@ me[t]]
Return(t) == me' = [me EXCEPT ![t] = Idle]
Delete(n) == allocated' = allocated \ {n}

-----------------------------------------------------------------------------
(* new Node and mTail.exchange: with no tail the thread has the lock.      *)
TryLock(t) ==
  /\ me[t].pc = "out"
  /\ \E n \in Nodes \ allocated :
       /\ allocated' = allocated \cup {n}
       /\ mPred' = [mPred EXCEPT ![n] = Null]
       /\ mTail' = n
       /\ Becomes(t, [pc |-> IF mTail = Null THEN "in" ELSE "first",
                      node |-> n, pred |-> mTail])
  /\ queue' = Append(queue, t)

(* pred->mPred.load(): released, left behind, or still waiting.  The first   *)
(* load only asks whether it is released; after a later one the deadline may *)
(* have passed.                                                            *)
Look(t) ==
  /\ me[t].pc \in {"first", "wait"}
  /\ LET predPred == mPred[me[t].pred]
     IN  CASE predPred = Available  -> Becomes(t, [pc |-> "take"])
           [] me[t].pc = "first" /\ predPred # Available -> Becomes(t, [pc |-> "wait"])
           [] me[t].pc = "wait" /\ predPred \in Nodes ->
                Becomes(t, [pc |-> "skip", predPred |-> predPred])
           [] OTHER -> Becomes(t, [pc |-> "abort"])
  /\ UNCHANGED <<mTail, mPred, allocated, queue>>

(* delete pred, and the lock is taken.                                     *)
Take(t) ==
  /\ me[t].pc = "take"
  /\ Delete(me[t].pred)
  /\ Becomes(t, [pc |-> "in", pred |-> Null])
  /\ UNCHANGED <<mTail, mPred, queue>>

(* delete pred, and the thread waits for the node before, or gives up.     *)
Skip(t) ==
  /\ me[t].pc = "skip"
  /\ Delete(me[t].pred)
  /\ \E label \in {"wait", "abort"} :
       Becomes(t, [pc |-> label, pred |-> me[t].predPred, predPred |-> Null])
  /\ UNCHANGED <<mTail, mPred, queue>>

(* Mutant: the node is deleted although another thread waits for it.       *)
AbortDelete(t) ==
  /\ me[t].pc = "abort"
  /\ IF mTail = me[t].node THEN mTail' = me[t].pred ELSE UNCHANGED mTail
  /\ Delete(me[t].node) /\ queue' = Remove(queue, t) /\ Return(t)
  /\ UNCHANGED mPred

(* The CAS of the tail: the last node can be taken off the queue.          *)
Abort(t) ==
  /\ me[t].pc = "abort"
  /\ IF mTail = me[t].node
       THEN /\ mTail' = me[t].pred
            /\ Delete(me[t].node) /\ queue' = Remove(queue, t) /\ Return(t)
       ELSE /\ Becomes(t, [pc |-> "leave"])
            /\ UNCHANGED <<mTail, allocated, queue>>
  /\ UNCHANGED mPred

(* Any other one is left to the thread behind it.                          *)
Leave(t) ==
  /\ me[t].pc = "leave"
  /\ mPred' = [mPred EXCEPT ![me[t].node] = me[t].pred]
  /\ queue' = Remove(queue, t)
  /\ Return(t)
  /\ UNCHANGED <<mTail, allocated>>

-----------------------------------------------------------------------------
Unlock(t) ==
  /\ me[t].pc = "in"
  /\ IF mTail = me[t].node
       THEN /\ mTail' = Null
            /\ Delete(me[t].node) /\ queue' = Tail(queue) /\ Return(t)
       ELSE /\ Becomes(t, [pc |-> "release"])
            /\ UNCHANGED <<mTail, allocated, queue>>
  /\ UNCHANGED mPred

Release(t) ==
  /\ me[t].pc = "release"
  /\ mPred' = [mPred EXCEPT ![me[t].node] = Available]
  /\ queue' = Tail(queue)
  /\ Return(t)
  /\ UNCHANGED <<mTail, allocated>>

(* The nodes the destructor deletes: from the tail back to a released one.  *)
Chain ==
  LET back[i \in 1 .. Cardinality(Nodes)] ==
        IF i = 1 THEN {mTail} ELSE {mPred[n] : n \in back[i - 1] \cap Nodes}
  IN  UNION {back[i] : i \in 1 .. Cardinality(Nodes)} \cap Nodes

Step(t) == Look(t) \/ Take(t) \/ Skip(t) \/ Abort(t) \/ Leave(t) \/ Unlock(t) \/ Release(t)
Next == \E t \in Threads : TryLock(t) \/ Step(t)
Spec == Init /\ [][Next]_vars

-----------------------------------------------------------------------------
(* PROPERTIES                                                              *)

Inside == {t \in Threads : me[t].pc \in {"in", "release"}}

(* A node a thread reads, writes or deletes has not been deleted.          *)
NoUseAfterFree ==
  \A t \in Threads : {me[t].node, me[t].pred} \ {Null} \subseteq allocated

(* No two threads wait for one node, or one of them would delete it first.  *)
OneOwner ==
  \A t, u \in Threads :
    /\ me[t].pred = me[u].pred /\ me[t].pred # Null => t = u
    /\ me[t].node = me[u].node /\ me[t].node # Null => t = u

(* Every node is deleted: once no call runs, the destructor meets them all. *)
NoNodeLost == (\A t \in Threads : me[t] = Idle) => Chain = allocated
=============================================================================
