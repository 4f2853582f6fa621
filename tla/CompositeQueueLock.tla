------------------------- MODULE CompositeQueueLock -------------------------
(***************************************************************************)
(* CompositeQueueLock: a queue lock with time-out on a fixed array of      *)
(* nodes.  A thread claims a node of the array (getNode), makes it the     *)
(* tail (spliceNode) and waits for the node before it to be released; a    *)
(* node whose thread gave up is Aborted and is freed by the thread behind  *)
(* it, or taken over by a thread that finds it at the tail.  Every loop    *)
(* may end at its deadline, which is a choice here.                        *)
(***************************************************************************)
EXTENDS Naturals, SequencesExt

CONSTANTS Threads, Nodes, NoNode,
          MaxStamp,      \* bound: no call starts once the stamp has reached it
          Interruptible  \* may others run between getNode's CAS and its load?

VARIABLES
  mTail,   \* the last node and its stamp
  mState,  \* mState[n]: the state of node n
  mPred,   \* mPred[n]: the node before an aborted node
  node,    \* node[t]: the node of thread t, in the call and as sMyNode
  pred,    \* pred[t]: the node it waits for
  tail,    \* tail[t]: the tail it has loaded
  state,   \* state[t]: what its failed CAS of a node's state has read
  pc,      \* pc[t]: where thread t is
  queue    \* history: the threads in the order of their splices

vars == <<mTail, mState, mPred, node, pred, tail, state, pc, queue>>

Labels == {"out", "claim", "load", "loadPred", "takeTail", "reuse",
           "loadTail", "splice", "unclaim", "wait", "freePred", "skip",
           "freeAborted", "setPred", "abort", "in", "release"}

(* A waiting thread has a node to wait for: pred is not null when waitFor-   *)
(* Predecessor dereferences it.                                            *)
TypeOK ==
  /\ mTail \in (Nodes \cup {NoNode}) \X Nat
  /\ mState \in [Nodes -> {"Free", "Waiting", "Released", "Aborted"}]
  /\ mPred \in [Nodes -> Nodes \cup {NoNode}]
  /\ node \in [Threads -> Nodes \cup {NoNode}]
  /\ pred \in [Threads -> Nodes \cup {NoNode}]
  /\ tail \in [Threads -> (Nodes \cup {NoNode}) \X Nat]
  /\ state \in [Threads -> {"Free", "Waiting", "Released", "Aborted"}]
  /\ pc \in [Threads -> Labels]
  /\ queue \in Seq(Threads)
  /\ \A t \in Threads : pc[t] \in {"wait", "freePred", "skip", "abort"} =>
                          pred[t] # NoNode

Init ==
  /\ mTail = <<NoNode, 0>>
  /\ mState = [n \in Nodes |-> "Free"]
  /\ mPred = [n \in Nodes |-> NoNode]
  /\ node = [t \in Threads |-> NoNode]
  /\ pred = [t \in Threads |-> NoNode]
  /\ tail = [t \in Threads |-> <<NoNode, 0>>]
  /\ state = [t \in Threads |-> "Free"]
  /\ pc = [t \in Threads |-> "out"]
  /\ queue = <<>>

Goto(t, label) == pc' = [pc EXCEPT ![t] = label]

(* The locals of a call end with it.                                       *)
ForgetTail(t) == /\ tail' = [tail EXCEPT ![t] = <<NoNode, 0>>]
                 /\ state' = [state EXCEPT ![t] = "Free"]

(* tryLock returns false.                                                  *)
GiveUp(t) ==
  /\ Goto(t, "out")
  /\ node' = [node EXCEPT ![t] = NoNode]
  /\ pred' = [pred EXCEPT ![t] = NoNode]
  /\ ForgetTail(t)

(* An unsuccessful round of getNode: try again, or the deadline has passed. *)
Retry(t) ==
  \/ /\ Goto(t, "claim")
     /\ pred' = [pred EXCEPT ![t] = NoNode]
     /\ ForgetTail(t)
     /\ UNCHANGED node
  \/ GiveUp(t)

(* mTail.compare_exchange_strong: the stamp changes with every success.    *)
CASTail(t, new) == mTail = tail[t] /\ mTail' = <<new, mTail[2] + 1>>

-----------------------------------------------------------------------------
(* getNode                                                                 *)

(* The index of the node is chosen at random, once in a call.              *)
TryLock(t) ==
  /\ pc[t] = "out"
  /\ mTail[2] < MaxStamp
  /\ \E n \in Nodes : node' = [node EXCEPT ![t] = n]
  /\ Goto(t, "claim")
  /\ UNCHANGED <<mTail, mState, mPred, pred, tail, state, queue>>

(* mState.compare_exchange_strong(Free, Waiting)                           *)
Claim(t) ==
  /\ pc[t] = "claim"
  /\ IF mState[node[t]] = "Free"
       THEN /\ mState' = [mState EXCEPT ![node[t]] = "Waiting"]
            /\ Goto(t, "loadTail")
            /\ UNCHANGED state
       ELSE /\ state' = [state EXCEPT ![t] = mState[node[t]]]
            /\ Goto(t, "load")
            /\ UNCHANGED mState
  /\ UNCHANGED <<mTail, mPred, node, pred, tail, queue>>

(* The node is in use; a released or aborted one at the tail can be reused. *)
Load(t) ==
  /\ pc[t] = "load"
  /\ IF mTail[1] = node[t] /\ state[t] \in {"Released", "Aborted"}
       THEN /\ tail' = [tail EXCEPT ![t] = mTail]
            /\ Goto(t, IF state[t] = "Aborted" THEN "loadPred" ELSE "takeTail")
            /\ UNCHANGED <<node, pred, state>>
       ELSE Retry(t)
  /\ UNCHANGED <<mTail, mState, mPred, queue>>

(* Mutant: nothing is put back in place of an aborted node.                *)
LoadPredNull(t) ==
  /\ pc[t] = "loadPred"
  /\ Goto(t, "takeTail")
  /\ UNCHANGED <<mTail, mState, mPred, node, pred, tail, state, queue>>

LoadPred(t) ==
  /\ pc[t] = "loadPred"
  /\ pred' = [pred EXCEPT ![t] = mPred[node[t]]]
  /\ Goto(t, "takeTail")
  /\ UNCHANGED <<mTail, mState, mPred, node, tail, state, queue>>

(* Mutant: a store where the CAS was meant.                                *)
TakeTailStore(t) ==
  /\ pc[t] = "takeTail"
  /\ mTail' = <<pred[t], mTail[2] + 1>>
  /\ pred' = [pred EXCEPT ![t] = NoNode]
  /\ Goto(t, "reuse")
  /\ ForgetTail(t)
  /\ UNCHANGED <<mState, mPred, node, queue>>

(* The node is taken off the queue.                                        *)
TakeTail(t) ==
  /\ pc[t] = "takeTail"
  /\ IF mTail = tail[t]
       THEN /\ CASTail(t, pred[t])
            /\ pred' = [pred EXCEPT ![t] = NoNode]
            /\ Goto(t, "reuse")
            /\ ForgetTail(t)
            /\ UNCHANGED node
       ELSE UNCHANGED mTail /\ Retry(t)
  /\ UNCHANGED <<mState, mPred, queue>>

Reuse(t) ==
  /\ pc[t] = "reuse"
  /\ mState' = [mState EXCEPT ![node[t]] = "Waiting"]
  /\ Goto(t, "loadTail")
  /\ UNCHANGED <<mTail, mPred, node, pred, tail, state, queue>>

-----------------------------------------------------------------------------
(* spliceNode                                                              *)

LoadTail(t) ==
  /\ pc[t] = "loadTail"
  /\ tail' = [tail EXCEPT ![t] = mTail]
  /\ Goto(t, "splice")
  /\ UNCHANGED <<mTail, mState, mPred, node, pred, state, queue>>

(* The CAS of the tail; when it fails it has loaded the tail again.  With   *)
(* no node before its own the thread has the lock.                         *)
Splice(t) ==
  /\ pc[t] = "splice"
  /\ IF mTail = tail[t]
       THEN /\ CASTail(t, node[t])
            /\ pred' = [pred EXCEPT ![t] = tail[t][1]]
            /\ queue' = Append(queue, t)
            /\ Goto(t, IF tail[t][1] = NoNode THEN "in" ELSE "wait")
            /\ ForgetTail(t)
       ELSE /\ \/ tail' = [tail EXCEPT ![t] = mTail] /\ UNCHANGED pc
               \/ tail' = [tail EXCEPT ![t] = <<NoNode, 0>>] /\ Goto(t, "unclaim")
            /\ UNCHANGED <<mTail, pred, state, queue>>
  /\ UNCHANGED <<mState, mPred, node>>

(* Mutant: the node is left in the state Waiting.                          *)
UnclaimNot(t) ==
  /\ pc[t] = "unclaim"
  /\ GiveUp(t)
  /\ UNCHANGED <<mTail, mState, mPred, queue>>

Unclaim(t) ==
  /\ pc[t] = "unclaim"
  /\ mState' = [mState EXCEPT ![node[t]] = "Free"]
  /\ GiveUp(t)
  /\ UNCHANGED <<mTail, mPred, queue>>

-----------------------------------------------------------------------------
(* waitForPredecessor                                                      *)

(* pred->mState.load(); after another state the loop continues or ends.    *)
Wait(t) ==
  /\ pc[t] = "wait"
  /\ CASE mState[pred[t]] = "Released" -> Goto(t, "freePred")
       [] mState[pred[t]] = "Aborted"  -> Goto(t, "skip")
       [] OTHER                        -> Goto(t, "setPred")
  /\ UNCHANGED <<mTail, mState, mPred, node, pred, tail, state, queue>>

(* The node before is released: it becomes free and the lock is taken.     *)
FreePred(t) ==
  /\ pc[t] = "freePred"
  /\ mState' = [mState EXCEPT ![pred[t]] = "Free"]
  /\ pred' = [pred EXCEPT ![t] = NoNode]
  /\ Goto(t, "in")
  /\ UNCHANGED <<mTail, mPred, node, tail, state, queue>>

(* It is aborted: it becomes free, and the thread waits for the one before. *)
Skip(t) ==
  /\ pc[t] = "skip"
  /\ tail' = [tail EXCEPT ![t] = <<mPred[pred[t]], 0>>]
  /\ Goto(t, "freeAborted")
  /\ UNCHANGED <<mTail, mState, mPred, node, pred, state, queue>>

FreeAborted(t) ==
  /\ pc[t] = "freeAborted"
  /\ mState' = [mState EXCEPT ![pred[t]] = "Free"]
  /\ pred' = [pred EXCEPT ![t] = tail[t][1]]
  /\ tail' = [tail EXCEPT ![t] = <<NoNode, 0>>]
  /\ pc' \in {[pc EXCEPT ![t] = label] : label \in {"wait", "setPred"}}
  /\ UNCHANGED <<mTail, mPred, node, state, queue>>

(* Mutant: the node before is not recorded.                                *)
SetPredNot(t) ==
  /\ pc[t] = "setPred"
  /\ Goto(t, "abort")
  /\ UNCHANGED <<mTail, mState, mPred, node, pred, tail, state, queue>>

(* The deadline has passed.                                                *)
SetPred(t) ==
  /\ pc[t] = "setPred"
  /\ mPred' = [mPred EXCEPT ![node[t]] = pred[t]]
  /\ Goto(t, "abort")
  /\ UNCHANGED <<mTail, mState, node, pred, tail, state, queue>>

Abort(t) ==
  /\ pc[t] = "abort"
  /\ mState' = [mState EXCEPT ![node[t]] = "Aborted"]
  /\ queue' = Remove(queue, t)
  /\ GiveUp(t)
  /\ UNCHANGED <<mTail, mPred>>

-----------------------------------------------------------------------------
(* unlock                                                                  *)

Unlock(t) ==
  /\ pc[t] = "in"
  /\ mPred' = [mPred EXCEPT ![node[t]] = NoNode]
  /\ Goto(t, "release")
  /\ UNCHANGED <<mTail, mState, node, pred, tail, state, queue>>

Release(t) ==
  /\ pc[t] = "release"
  /\ mState' = [mState EXCEPT ![node[t]] = "Released"]
  /\ queue' = Tail(queue)
  /\ GiveUp(t)
  /\ UNCHANGED <<mTail, mPred>>

-----------------------------------------------------------------------------
Step(t) ==
  \/ Claim(t) \/ Load(t) \/ LoadPred(t) \/ TakeTail(t) \/ Reuse(t)
  \/ LoadTail(t) \/ Splice(t) \/ Unclaim(t)
  \/ Wait(t) \/ FreePred(t) \/ Skip(t) \/ FreeAborted(t) \/ SetPred(t)
  \/ Abort(t) \/ Unlock(t) \/ Release(t)

Next ==
  \E t \in Threads :
    /\ Interruptible \/ \A u \in Threads \ {t} : pc[u] # "load"
    /\ TryLock(t) \/ Step(t)

Spec == Init /\ [][Next]_vars

-----------------------------------------------------------------------------
(* PROPERTIES                                                              *)

Inside == {t \in Threads : pc[t] \in {"in", "release"}}

(* What the test of the lock counts on.                                    *)
MutualExclusion == \A t, u \in Inside : t = u

(* No node of the fixed array is lost: one that is not free is the tail, is  *)
(* in the hands of a thread, or is behind an aborted node.                 *)
NoNodeLost ==
  \A n \in Nodes : mState[n] # "Free" =>
    \/ mTail[1] = n
    \/ \E t \in Threads : n \in {node[t], pred[t]} \cup {tail[t][1]}
    \/ \E m \in Nodes : mState[m] = "Aborted" /\ mPred[m] = n

(* A node belongs to one thread from getNode until unlock or time-out.     *)
OneOwner ==
  \A t, u \in Threads :
    /\ node[t] = node[u] /\ node[t] # NoNode
    /\ {pc[t], pc[u]} \cap {"claim", "load", "loadPred", "takeTail"} = {}
    => t = u
=============================================================================
