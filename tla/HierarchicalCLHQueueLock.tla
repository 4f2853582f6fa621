---------------------- MODULE HierarchicalCLHQueueLock ----------------------
(***************************************************************************)
(* HierarchicalCLHQueueLock: the threads of a cluster form a local queue   *)
(* by an exchange of its tail; the first of them, the cluster master,      *)
(* splices the whole local queue into the global one.  A thread waits for  *)
(* the node before it, in whichever queue, and takes it over when it       *)
(* unlocks.  A node's cluster, successorMustWait and tailWhenSpliced share *)
(* one atomic word: every change of it is one step.                        *)
(***************************************************************************)
EXTENDS Naturals, SequencesExt

CONSTANTS Threads, Cluster,  \* Cluster[t]: getClusterID() in thread t
          OwnNode,           \* OwnNode[t]: the node thread t is born with
          FirstNode, Null

Nodes == {OwnNode[t] : t \in Threads} \cup {FirstNode}
Clusters == {Cluster[t] : t \in Threads}

NodeAssumption ==
  /\ Null \notin Nodes
  /\ \A t \in Threads : /\ OwnNode[t] # FirstNode
                        /\ \A u \in Threads \ {t} : OwnNode[t] # OwnNode[u]

VARIABLES shared,  \* the lock's tails, the words of the nodes, and a history:
                   \*   order[c], the local queue of c that is not spliced yet
          me,      \* me[t]: where thread t is, sMyNode, sMyPred or pred, tail
          queue    \* history: the spliced threads, oldest first

vars == <<shared, me, queue>>

Word(c, wait, tail) == [cluster |-> c, successorMustWait |-> wait, tailWhenSpliced |-> tail]
Fresh(t) == Word(Cluster[t], TRUE, FALSE)

TypeOK ==
  /\ shared \in [mLocalTails : [Clusters -> Nodes \cup {Null}],
                 mGlobalTail : Nodes,
                 mState : [Nodes -> [cluster : Clusters \cup {0},
                                     successorMustWait : BOOLEAN, tailWhenSpliced : BOOLEAN]],
                 order : [Clusters -> Seq(Threads)]]
  /\ queue \in Seq(Threads)
  /\ me \in [Threads ->
       [pc : {"out", "grant", "load", "tail", "splice", "mark", "spin", "in", "release"},
        node : Nodes, pred : Nodes \cup {Null}, tail : Nodes \cup {Null}]]

(* The constructor's node has the state 0: nobody must wait for it.        *)
Init ==
  /\ shared = [mLocalTails |-> [c \in Clusters |-> Null],
               mGlobalTail |-> FirstNode,
               mState |-> [n \in Nodes |->
                 IF n = FirstNode THEN Word(0, FALSE, FALSE)
                 ELSE Fresh(CHOOSE t \in Threads : OwnNode[t] = n)],
               order |-> [c \in Clusters |-> <<>>]]
  /\ me = [t \in Threads |->
       [pc |-> "out", node |-> OwnNode[t], pred |-> Null, tail |-> Null]]
  /\ queue = <<>>

(* The record of t with the fields that r has as they are in r.            *)
Becomes(t, r) ==
  me' = [me EXCEPT ![t] =
           [f \in DOMAIN @ |-> IF f \in DOMAIN r THEN r[f] ELSE @[f]]]
Before(t) == shared.mState[me[t].pred]

-----------------------------------------------------------------------------
(* localTail.exchange(sMyNode.get())                                       *)
Lock(t) ==
  LET pred1 == shared.mLocalTails[Cluster[t]]
  IN  /\ me[t].pc = "out"
      /\ Becomes(t, [pc |-> IF pred1 = Null THEN "load" ELSE "grant", pred |-> pred1])
      /\ shared' = [shared EXCEPT !.mLocalTails[Cluster[t]] = me[t].node,
                                  !.order[Cluster[t]] = Append(@, t)]
      /\ UNCHANGED queue

Granted(t) == Before(t) = Word(Cluster[t], FALSE, FALSE)

(* Mutant: the end of a spliced queue is not looked at.                    *)
GrantAll(t) ==
  /\ me[t].pc = "grant"
  /\ \/ Before(t).cluster = Cluster[t] /\ ~Before(t).successorMustWait
        /\ Becomes(t, [pc |-> "in"])
     \/ Before(t).cluster # Cluster[t] /\ Becomes(t, [pc |-> "load"])
  /\ UNCHANGED <<shared, queue>>

(* waitForGrantOrClusterMaster: the lock comes from a thread of the cluster, *)
(* or the thread is the first of a new local queue.                        *)
Grant(t) ==
  /\ me[t].pc = "grant"
  /\ \/ Granted(t) /\ Becomes(t, [pc |-> "in"])
     \/ /\ Before(t).cluster # Cluster[t] \/ Before(t).tailWhenSpliced
        /\ Becomes(t, [pc |-> "load"])
  /\ UNCHANGED <<shared, queue>>

(* The cluster master loads the global tail, then the local one.           *)
LoadGlobal(t) ==
  /\ me[t].pc = "load"
  /\ Becomes(t, [pc |-> "tail", pred |-> shared.mGlobalTail])
  /\ UNCHANGED <<shared, queue>>

LoadLocal(t) ==
  /\ me[t].pc = "tail"
  /\ Becomes(t, [pc |-> "splice", tail |-> shared.mLocalTails[Cluster[t]]])
  /\ UNCHANGED <<shared, queue>>

(* The CAS of the global tail; the threads up to tail join the queue.      *)
Splice(t) ==
  LET waiting == shared.order[Cluster[t]]
      size    == CHOOSE i \in 1 .. Len(waiting) : me[waiting[i]].node = me[t].tail
  IN  /\ me[t].pc = "splice"
      /\ IF shared.mGlobalTail = me[t].pred
           THEN /\ Becomes(t, [pc |-> "mark"])
                /\ queue' = queue \o SubSeq(waiting, 1, size)
                /\ shared' = [shared EXCEPT
                     !.mGlobalTail = me[t].tail,
                     !.order[Cluster[t]] = SubSeq(waiting, size + 1, Len(waiting))]
           ELSE /\ Becomes(t, [pc |-> "tail", pred |-> shared.mGlobalTail])
                /\ UNCHANGED <<shared, queue>>

(* tail->setTailWhenSpliced(): the next thread of the cluster is a master.  *)
Mark(t) ==
  /\ me[t].pc = "mark"
  /\ shared' = [shared EXCEPT !.mState[me[t].tail].tailWhenSpliced = TRUE]
  /\ Becomes(t, [pc |-> "spin", tail |-> Null])
  /\ UNCHANGED queue

(* The node before in the global queue no longer makes its successor wait.  *)
Acquire(t) ==
  /\ me[t].pc = "spin" /\ ~Before(t).successorMustWait
  /\ Becomes(t, [pc |-> "in"])
  /\ UNCHANGED <<shared, queue>>

-----------------------------------------------------------------------------
(* Mutant: the node that is taken over keeps its word.                     *)
UnlockUnclear(t) ==
  /\ me[t].pc = "in"
  /\ Becomes(t, [pc |-> "release"])
  /\ UNCHANGED <<shared, queue>>

(* sMyPred->clear()                                                        *)
Unlock(t) ==
  /\ me[t].pc = "in"
  /\ shared' = [shared EXCEPT !.mState[me[t].pred] = Fresh(t)]
  /\ Becomes(t, [pc |-> "release"])
  /\ UNCHANGED queue

(* The node before is the thread's own now; clearSuccessorMustWait() of the *)
(* old one lets the next thread in.                                        *)
Release(t) ==
  /\ me[t].pc = "release"
  /\ shared' = [shared EXCEPT !.mState[me[t].node].successorMustWait = FALSE]
  /\ Becomes(t, [pc |-> "out", node |-> me[t].pred, pred |-> Null])
  /\ queue' = Tail(queue)

Step(t) ==
  \/ Grant(t) \/ LoadGlobal(t) \/ LoadLocal(t) \/ Splice(t) \/ Mark(t)
  \/ Acquire(t) \/ Unlock(t) \/ Release(t)

-----------------------------------------------------------------------------
(* PROPERTIES                                                              *)

Inside == {t \in Threads : me[t].pc \in {"in", "release"}}

(* A thread's node is its own, and the word of the node it waits for speaks *)
(* to it alone: the lock is passed to one thread at most, which is the       *)
(* oldest spliced one, and to nobody while somebody is inside.             *)
Entitled == {t \in Threads :
  \/ me[t].pc = "grant" /\ Granted(t)
  \/ me[t].pc = "spin" /\ ~Before(t).successorMustWait}

PassedToOne ==
  /\ \A t, u \in Threads : me[t].node = me[u].node => t = u
  /\ \A t \in Entitled \cup Inside : queue # <<>> /\ t = Head(queue)
=============================================================================
