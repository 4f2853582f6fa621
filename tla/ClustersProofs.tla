--------------------------- MODULE ClustersProofs ---------------------------
(***************************************************************************)
(* HierarchicalCLHQueueLock, for any number of threads and clusters; then   *)
(* what holds whichever of the locks of Locks is in use.                   *)
(***************************************************************************)
EXTENDS LocksProofs

(* A leaf may take a prover half a minute.                                 *)
USE SMTT(30), ZenonT(30)

-----------------------------------------------------------------------------
(* HierarchicalCLHQueueLock.  A thread that is not outside is in the queue   *)
(* or in the local queue of its cluster, whose first thread may be a master. *)
Spliced(t) == Contains(queue, t)
Local(t) == Contains(shared.order[Cluster[t]], t)

ClusterQueues ==
  /\ Distinct(queue) /\ \A c \in Clusters!Clusters : Distinct(shared.order[c])
  /\ \A c \in Clusters!Clusters : \A i \in 1 .. Len(shared.order[c]) : Cluster[shared.order[c][i]] = c
  /\ \A t \in QueueThreads :
       /\ Spliced(t) => me[t].pc \in {"grant", "mark", "spin", "in", "release"} /\ ~Local(t)
       /\ Local(t) => me[t].pc \in {"grant", "load", "tail", "splice"}
       /\ me[t].pc = "out" \/ Spliced(t) \/ Local(t)
  /\ \A i \in 2 .. Len(queue) : me[queue[i]].pc \in {"grant", "mark", "spin"}
  /\ \A c \in Clusters!Clusters : \A i \in 2 .. Len(shared.order[c]) : me[shared.order[c][i]].pc = "grant"

(* The node that the first in the queue waits for, or the next one would.    *)
Spare == IF queue = <<>> THEN shared.mGlobalTail ELSE me[queue[1]].pred

(* A thread in a queue waits for the node of the thread before it.         *)
ClusterNodes ==
  /\ \A t, u \in QueueThreads : me[t].node = me[u].node => t = u
  /\ Spare \in Clusters!Nodes /\ \A t \in QueueThreads : me[t].node # Spare
  /\ \A i \in 2 .. Len(queue) : me[queue[i]].pred = me[queue[i - 1]].node
  /\ queue # <<>> => shared.mGlobalTail = me[queue[Len(queue)]].node
  /\ \A c \in Clusters!Clusters : \A i \in 2 .. Len(shared.order[c]) :
       me[shared.order[c][i]].pred = me[shared.order[c][i - 1]].node
  /\ \A c \in Clusters!Clusters :
       shared.order[c] # <<>> =>
         shared.mLocalTails[c] = me[shared.order[c][Len(shared.order[c])]].node
  /\ \A t \in QueueThreads : me[t].pc = "splice" =>
       \E i \in 1 .. Len(shared.order[Cluster[t]]) : me[t].tail = me[shared.order[Cluster[t]][i]].node

(* The words of the nodes.  No thread that waits for the next one of a queue *)
(* looks at a node marked as the end of what was spliced.                  *)
ClusterWords ==
  /\ \A t \in QueueThreads :
       LET w == shared.mState[me[t].node]
       IN  w.cluster = Cluster[t] /\ w.successorMustWait /\ (w.tailWhenSpliced => Spliced(t))
  /\ \A i \in 2 .. Len(queue) :
       me[queue[i]].pc = "grant" => /\ Cluster[queue[i - 1]] = Cluster[queue[i]]
                                    /\ ~shared.mState[me[queue[i - 1]].node].tailWhenSpliced
  /\ LET w == shared.mState[Spare]
     IN  IF queue # <<>> /\ me[queue[1]].pc = "release"
         THEN w = Clusters!Fresh(queue[1])
         ELSE /\ ~w.successorMustWait
              /\ queue # <<>> /\ me[queue[1]].pc = "grant" =>
                   w.cluster = Cluster[queue[1]] /\ ~w.tailWhenSpliced

(* A master is still to mark the end of what it has spliced.               *)
ClusterMarks ==
  \A m \in QueueThreads : me[m].pc = "mark" =>
    \E i, j \in 1 .. Len(queue) :
      /\ i <= j /\ queue[i] = m /\ me[m].tail = me[queue[j]].node
      /\ j < Len(queue) => me[queue[j + 1]].pc # "grant"

(* The node that the next thread of a cluster finds before it was the end of *)
(* what was spliced last; later no thread of the cluster is in the queue,    *)
(* and the node is marked, or one of another cluster has taken it over.     *)
Marked(n) ==
  shared.mState[n].tailWhenSpliced \/ \E m \in QueueThreads : me[m].pc = "mark" /\ me[m].tail = n

Boundary(c, n) ==
  \/ \E j \in 1 .. Len(queue) :
       /\ me[queue[j]].node = n /\ Cluster[queue[j]] = c /\ Marked(n)
       /\ \A k \in 1 .. Len(queue) : k > j => Cluster[queue[k]] # c
  \/ /\ n \in Clusters!Nodes
     /\ \A k \in 1 .. Len(queue) : Cluster[queue[k]] # c
     /\ shared.mState[n].tailWhenSpliced \/ shared.mState[n].cluster # c

ClusterBoundaries ==
  \A c \in Clusters!Clusters :
    /\ shared.order[c] = <<>> /\ shared.mLocalTails[c] # Null => Boundary(c, shared.mLocalTails[c])
    /\ shared.order[c] # <<>> /\ me[shared.order[c][1]].pc = "grant" =>
         Boundary(c, me[shared.order[c][1]].pred)

ClustersIInv ==
  /\ Clusters!TypeOK /\ ClusterQueues /\ ClusterNodes /\ ClusterWords
  /\ ClusterMarks /\ ClusterBoundaries

(* The types of what the invariant speaks of.                              *)
ClusterLabels == {"out", "grant", "load", "tail", "splice", "mark", "spin", "in", "release"}
ClusterWord == [cluster : Clusters!Clusters \cup {0}, successorMustWait : BOOLEAN,
                tailWhenSpliced : BOOLEAN]

LEMMA ClusterTypes ==
  ASSUME Clusters!TypeOK
  PROVE  /\ me \in [QueueThreads -> [pc : ClusterLabels, node : Clusters!Nodes,
                                     pred : Clusters!Nodes \cup {Null},
                                     tail : Clusters!Nodes \cup {Null}]]
         /\ shared \in [mLocalTails : [Clusters!Clusters -> Clusters!Nodes \cup {Null}],
                        mGlobalTail : Clusters!Nodes,
                        mState : [Clusters!Nodes -> ClusterWord],
                        order : [Clusters!Clusters -> Seq(QueueThreads)]]
         /\ queue \in Seq(QueueThreads) /\ Len(queue) \in Nat /\ (queue = <<>> <=> Len(queue) = 0)
         /\ \A i \in 1 .. Len(queue) : queue[i] \in QueueThreads
         /\ \A c \in Clusters!Clusters :
              /\ shared.order[c] \in Seq(QueueThreads) /\ Len(shared.order[c]) \in Nat
              /\ shared.order[c] = <<>> <=> Len(shared.order[c]) = 0
              /\ \A i \in 1 .. Len(shared.order[c]) : shared.order[c][i] \in QueueThreads
         /\ \A t \in QueueThreads : Cluster[t] \in Clusters!Clusters
<1>1. /\ queue \in Seq(QueueThreads) /\ Len(queue) \in Nat /\ (queue = <<>> <=> Len(queue) = 0)
      /\ \A i \in 1 .. Len(queue) : queue[i] \in QueueThreads
  <2>1. queue \in Seq(QueueThreads)
    BY DEF Clusters!TypeOK
  <2> QED BY ONLY <2>1, EmptySeq, LenProperties, ElementOfSeq
<1>2. ASSUME NEW c \in Clusters!Clusters
      PROVE  /\ shared.order[c] \in Seq(QueueThreads) /\ Len(shared.order[c]) \in Nat
             /\ shared.order[c] = <<>> <=> Len(shared.order[c]) = 0
             /\ \A i \in 1 .. Len(shared.order[c]) : shared.order[c][i] \in QueueThreads
  <2>1. shared.order[c] \in Seq(QueueThreads)
    BY DEF Clusters!TypeOK
  <2> QED BY ONLY <2>1, EmptySeq, LenProperties, ElementOfSeq
<1>3. \A t \in QueueThreads : Cluster[t] \in Clusters!Clusters
  BY DEF Clusters!Clusters
<1> QED BY <1>1, <1>2, <1>3 DEF Clusters!TypeOK, ClusterLabels, ClusterWord

(* The record of t after a step that changes some of its fields.           *)
Moves(t, p, n, q, l) ==
  /\ p \in ClusterLabels /\ n \in Clusters!Nodes
  /\ q \in Clusters!Nodes \cup {Null} /\ l \in Clusters!Nodes \cup {Null}
  /\ \/ n = me[t].node /\ q = me[t].pred /\ l = me[t].tail /\ Clusters!Becomes(t, [pc |-> p])
     \/ n = me[t].node /\ l = me[t].tail /\ Clusters!Becomes(t, [pc |-> p, pred |-> q])
     \/ n = me[t].node /\ q = me[t].pred /\ Clusters!Becomes(t, [pc |-> p, tail |-> l])
     \/ l = me[t].tail /\ Clusters!Becomes(t, [pc |-> p, node |-> n, pred |-> q])

LEMMA ClusterBecomes ==
  ASSUME Clusters!TypeOK, NEW t \in QueueThreads, NEW p, NEW n, NEW q, NEW l, Moves(t, p, n, q, l)
  PROVE  /\ me' \in [QueueThreads -> [pc : ClusterLabels, node : Clusters!Nodes,
                                      pred : Clusters!Nodes \cup {Null},
                                      tail : Clusters!Nodes \cup {Null}]]
         /\ \A u \in QueueThreads : u # t => me'[u] = me[u]
         /\ me'[t].pc = p /\ me'[t].node = n /\ me'[t].pred = q /\ me'[t].tail = l
<1> USE DEF Moves
<1> DEFINE r == me[t]
           s == [pc |-> p, node |-> n, pred |-> q, tail |-> l]
<1>1. me \in [QueueThreads -> [pc : ClusterLabels, node : Clusters!Nodes,
                               pred : Clusters!Nodes \cup {Null},
                               tail : Clusters!Nodes \cup {Null}]]
  BY ClusterTypes
<1>2. r = [pc |-> r.pc, node |-> r.node, pred |-> r.pred, tail |-> r.tail]
      /\ DOMAIN r = {"pc", "node", "pred", "tail"}
  BY ONLY <1>1
<1>3. ASSUME NEW d \in {{"pc"}, {"pc", "pred"}, {"pc", "tail"}, {"pc", "node", "pred"}}, NEW e,
             DOMAIN e = d, e["pc"] = p, "node" \in d => e["node"] = n,
             "pred" \in d => e["pred"] = q, "tail" \in d => e["tail"] = l,
             "node" \notin d => n = r.node, "pred" \notin d => q = r.pred,
             "tail" \notin d => l = r.tail
      PROVE  [f \in DOMAIN r |-> IF f \in DOMAIN e THEN e[f] ELSE r[f]] = s
  <2> HIDE DEF r
  <2> QED BY ONLY <1>2, <1>3
<1>4. me' = [me EXCEPT ![t] = s]
  BY <1>3 DEF Clusters!Becomes
<1> QED BY <1>1, <1>4

(* Who may move on is the first of its queue.                              *)
LEMMA ClusterHeads ==
  ASSUME ClustersIInv, NEW t \in QueueThreads
  PROVE  LET waiting == shared.order[Cluster[t]]
             before  == shared.mState[me[t].pred]
         IN  /\ me[t].pc \in {"load", "tail", "splice"} => waiting # <<>> /\ waiting[1] = t
             /\ me[t].pc \in {"in", "release"} => queue # <<>> /\ queue[1] = t
             /\ me[t].pc = "mark" => Spliced(t)
             /\ me[t].pc = "spin" /\ ~before.successorMustWait => queue # <<>> /\ queue[1] = t
             /\ me[t].pc = "grant" /\ before = Clusters!Word(Cluster[t], FALSE, FALSE) =>
                  queue # <<>> /\ queue[1] = t
             /\ me[t].pc = "grant" /\ (before.cluster # Cluster[t] \/ before.tailWhenSpliced) =>
                  waiting # <<>> /\ waiting[1] = t
<1> DEFINE c == Cluster[t]
           waiting == shared.order[c]
           before == shared.mState[me[t].pred]
<1>1. /\ Len(queue) \in Nat /\ (queue = <<>> <=> Len(queue) = 0)
      /\ \A i \in 1 .. Len(queue) : queue[i] \in QueueThreads
  BY ClusterTypes DEF ClustersIInv
<1>2. /\ c \in Clusters!Clusters /\ Len(waiting) \in Nat /\ (waiting = <<>> <=> Len(waiting) = 0)
      /\ \A i \in 1 .. Len(waiting) : waiting[i] \in QueueThreads
  BY ClusterTypes DEF ClustersIInv
<1>3. /\ Spliced(t) => me[t].pc \in {"grant", "mark", "spin", "in", "release"} /\ ~Local(t)
      /\ Local(t) => me[t].pc \in {"grant", "load", "tail", "splice"}
      /\ me[t].pc = "out" \/ Spliced(t) \/ Local(t)
  BY DEF ClustersIInv, ClusterQueues
<1>4. \A u \in QueueThreads : LET w == shared.mState[me[u].node]
                              IN  /\ w.cluster = Cluster[u] /\ w.successorMustWait
                                  /\ w.tailWhenSpliced => Spliced(u)
  BY DEF ClustersIInv, ClusterWords
<1>5. ASSUME Spliced(t)
      PROVE  \/ queue # <<>> /\ queue[1] = t
             \/ /\ me[t].pc \in {"grant", "mark", "spin"} /\ before.successorMustWait
                /\ me[t].pc = "grant" => before.cluster = c /\ ~before.tailWhenSpliced
  <2>1. PICK i \in 1 .. Len(queue) : queue[i] = t
    BY ONLY <1>5 DEF Spliced, Contains
  <2>2. CASE i = 1
    BY ONLY <1>1, <2>1, <2>2, SMTT(30)
  <2>3. CASE i # 1
    <3>1. i \in 2 .. Len(queue) /\ i - 1 \in 1 .. Len(queue)
      BY ONLY <1>1, <2>3, SMTT(30)
    <3>2. /\ me[t].pc \in {"grant", "mark", "spin"} /\ me[t].pred = me[queue[i - 1]].node
          /\ me[t].pc = "grant" => /\ Cluster[queue[i - 1]] = c
                                   /\ ~shared.mState[me[queue[i - 1]].node].tailWhenSpliced
      BY <2>1, <3>1 DEF ClustersIInv, ClusterQueues, ClusterNodes, ClusterWords
    <3>3. queue[i - 1] \in QueueThreads
      BY ONLY <1>1, <3>1, SMTT(30)
    <3> QED BY ONLY <1>4, <3>2, <3>3
  <2> QED BY ONLY <2>2, <2>3
<1>6. ASSUME queue # <<>>, queue[1] = t, me[t].pc = "grant"
      PROVE  ~before.successorMustWait /\ before.cluster = c /\ ~before.tailWhenSpliced
  <2>1. Spare = me[t].pred
    BY ONLY <1>6 DEF Spare
  <2> QED BY <1>6, <2>1 DEF ClustersIInv, ClusterWords
<1>7. ASSUME Local(t)
      PROVE  \/ waiting # <<>> /\ waiting[1] = t
             \/ /\ me[t].pc = "grant"
                /\ before.successorMustWait /\ before.cluster = c /\ ~before.tailWhenSpliced
  <2>1. PICK i \in 1 .. Len(waiting) : waiting[i] = t
    BY ONLY <1>7 DEF Local, Contains
  <2>2. CASE i = 1
    BY ONLY <1>2, <2>1, <2>2
  <2>3. CASE i # 1
    <3> DEFINE u == waiting[i - 1]
    <3>1. i \in 2 .. Len(waiting) /\ i - 1 \in 1 .. Len(waiting)
      BY ONLY <1>2, <2>3, SMTT(30)
    <3>2. me[t].pc = "grant" /\ me[t].pred = me[u].node
      BY <1>2, <2>1, <3>1 DEF ClustersIInv, ClusterQueues, ClusterNodes
    <3>3. u \in QueueThreads /\ Cluster[u] = c
      BY <1>2, <3>1 DEF ClustersIInv, ClusterQueues
    <3>4. Local(u)
      BY ONLY <3>1, <3>3 DEF Local, Contains
    <3>5. ~Spliced(u)
      BY <3>3, <3>4 DEF ClustersIInv, ClusterQueues
    <3> QED BY ONLY <1>4, <3>2, <3>3, <3>5, Zenon
  <2> QED BY ONLY <2>2, <2>3
<1>8. ASSUME waiting # <<>>, waiting[1] = t, me[t].pc = "grant"
      PROVE  before.successorMustWait \/ before.cluster # c \/ before.tailWhenSpliced
  <2>1. Boundary(c, me[t].pred)
    BY <1>2, <1>8 DEF ClustersIInv, ClusterBoundaries
  <2>2. CASE \E j \in 1 .. Len(queue) : me[queue[j]].node = me[t].pred
    BY ONLY <1>1, <1>4, <2>2
  <2> QED BY ONLY <2>1, <2>2 DEF Boundary
<1>9. before = Clusters!Word(c, FALSE, FALSE) =>
        ~before.successorMustWait /\ before.cluster = c /\ ~before.tailWhenSpliced
  BY DEF Clusters!Word
<1> HIDE DEF c, waiting, before
<1>10. /\ me[t].pc \in {"load", "tail", "splice"} => waiting # <<>> /\ waiting[1] = t
       /\ me[t].pc \in {"in", "release"} => queue # <<>> /\ queue[1] = t
       /\ me[t].pc = "mark" => Spliced(t)
       /\ me[t].pc = "spin" /\ ~before.successorMustWait => queue # <<>> /\ queue[1] = t
  BY ONLY <1>3, <1>5, <1>7
<1>11. me[t].pc = "grant" /\ before = Clusters!Word(c, FALSE, FALSE) => queue # <<>> /\ queue[1] = t
  BY ONLY <1>3, <1>5, <1>7, <1>8, <1>9
<1>12. me[t].pc = "grant" /\ (before.cluster # c \/ before.tailWhenSpliced) =>
         waiting # <<>> /\ waiting[1] = t
  BY ONLY <1>3, <1>5, <1>6, <1>7
<1> QED BY ONLY <1>10, <1>11, <1>12 DEF c, waiting, before

(* The first of a local queue goes on as its master.                       *)
LEMMA ClusterMasters ==
  ASSUME ClustersIInv, NEW t \in QueueThreads,
         shared.order[Cluster[t]] # <<>>, shared.order[Cluster[t]][1] = t,
         me'[t].pc \in {"load", "tail", "splice"}, me'[t].node = me[t].node,
         me'[t].pc = "splice" => me'[t].tail = shared.mLocalTails[Cluster[t]],
         \A u \in QueueThreads : u # t => me'[u] = me[u],
         Clusters!TypeOK', UNCHANGED <<shared, queue>>
  PROVE  ClustersIInv' /\ Clusters!Inside' = Clusters!Inside
<1> DEFINE d == Cluster[t]
<1>1. /\ Len(queue) \in Nat /\ \A i \in 1 .. Len(queue) : queue[i] \in QueueThreads
      /\ \A c \in Clusters!Clusters : /\ Len(shared.order[c]) \in Nat
                                      /\ shared.order[c] = <<>> <=> Len(shared.order[c]) = 0
                                      /\ \A i \in 1 .. Len(shared.order[c]) :
                                           shared.order[c][i] \in QueueThreads
      /\ d \in Clusters!Clusters
  BY ClusterTypes DEF ClustersIInv
<1>2. Local(t) /\ 1 \in 1 .. Len(shared.order[d])
  <2>1. 1 \in 1 .. Len(shared.order[d])
    BY <1>1
  <2> QED BY <2>1 DEF Local, Contains
<1>3. ~Spliced(t) /\ me[t].pc \in {"grant", "load", "tail", "splice"}
  BY <1>2 DEF ClustersIInv, ClusterQueues
<1>4. \A i \in 1 .. Len(queue) : queue[i] \in QueueThreads /\ queue[i] # t /\ me'[queue[i]] = me[queue[i]]
  BY <1>1, <1>3 DEF Spliced, Contains
<1>5. ASSUME NEW c \in Clusters!Clusters, NEW i \in 1 .. Len(shared.order[c]), c # d \/ i # 1
      PROVE  /\ shared.order[c][i] \in QueueThreads /\ shared.order[c][i] # t
             /\ me'[shared.order[c][i]] = me[shared.order[c][i]]
  <2>1. Cluster[shared.order[c][i]] = c /\ Distinct(shared.order[c])
    BY DEF ClustersIInv, ClusterQueues
  <2>2. shared.order[c][i] # t
    BY <1>2, <1>5, <2>1 DEF Distinct
  <2> QED BY <1>1, <2>2
<1>6. ASSUME NEW c \in Clusters!Clusters, NEW i \in 2 .. Len(shared.order[c])
      PROVE  i \in 1 .. Len(shared.order[c]) /\ i - 1 \in 1 .. Len(shared.order[c]) /\ i # 1
  BY ONLY <1>1
<1>7. \A u \in QueueThreads : me'[u].node = me[u].node
  OBVIOUS
<1>8. \A i \in 2 .. Len(queue) : i \in 1 .. Len(queue) /\ i - 1 \in 1 .. Len(queue)
  BY ONLY <1>1
<1>9. \A u \in QueueThreads : (Spliced(u)' <=> Spliced(u)) /\ (Local(u)' <=> Local(u))
  BY DEF Spliced, Local
<1>10. queue # <<>> => 1 \in 1 .. Len(queue) /\ me'[queue[1]] = me[queue[1]]
  <2>1. queue # <<>> => 1 \in 1 .. Len(queue)
    BY ONLY ClusterTypes, <1>1 DEF ClustersIInv
  <2> QED BY ONLY <1>4, <2>1
<1>11. Spare' = Spare
  BY <1>10 DEF Spare
<1>12. ClusterQueues'
  <2>1. \A u \in QueueThreads :
          /\ Spliced(u)' => me'[u].pc \in {"grant", "mark", "spin", "in", "release"} /\ ~Local(u)'
          /\ Local(u)' => me'[u].pc \in {"grant", "load", "tail", "splice"}
          /\ me'[u].pc = "out" \/ Spliced(u)' \/ Local(u)'
    BY <1>2, <1>3, <1>9 DEF ClustersIInv, ClusterQueues
  <2>2. \A i \in 2 .. Len(queue) : me'[queue[i]].pc \in {"grant", "mark", "spin"}
    BY <1>4, <1>8 DEF ClustersIInv, ClusterQueues
  <2>3. \A c \in Clusters!Clusters : \A i \in 2 .. Len(shared.order[c]) :
          me'[shared.order[c][i]].pc = "grant"
    BY <1>5, <1>6 DEF ClustersIInv, ClusterQueues
  <2> QED BY <2>1, <2>2, <2>3 DEF ClustersIInv, ClusterQueues
<1>13. ClusterNodes'
  <2>1. \A i \in 2 .. Len(queue) : me'[queue[i]].pred = me'[queue[i - 1]].node
    BY <1>4, <1>8 DEF ClustersIInv, ClusterNodes
  <2>2. queue # <<>> => shared.mGlobalTail = me'[queue[Len(queue)]].node
    <3>1. queue # <<>> => Len(queue) \in 1 .. Len(queue)
      BY ONLY <1>1, <1>10
    <3> QED BY <1>4, <3>1 DEF ClustersIInv, ClusterNodes
  <2>3. ASSUME NEW c \in Clusters!Clusters
        PROVE  /\ \A i \in 2 .. Len(shared.order[c]) :
                    me'[shared.order[c][i]].pred = me'[shared.order[c][i - 1]].node
               /\ shared.order[c] # <<>> =>
                    shared.mLocalTails[c] = me'[shared.order[c][Len(shared.order[c])]].node
    <3>1. \A i \in 1 .. Len(shared.order[c]) :
            me'[shared.order[c][i]].node = me[shared.order[c][i]].node
      BY ONLY <1>1, <1>7
    <3>2. shared.order[c] # <<>> => Len(shared.order[c]) \in 1 .. Len(shared.order[c])
      BY ONLY <1>1, SMTT(30)
    <3>3. ASSUME NEW i \in 2 .. Len(shared.order[c])
          PROVE  me'[shared.order[c][i]].pred = me'[shared.order[c][i - 1]].node
      <4>1. i \in 1 .. Len(shared.order[c]) /\ i - 1 \in 1 .. Len(shared.order[c]) /\ i # 1
        BY ONLY <1>6
      <4>2. me'[shared.order[c][i]] = me[shared.order[c][i]]
        BY ONLY <1>5, <4>1
      <4>3. me'[shared.order[c][i - 1]].node = me[shared.order[c][i - 1]].node
        BY ONLY <3>1, <4>1
      <4> QED BY <4>2, <4>3 DEF ClustersIInv, ClusterNodes
    <3>4. shared.order[c] # <<>> =>
            shared.mLocalTails[c] = me'[shared.order[c][Len(shared.order[c])]].node
      BY <3>1, <3>2 DEF ClustersIInv, ClusterNodes
    <3> QED BY ONLY <3>3, <3>4
  <2>4. ASSUME NEW u \in QueueThreads, me'[u].pc = "splice"
        PROVE  \E i \in 1 .. Len(shared.order[Cluster[u]]) :
                 me'[u].tail = me'[shared.order[Cluster[u]][i]].node
    <3>1. Cluster[u] \in Clusters!Clusters
      BY ClusterTypes DEF ClustersIInv
    <3>2. \A i \in 1 .. Len(shared.order[Cluster[u]]) :
            me'[shared.order[Cluster[u]][i]].node = me[shared.order[Cluster[u]][i]].node
      BY ONLY <1>1, <1>7, <3>1
    <3>3. CASE u = t
      <4>1. Len(shared.order[d]) \in 1 .. Len(shared.order[d])
        BY <1>1
      <4>2. me'[u].tail = shared.mLocalTails[d] /\ Cluster[u] = d /\ shared.order[d] # <<>>
        BY <2>4, <3>3
      <4>3. \A c \in Clusters!Clusters : shared.order[c] # <<>> =>
              shared.mLocalTails[c] = me[shared.order[c][Len(shared.order[c])]].node
        BY ONLY ClustersIInv, Zenon DEF ClustersIInv, ClusterNodes
      <4> HIDE DEF d
      <4> QED BY ONLY <3>1, <3>2, <4>1, <4>2, <4>3
    <3>4. CASE u # t
      <4>1. me'[u] = me[u]
        BY <3>4
      <4> QED BY <2>4, <3>2, <4>1 DEF ClustersIInv, ClusterNodes
    <3> QED BY ONLY <3>3, <3>4
  <2> QED BY <1>7, <1>11, <2>1, <2>2, <2>3, <2>4 DEF ClustersIInv, ClusterNodes
<1>14. ClusterWords'
  <2>1. \A i \in 2 .. Len(queue) :
          me'[queue[i]].pc = "grant" => /\ Cluster[queue[i - 1]] = Cluster[queue[i]]
                                        /\ ~shared.mState[me'[queue[i - 1]].node].tailWhenSpliced
    BY <1>4, <1>8 DEF ClustersIInv, ClusterWords
  <2>2. \A u \in QueueThreads :
          LET w == shared.mState[me'[u].node]
          IN  w.cluster = Cluster[u] /\ w.successorMustWait /\ (w.tailWhenSpliced => Spliced(u)')
    BY <1>7, <1>9 DEF ClustersIInv, ClusterWords
  <2>3. LET w == shared.mState[Spare']
        IN  IF queue # <<>> /\ me'[queue[1]].pc = "release"
            THEN w = Clusters!Fresh(queue[1])
            ELSE /\ ~w.successorMustWait
                 /\ queue # <<>> /\ me'[queue[1]].pc = "grant" =>
                      w.cluster = Cluster[queue[1]] /\ ~w.tailWhenSpliced
    BY <1>10, <1>11 DEF ClustersIInv, ClusterWords
  <2> QED BY <2>1, <2>2, <2>3 DEF ClusterWords
<1>15. ClusterMarks'
  <2> SUFFICES ASSUME NEW m \in QueueThreads, me'[m].pc = "mark"
               PROVE  \E i, j \in 1 .. Len(queue) :
                        /\ i <= j /\ queue[i] = m /\ me'[m].tail = me'[queue[j]].node
                        /\ j < Len(queue) => me'[queue[j + 1]].pc # "grant"
    BY DEF ClusterMarks
  <2>1. m # t /\ me'[m] = me[m]
    OBVIOUS
  <2>2. PICK i \in 1 .. Len(queue), j \in 1 .. Len(queue) :
          /\ i <= j /\ queue[i] = m /\ me[m].tail = me[queue[j]].node
          /\ j < Len(queue) => me[queue[j + 1]].pc # "grant"
    BY <2>1 DEF ClustersIInv, ClusterMarks
  <2>3. j < Len(queue) => j + 1 \in 1 .. Len(queue)
    BY ONLY <1>1
  <2> QED BY ONLY <1>4, <2>1, <2>2, <2>3
<1>16. ASSUME NEW c \in Clusters!Clusters, NEW n, Boundary(c, n) PROVE Boundary(c, n)'
  <2>1. Marked(n) => Marked(n)'
    BY <1>3 DEF Marked
  <2> QED BY <1>4, <1>16, <2>1 DEF Boundary
<1>17. ClusterBoundaries'
  <2> SUFFICES ASSUME NEW c \in Clusters!Clusters
               PROVE  /\ shared.order[c] = <<>> /\ shared.mLocalTails[c] # Null =>
                           Boundary(c, shared.mLocalTails[c])'
                      /\ shared.order[c] # <<>> /\ me'[shared.order[c][1]].pc = "grant" =>
                           Boundary(c, me[shared.order[c][1]].pred)'
    BY DEF ClusterBoundaries
  <2>1. CASE c = d
    BY <2>1
  <2>2. CASE c # d
    <3>1. shared.order[c] # <<>> => me'[shared.order[c][1]] = me[shared.order[c][1]]
      <4>1. shared.order[c] # <<>> => 1 \in 1 .. Len(shared.order[c])
        BY ONLY <1>1
      <4> QED BY ONLY <1>5, <2>2, <4>1
    <3>2. shared.order[c] = <<>> /\ shared.mLocalTails[c] # Null => Boundary(c, shared.mLocalTails[c])'
      <4> DEFINE n == shared.mLocalTails[c]
      <4>1. shared.order[c] = <<>> /\ n # Null => Boundary(c, n)
        BY DEF ClustersIInv, ClusterBoundaries
      <4> QED BY <1>16, <4>1
    <3> QED BY <1>16, <3>1 DEF ClustersIInv, ClusterBoundaries
  <2> QED BY ONLY <2>1, <2>2
<1>18. Clusters!Inside' = Clusters!Inside
  BY <1>3 DEF Clusters!Inside
<1> QED BY <1>12, <1>13, <1>14, <1>15, <1>17, <1>18 DEF ClustersIInv

(* A spliced thread takes a step in which no thread joins, moves or leaves.  *)
LEMMA ClusterStays ==
  ASSUME ClustersIInv, NEW t \in QueueThreads, Spliced(t),
         me'[t].pc = "spin" \/ (me'[t].pc \in {"in", "release"} /\ queue[1] = t),
         me'[t].node = me[t].node, me'[t].pred = me[t].pred,
         \A u \in QueueThreads : u # t => me'[u] = me[u],
         Clusters!TypeOK', queue' = queue, shared'.order = shared.order,
         shared'.mGlobalTail = shared.mGlobalTail, shared'.mLocalTails = shared.mLocalTails,
         ClusterWords',
         \A n \in Clusters!Nodes :
           (\E u \in QueueThreads : me[u].node = n) /\ Marked(n) => Marked(n)',
         \A c \in Clusters!Clusters, n \in Clusters!Nodes :
           /\ \A k \in 1 .. Len(queue) : Cluster[queue[k]] # c
           /\ shared.mState[n].tailWhenSpliced \/ shared.mState[n].cluster # c
           => shared'.mState[n].tailWhenSpliced \/ shared'.mState[n].cluster # c
  PROVE  ClustersIInv'
<1>1. /\ Len(queue) \in Nat /\ (queue = <<>> <=> Len(queue) = 0)
      /\ \A i \in 1 .. Len(queue) : queue[i] \in QueueThreads
      /\ \A c \in Clusters!Clusters : /\ Len(shared.order[c]) \in Nat
                                      /\ shared.order[c] = <<>> <=> Len(shared.order[c]) = 0
                                      /\ \A i \in 1 .. Len(shared.order[c]) :
                                           shared.order[c][i] \in QueueThreads
      /\ \A u \in QueueThreads : Cluster[u] \in Clusters!Clusters /\ me[u].node \in Clusters!Nodes
  BY ClusterTypes DEF ClustersIInv
<1>2. ~Local(t)
  BY DEF ClustersIInv, ClusterQueues
<1>3. ASSUME NEW c \in Clusters!Clusters, NEW i \in 1 .. Len(shared.order[c])
      PROVE  /\ shared.order[c][i] \in QueueThreads
             /\ me'[shared.order[c][i]] = me[shared.order[c][i]]
  <2>1. Cluster[shared.order[c][i]] = c
    BY DEF ClustersIInv, ClusterQueues
  <2>2. shared.order[c][i] # t
    BY ONLY <1>2, <2>1 DEF Local, Contains
  <2> QED BY <1>1, <2>2
<1>4. ASSUME NEW i \in 2 .. Len(queue)
      PROVE  /\ i \in 1 .. Len(queue) /\ i - 1 \in 1 .. Len(queue) /\ queue[i] \in QueueThreads
             /\ me'[queue[i]] = me[queue[i]] \/ (queue[i] = t /\ me'[t].pc = "spin")
  <2>1. i \in 1 .. Len(queue) /\ i - 1 \in 1 .. Len(queue) /\ i # 1 /\ 1 \in 1 .. Len(queue)
    BY ONLY <1>1
  <2>2. queue[i] # queue[1]
    BY <2>1 DEF ClustersIInv, ClusterQueues, Distinct
  <2> QED BY <1>1, <2>1, <2>2
<1>5. \A u \in QueueThreads : /\ me'[u].node = me[u].node /\ me'[u].pred = me[u].pred
                              /\ me'[u].pc = "grant" => me[u].pc = "grant"
                              /\ me'[u].pc = "mark" => me'[u] = me[u]
                              /\ me'[u].pc = "splice" => me'[u] = me[u]
  OBVIOUS
<1>6. \A u \in QueueThreads : (Spliced(u)' <=> Spliced(u)) /\ (Local(u)' <=> Local(u))
  BY DEF Spliced, Local
<1>7. Spare' = Spare
  <2>1. queue # <<>> => 1 \in 1 .. Len(queue)
    BY ONLY <1>1
  <2> QED BY <1>1, <1>5, <2>1 DEF Spare
<1>8. ClusterQueues'
  <2>1. \A u \in QueueThreads :
          /\ Spliced(u)' => me'[u].pc \in {"grant", "mark", "spin", "in", "release"} /\ ~Local(u)'
          /\ Local(u)' => me'[u].pc \in {"grant", "load", "tail", "splice"}
          /\ me'[u].pc = "out" \/ Spliced(u)' \/ Local(u)'
    BY <1>2, <1>6 DEF ClustersIInv, ClusterQueues
  <2>2. \A i \in 2 .. Len(queue) : me'[queue[i]].pc \in {"grant", "mark", "spin"}
    BY <1>4 DEF ClustersIInv, ClusterQueues
  <2>3. ASSUME NEW c \in Clusters!Clusters, NEW i \in 2 .. Len(shared.order[c])
        PROVE  me'[shared.order[c][i]].pc = "grant"
    <3>1. i \in 1 .. Len(shared.order[c])
      BY ONLY <1>1, SMTT(30)
    <3> QED BY <1>3, <3>1 DEF ClustersIInv, ClusterQueues
  <2> QED BY <2>1, <2>2, <2>3 DEF ClustersIInv, ClusterQueues
<1>9. ClusterNodes'
  <2>1. ASSUME NEW i \in 2 .. Len(queue) PROVE me'[queue[i]].pred = me'[queue[i - 1]].node
    <3>1. queue[i] \in QueueThreads /\ queue[i - 1] \in QueueThreads
      BY ONLY <1>1, <1>4, SMTT(30)
    <3> QED BY <1>5, <3>1 DEF ClustersIInv, ClusterNodes
  <2>2. queue # <<>> => shared.mGlobalTail = me'[queue[Len(queue)]].node
    <3>1. queue # <<>> => Len(queue) \in 1 .. Len(queue)
      BY ONLY <1>1, SMTT(30)
    <3> QED BY <1>1, <1>5, <3>1 DEF ClustersIInv, ClusterNodes
  <2>3. ASSUME NEW c \in Clusters!Clusters, NEW i \in 2 .. Len(shared.order[c])
        PROVE  me'[shared.order[c][i]].pred = me'[shared.order[c][i - 1]].node
    <3>1. i \in 1 .. Len(shared.order[c]) /\ i - 1 \in 1 .. Len(shared.order[c])
      BY ONLY <1>1
    <3> QED BY <1>3, <3>1 DEF ClustersIInv, ClusterNodes
  <2>4. ASSUME NEW c \in Clusters!Clusters, shared.order[c] # <<>>
        PROVE  shared.mLocalTails[c] = me'[shared.order[c][Len(shared.order[c])]].node
    <3>1. Len(shared.order[c]) \in 1 .. Len(shared.order[c])
      BY ONLY <1>1, <2>4
    <3> QED BY <1>3, <2>4, <3>1 DEF ClustersIInv, ClusterNodes
  <2>5. ASSUME NEW u \in QueueThreads, me'[u].pc = "splice"
        PROVE  \E i \in 1 .. Len(shared.order[Cluster[u]]) :
                 me'[u].tail = me'[shared.order[Cluster[u]][i]].node
    <3>1. PICK i \in 1 .. Len(shared.order[Cluster[u]]) :
            me[u].tail = me[shared.order[Cluster[u]][i]].node
      BY <1>5, <2>5 DEF ClustersIInv, ClusterNodes
    <3>2. me'[shared.order[Cluster[u]][i]] = me[shared.order[Cluster[u]][i]]
      BY ONLY <1>1, <1>3
    <3> QED BY ONLY <1>5, <2>5, <3>1, <3>2
  <2> QED BY <1>5, <1>7, <2>1, <2>2, <2>3, <2>4, <2>5 DEF ClustersIInv, ClusterNodes
<1>10. ClusterMarks'
  <2> SUFFICES ASSUME NEW m \in QueueThreads, me'[m].pc = "mark"
               PROVE  \E i, j \in 1 .. Len(queue) :
                        /\ i <= j /\ queue[i] = m /\ me'[m].tail = me'[queue[j]].node
                        /\ j < Len(queue) => me'[queue[j + 1]].pc # "grant"
    BY DEF ClusterMarks
  <2>1. me'[m] = me[m]
    BY <1>5
  <2>2. PICK i \in 1 .. Len(queue), j \in 1 .. Len(queue) :
          /\ i <= j /\ queue[i] = m /\ me[m].tail = me[queue[j]].node
          /\ j < Len(queue) => me[queue[j + 1]].pc # "grant"
    BY <2>1 DEF ClustersIInv, ClusterMarks
  <2>3. j < Len(queue) => j + 1 \in 1 .. Len(queue)
    BY ONLY <1>1
  <2> QED BY ONLY <1>1, <1>5, <2>1, <2>2, <2>3, SMTT(30)
<1>11. ASSUME NEW c \in Clusters!Clusters, NEW n \in Clusters!Nodes, Boundary(c, n)
       PROVE  Boundary(c, n)'
  <2>1. \A j \in 1 .. Len(queue) : me'[queue[j]].node = me[queue[j]].node
    BY ONLY <1>1, <1>5
  <2>2. CASE \E j \in 1 .. Len(queue) :
               /\ me[queue[j]].node = n /\ Cluster[queue[j]] = c /\ Marked(n)
               /\ \A k \in 1 .. Len(queue) : k > j => Cluster[queue[k]] # c
    <3>1. Marked(n)'
      BY <1>1, <2>2
    <3> QED BY <2>1, <2>2, <3>1 DEF Boundary
  <2>3. CASE /\ \A k \in 1 .. Len(queue) : Cluster[queue[k]] # c
             /\ shared.mState[n].tailWhenSpliced \/ shared.mState[n].cluster # c
    BY <2>3 DEF Boundary
  <2> QED BY ONLY <1>11, <2>2, <2>3 DEF Boundary
<1>12. ClusterBoundaries'
  <2> SUFFICES ASSUME NEW c \in Clusters!Clusters
               PROVE  /\ shared.order[c] = <<>> /\ shared.mLocalTails[c] # Null =>
                           Boundary(c, shared.mLocalTails[c])'
                      /\ shared.order[c] # <<>> /\ me'[shared.order[c][1]].pc = "grant" =>
                           Boundary(c, me[shared.order[c][1]].pred)'
    BY DEF ClusterBoundaries
  <2>1. shared.order[c] = <<>> /\ shared.mLocalTails[c] # Null => Boundary(c, shared.mLocalTails[c])'
    <3> DEFINE n == shared.mLocalTails[c]
    <3>1. shared.order[c] = <<>> /\ n # Null => Boundary(c, n) /\ n \in Clusters!Nodes
      BY ClusterTypes DEF ClustersIInv, ClusterBoundaries
    <3> QED BY <1>11, <3>1
  <2>2. ASSUME shared.order[c] # <<>>, me'[shared.order[c][1]].pc = "grant"
        PROVE  Boundary(c, me[shared.order[c][1]].pred)'
    <3> DEFINE n == me[shared.order[c][1]].pred
    <3>1. me'[shared.order[c][1]] = me[shared.order[c][1]]
      BY ONLY <1>1, <1>3, <2>2
    <3>2. Boundary(c, n)
      BY <2>2, <3>1 DEF ClustersIInv, ClusterBoundaries
    <3>3. n \in Clusters!Nodes
      <4>1. CASE \E j \in 1 .. Len(queue) : me[queue[j]].node = n
        BY ONLY <1>1, <4>1
      <4> QED BY ONLY <3>2, <4>1, Zenon DEF Boundary
    <3> QED BY <1>11, <3>1, <3>2, <3>3
  <2> QED BY ONLY <2>1, <2>2
<1> QED BY <1>8, <1>9, <1>10, <1>12 DEF ClustersIInv

(* The first in the queue enters.                                          *)
LEMMA ClusterEnters ==
  ASSUME ClustersIInv, NEW t \in QueueThreads, queue # <<>>, queue[1] = t,
         me[t].pc \in {"grant", "spin"},
         me'[t].pc = "in", me'[t].node = me[t].node, me'[t].pred = me[t].pred,
         \A u \in QueueThreads : u # t => me'[u] = me[u],
         Clusters!TypeOK', UNCHANGED <<shared, queue>>
  PROVE  /\ ClustersIInv'
         /\ t \notin Clusters!Inside /\ Clusters!Inside' = Clusters!Inside \cup {t}
<1>1. /\ Len(queue) \in Nat /\ (queue = <<>> <=> Len(queue) = 0)
      /\ \A i \in 1 .. Len(queue) : queue[i] \in QueueThreads
  BY ClusterTypes DEF ClustersIInv
<1>2. 1 \in 1 .. Len(queue) /\ Spliced(t)
  BY <1>1 DEF Spliced, Contains
<1>3. ClusterWords'
  <2>1. \A u \in QueueThreads : me'[u].node = me[u].node
    OBVIOUS
  <2>2. \A u \in QueueThreads :
          LET w == shared.mState[me'[u].node]
          IN  w.cluster = Cluster[u] /\ w.successorMustWait /\ (w.tailWhenSpliced => Spliced(u)')
    BY <2>1 DEF ClustersIInv, ClusterWords, Spliced
  <2>3. ASSUME NEW i \in 2 .. Len(queue), me'[queue[i]].pc = "grant"
        PROVE  /\ Cluster[queue[i - 1]] = Cluster[queue[i]]
               /\ ~shared.mState[me'[queue[i - 1]].node].tailWhenSpliced
    <3>1. i \in 1 .. Len(queue) /\ i - 1 \in 1 .. Len(queue)
      BY ONLY <1>1
    <3>2. queue[i] \in QueueThreads /\ queue[i - 1] \in QueueThreads /\ me[queue[i]].pc = "grant"
      BY <1>1, <2>3, <3>1
    <3> QED BY <2>1, <3>2 DEF ClustersIInv, ClusterWords
  <2>4. Spare' = Spare /\ ~shared.mState[Spare].successorMustWait
    BY DEF Spare, ClustersIInv, ClusterWords
  <2> QED BY <2>2, <2>3, <2>4 DEF ClusterWords
<1>4. \A n \in Clusters!Nodes : Marked(n) => Marked(n)'
  BY DEF Marked
<1>5. ClustersIInv'
  BY <1>2, <1>3, <1>4, ClusterStays
<1> QED BY <1>5 DEF Clusters!Inside

(* A master marks the end of what it has spliced.                          *)
LEMMA ClusterMark ==
  ASSUME ClustersIInv, NEW t \in QueueThreads, me[t].pc = "mark",
         me'[t].pc = "spin", me'[t].node = me[t].node, me'[t].pred = me[t].pred,
         \A u \in QueueThreads : u # t => me'[u] = me[u],
         shared' = [shared EXCEPT !.mState[me[t].tail].tailWhenSpliced = TRUE],
         Clusters!TypeOK', queue' = queue
  PROVE  /\ ClustersIInv' /\ Clusters!Inside' = Clusters!Inside
<1>1. /\ Len(queue) \in Nat /\ (queue = <<>> <=> Len(queue) = 0)
      /\ \A i \in 1 .. Len(queue) : queue[i] \in QueueThreads
      /\ \A u \in QueueThreads : me[u].node \in Clusters!Nodes
      /\ shared \in [mLocalTails : [Clusters!Clusters -> Clusters!Nodes \cup {Null}],
                     mGlobalTail : Clusters!Nodes,
                     mState : [Clusters!Nodes -> ClusterWord],
                     order : [Clusters!Clusters -> Seq(QueueThreads)]]
  BY ClusterTypes DEF ClustersIInv
<1>2. PICK i \in 1 .. Len(queue), j \in 1 .. Len(queue) :
        /\ i <= j /\ queue[i] = t /\ me[t].tail = me[queue[j]].node
        /\ j < Len(queue) => me[queue[j + 1]].pc # "grant"
  BY DEF ClustersIInv, ClusterMarks
<1> DEFINE n == me[queue[j]].node
           state == shared.mState
           state2 == shared'.mState
<1>3. /\ shared'.order = shared.order /\ shared'.mGlobalTail = shared.mGlobalTail
      /\ shared'.mLocalTails = shared.mLocalTails
      /\ state2 = [state EXCEPT ![n].tailWhenSpliced = TRUE]
  BY <1>1, <1>2
<1>4. n \in Clusters!Nodes /\ state \in [Clusters!Nodes -> ClusterWord]
  BY ONLY <1>1
<1> HIDE DEF state, state2
<1>5. \A m \in Clusters!Nodes :
        /\ state2[m].cluster = state[m].cluster
        /\ state2[m].successorMustWait = state[m].successorMustWait
        /\ state2[m].tailWhenSpliced <=> state[m].tailWhenSpliced \/ m = n
        /\ m # n => state2[m] = state[m]
  BY ONLY <1>3, <1>4 DEF ClusterWord
<1>6. Spliced(t)
  BY ONLY <1>2 DEF Spliced, Contains
<1>7. Spliced(queue[j])
  BY DEF Spliced, Contains
<1>8. \A u \in QueueThreads : me'[u].node = me[u].node /\ (me'[u].pc = "grant" => me[u].pc = "grant")
  OBVIOUS
<1>9. ClusterWords'
  <2>1. ASSUME NEW u \in QueueThreads
        PROVE  LET w == state2[me'[u].node]
               IN  w.cluster = Cluster[u] /\ w.successorMustWait /\ (w.tailWhenSpliced => Spliced(u)')
    <3>1. /\ state[me[u].node].cluster = Cluster[u] /\ state[me[u].node].successorMustWait
          /\ state[me[u].node].tailWhenSpliced => Spliced(u)
      BY DEF ClustersIInv, ClusterWords, state
    <3>2. me[u].node = n => u = queue[j]
      BY <1>1 DEF ClustersIInv, ClusterNodes
    <3>3. Spliced(u)' <=> Spliced(u)
      BY DEF Spliced
    <3> QED BY ONLY <1>1, <1>5, <1>7, <1>8, <3>1, <3>2, <3>3
  <2>2. ASSUME NEW k \in 2 .. Len(queue), me'[queue[k]].pc = "grant"
        PROVE  /\ Cluster[queue[k - 1]] = Cluster[queue[k]]
               /\ ~state2[me'[queue[k - 1]].node].tailWhenSpliced
    <3>1. k \in 1 .. Len(queue) /\ k - 1 \in 1 .. Len(queue) /\ k - 1 + 1 = k /\ k - 1 < Len(queue)
      BY ONLY <1>1
    <3>2. queue[k] \in QueueThreads /\ queue[k - 1] \in QueueThreads /\ me[queue[k]].pc = "grant"
      BY ONLY <1>1, <1>8, <2>2, <3>1, SMTT(30)
    <3>3. Cluster[queue[k - 1]] = Cluster[queue[k]] /\ ~state[me[queue[k - 1]].node].tailWhenSpliced
      BY <3>2 DEF ClustersIInv, ClusterWords, state
    <3>4. k - 1 # j
      BY ONLY <1>2, <3>1, <3>2, SMTT(30)
    <3>5. me[queue[k - 1]].node # n
      BY <1>1, <3>1, <3>2, <3>4 DEF ClustersIInv, ClusterNodes, ClusterQueues, Distinct
    <3> QED BY ONLY <1>1, <1>5, <1>8, <3>2, <3>3, <3>5
  <2>3. Spare' = Spare /\ Spare \in Clusters!Nodes /\ Spare # n
    <3>1. Spare \in Clusters!Nodes /\ Spare # n
      BY <1>1 DEF ClustersIInv, ClusterNodes
    <3>2. queue # <<>> => queue[1] \in QueueThreads
      BY ONLY <1>1
    <3>3. Spare' = Spare
      BY <1>3, <3>2 DEF Spare
    <3> QED BY ONLY <3>1, <3>3
  <2>4. queue # <<>> => /\ me'[queue[1]].pc = "release" <=> me[queue[1]].pc = "release"
                        /\ me'[queue[1]].pc = "grant" <=> me[queue[1]].pc = "grant"
    <3>1. queue # <<>> => queue[1] \in QueueThreads
      BY ONLY <1>1
    <3> QED BY <3>1
  <2>5. LET w == state2[Spare']
        IN  IF queue # <<>> /\ me'[queue[1]].pc = "release"
            THEN w = Clusters!Fresh(queue[1])
            ELSE /\ ~w.successorMustWait
                 /\ queue # <<>> /\ me'[queue[1]].pc = "grant" =>
                      w.cluster = Cluster[queue[1]] /\ ~w.tailWhenSpliced
    BY <1>5, <2>3, <2>4 DEF ClustersIInv, ClusterWords, state
  <2> QED BY <2>1, <2>2, <2>5 DEF ClusterWords, state2
<1>10. \A m \in Clusters!Nodes : Marked(m) => Marked(m)'
  <2> SUFFICES ASSUME NEW m \in Clusters!Nodes, Marked(m) PROVE Marked(m)'
    OBVIOUS
  <2>1. CASE state2[m].tailWhenSpliced
    BY ONLY <2>1 DEF Marked, state2
  <2>2. CASE ~state2[m].tailWhenSpliced
    <3>1. ~state[m].tailWhenSpliced /\ m # me[t].tail
      BY ONLY <1>2, <1>5, <2>2
    <3>2. PICK u \in QueueThreads : me[u].pc = "mark" /\ me[u].tail = m
      BY <3>1 DEF Marked, state
    <3>3. me'[u] = me[u]
      BY <3>1, <3>2
    <3> QED BY ONLY <3>2, <3>3, SMTT(30) DEF Marked
  <2> QED BY ONLY <2>1, <2>2
<1>11. \A m \in Clusters!Nodes : \A c \in Clusters!Clusters :
         state[m].tailWhenSpliced \/ state[m].cluster # c =>
           state2[m].tailWhenSpliced \/ state2[m].cluster # c
  BY ONLY <1>5, SMTT(30)
<1>12. ClustersIInv'
  BY <1>3, <1>6, <1>9, <1>10, <1>11, ClusterStays DEF state, state2
<1> QED BY <1>12 DEF Clusters!Inside

(* Whoever is inside takes the node before over.                           *)
LEMMA ClusterUnlock ==
  ASSUME ClustersIInv, NEW t \in QueueThreads, me[t].pc = "in",
         me'[t].pc = "release", me'[t].node = me[t].node, me'[t].pred = me[t].pred,
         \A u \in QueueThreads : u # t => me'[u] = me[u],
         shared' = [shared EXCEPT !.mState[me[t].pred] = Clusters!Fresh(t)],
         Clusters!TypeOK', queue' = queue
  PROVE  /\ ClustersIInv' /\ Clusters!Inside' = Clusters!Inside
<1>1. /\ Len(queue) \in Nat /\ (queue = <<>> <=> Len(queue) = 0)
      /\ \A i \in 1 .. Len(queue) : queue[i] \in QueueThreads
      /\ \A u \in QueueThreads : me[u].node \in Clusters!Nodes
      /\ shared \in [mLocalTails : [Clusters!Clusters -> Clusters!Nodes \cup {Null}],
                     mGlobalTail : Clusters!Nodes,
                     mState : [Clusters!Nodes -> ClusterWord],
                     order : [Clusters!Clusters -> Seq(QueueThreads)]]
  BY ClusterTypes DEF ClustersIInv
<1>2. queue # <<>> /\ queue[1] = t /\ 1 \in 1 .. Len(queue)
  <2>1. queue # <<>> /\ queue[1] = t
    BY ClusterHeads
  <2> QED BY ONLY <1>1, <2>1
<1> DEFINE n == me[t].pred
           state == shared.mState
           state2 == shared'.mState
<1>3. n = Spare /\ n \in Clusters!Nodes /\ \A u \in QueueThreads : me[u].node # n
  BY <1>2 DEF Spare, ClustersIInv, ClusterNodes
<1>4. /\ shared'.order = shared.order /\ shared'.mGlobalTail = shared.mGlobalTail
      /\ shared'.mLocalTails = shared.mLocalTails
      /\ state2 = [state EXCEPT ![n] = Clusters!Fresh(t)]
  BY <1>1
<1>5. state \in [Clusters!Nodes -> ClusterWord]
  BY ONLY <1>1
<1> HIDE DEF state, state2
<1>6. /\ state2[n] = Clusters!Fresh(t)
      /\ \A m \in Clusters!Nodes : m # n => state2[m] = state[m]
  BY ONLY <1>3, <1>4, <1>5
<1>7. Spliced(t)
  BY ONLY <1>2 DEF Spliced, Contains
<1>8. \A u \in QueueThreads : me'[u].node = me[u].node /\ (me'[u].pc = "grant" => me[u].pc = "grant")
  OBVIOUS
<1>9. ClusterWords'
  <2>1. ASSUME NEW u \in QueueThreads
        PROVE  LET w == state2[me'[u].node]
               IN  w.cluster = Cluster[u] /\ w.successorMustWait /\ (w.tailWhenSpliced => Spliced(u)')
    <3>1. /\ state[me[u].node].cluster = Cluster[u] /\ state[me[u].node].successorMustWait
          /\ state[me[u].node].tailWhenSpliced => Spliced(u)
      BY DEF ClustersIInv, ClusterWords, state
    <3>2. Spliced(u)' <=> Spliced(u)
      BY DEF Spliced
    <3> QED BY ONLY <1>1, <1>3, <1>6, <1>8, <3>1, <3>2
  <2>2. ASSUME NEW k \in 2 .. Len(queue), me'[queue[k]].pc = "grant"
        PROVE  /\ Cluster[queue[k - 1]] = Cluster[queue[k]]
               /\ ~state2[me'[queue[k - 1]].node].tailWhenSpliced
    <3>1. k \in 1 .. Len(queue) /\ k - 1 \in 1 .. Len(queue)
      BY ONLY <1>1
    <3>2. queue[k] \in QueueThreads /\ queue[k - 1] \in QueueThreads /\ me[queue[k]].pc = "grant"
      BY ONLY <1>1, <1>8, <2>2, <3>1, SMTT(30)
    <3>3. Cluster[queue[k - 1]] = Cluster[queue[k]] /\ ~state[me[queue[k - 1]].node].tailWhenSpliced
      BY <3>2 DEF ClustersIInv, ClusterWords, state
    <3> QED BY ONLY <1>1, <1>3, <1>6, <1>8, <3>2, <3>3
  <2>3. Spare' = n
    BY <1>2, <1>3 DEF Spare
  <2> QED BY <1>2, <1>6, <2>1, <2>2, <2>3 DEF ClusterWords, state2
<1>10. \A m \in Clusters!Nodes :
         (\E u \in QueueThreads : me[u].node = m) /\ Marked(m) => Marked(m)'
  <2> SUFFICES ASSUME NEW m \in Clusters!Nodes, NEW u \in QueueThreads, me[u].node = m, Marked(m)
               PROVE  Marked(m)'
    OBVIOUS
  <2>1. state2[m] = state[m]
    BY <1>3, <1>6
  <2>2. \A v \in QueueThreads : me[v].pc = "mark" => me'[v] = me[v]
    OBVIOUS
  <2> QED BY <2>1, <2>2 DEF Marked, state, state2
<1>11. ASSUME NEW m \in Clusters!Nodes, NEW c \in Clusters!Clusters,
              \A k \in 1 .. Len(queue) : Cluster[queue[k]] # c,
              state[m].tailWhenSpliced \/ state[m].cluster # c
       PROVE  state2[m].tailWhenSpliced \/ state2[m].cluster # c
  <2>1. Cluster[t] # c
    BY ONLY <1>2, <1>11
  <2>2. Clusters!Fresh(t).cluster = Cluster[t]
    BY DEF Clusters!Fresh, Clusters!Word
  <2> QED BY ONLY <1>6, <1>11, <2>1, <2>2
<1>12. ClustersIInv'
  BY <1>2, <1>4, <1>7, <1>9, <1>10, <1>11, ClusterStays DEF state, state2
<1>13. Clusters!Inside' = Clusters!Inside
  BY DEF Clusters!Inside
<1> QED BY ONLY <1>12, <1>13

(* The old node lets the next thread in.                                   *)
LEMMA ClusterRelease ==
  ASSUME ClustersIInv, NEW t \in QueueThreads, me[t].pc = "release",
         me'[t].pc = "out", me'[t].node = me[t].pred,
         \A u \in QueueThreads : u # t => me'[u] = me[u],
         shared' = [shared EXCEPT !.mState[me[t].node].successorMustWait = FALSE],
         Clusters!TypeOK', queue' = Tail(queue)
  PROVE  /\ ClustersIInv'
         /\ t \in Clusters!Inside /\ Clusters!Inside' = Clusters!Inside \ {t}
<1>1. /\ queue \in Seq(QueueThreads) /\ Len(queue) \in Nat /\ (queue = <<>> <=> Len(queue) = 0)
      /\ \A i \in 1 .. Len(queue) : queue[i] \in QueueThreads
  BY ClusterTypes DEF ClustersIInv
<1>2. /\ \A u \in QueueThreads : me[u].node \in Clusters!Nodes
      /\ shared \in [mLocalTails : [Clusters!Clusters -> Clusters!Nodes \cup {Null}],
                     mGlobalTail : Clusters!Nodes,
                     mState : [Clusters!Nodes -> ClusterWord],
                     order : [Clusters!Clusters -> Seq(QueueThreads)]]
  BY ClusterTypes DEF ClustersIInv
<1>3. \A c \in Clusters!Clusters : /\ Len(shared.order[c]) \in Nat
                                   /\ shared.order[c] = <<>> <=> Len(shared.order[c]) = 0
                                   /\ \A i \in 1 .. Len(shared.order[c]) :
                                        shared.order[c][i] \in QueueThreads
  BY ClusterTypes DEF ClustersIInv
<1>4. queue # <<>> /\ queue[1] = t
  BY ClusterHeads
<1>5. Distinct(queue)
  BY DEF ClustersIInv, ClusterQueues
<1>6. /\ Len(queue) \in Nat \ {0} /\ Len(queue') = Len(queue) - 1 /\ Distinct(queue')
      /\ \A i \in 1 .. Len(queue) - 1 : queue'[i] = queue[i + 1]
      /\ \A u : Contains(queue', u) <=> Contains(queue, u) /\ u # t
      /\ queue' \in Seq(QueueThreads)
  BY <1>1, <1>4, <1>5, LeaveQueue
<1>7. ASSUME NEW i \in 1 .. Len(queue')
      PROVE  /\ i + 1 \in 2 .. Len(queue) /\ i + 1 \in 1 .. Len(queue) /\ queue'[i] = queue[i + 1]
             /\ queue'[i] \in QueueThreads /\ queue'[i] # t /\ me'[queue'[i]] = me[queue[i + 1]]
  <2>1. /\ i + 1 \in 2 .. Len(queue) /\ i + 1 \in 1 .. Len(queue) /\ 1 \in 1 .. Len(queue)
        /\ i + 1 # 1 /\ queue'[i] = queue[i + 1]
    BY ONLY <1>6
  <2>2. queue[i + 1] # queue[1] /\ queue[i + 1] \in QueueThreads
    BY ONLY <1>1, <1>5, <2>1 DEF Distinct
  <2> QED BY <1>4, <2>1, <2>2
<1> DEFINE n == me[t].node
           state == shared.mState
           state2 == shared'.mState
<1>8. Spare = me[t].pred
  BY ONLY <1>4 DEF Spare
<1>9. /\ Spare \in Clusters!Nodes /\ \A u \in QueueThreads : me[u].node # Spare
      /\ \A u \in QueueThreads : me[u].node = n => u = t
  BY DEF ClustersIInv, ClusterNodes
<1>10. /\ shared'.order = shared.order /\ shared'.mGlobalTail = shared.mGlobalTail
       /\ shared'.mLocalTails = shared.mLocalTails
       /\ state2 = [state EXCEPT ![n].successorMustWait = FALSE]
  BY <1>2
<1>11. state \in [Clusters!Nodes -> ClusterWord] /\ n \in Clusters!Nodes
  BY ONLY <1>2
<1> HIDE DEF state, state2
<1>12. \A m \in Clusters!Nodes :
         /\ state2[m].cluster = state[m].cluster
         /\ state2[m].tailWhenSpliced <=> state[m].tailWhenSpliced
         /\ m = n => ~state2[m].successorMustWait
         /\ m # n => state2[m] = state[m]
  BY ONLY <1>10, <1>11 DEF ClusterWord
<1>13. Spliced(t) /\ ~Local(t)
  <2>1. 1 \in 1 .. Len(queue)
    BY ONLY <1>6
  <2>2. Spliced(t)
    BY ONLY <1>4, <2>1 DEF Spliced, Contains
  <2> QED BY <2>2 DEF ClustersIInv, ClusterQueues
<1>14. \A u \in QueueThreads : (Local(u)' <=> Local(u)) /\ (Spliced(u)' <=> Spliced(u) /\ u # t)
  BY ONLY <1>6, <1>10 DEF Local, Spliced
<1>15. ASSUME NEW c \in Clusters!Clusters, NEW i \in 1 .. Len(shared.order[c])
       PROVE  /\ shared.order[c][i] \in QueueThreads /\ shared.order[c][i] # t
              /\ me'[shared.order[c][i]] = me[shared.order[c][i]]
  <2>1. Cluster[shared.order[c][i]] = c
    BY DEF ClustersIInv, ClusterQueues
  <2>2. shared.order[c][i] # t
    BY ONLY <1>13, <2>1, SMTT(30) DEF Local, Contains
  <2> QED BY <1>3, <2>2
<1>16. ClusterQueues'
  <2>1. \A u \in QueueThreads :
          /\ Spliced(u)' => me'[u].pc \in {"grant", "mark", "spin", "in", "release"} /\ ~Local(u)'
          /\ Local(u)' => me'[u].pc \in {"grant", "load", "tail", "splice"}
          /\ me'[u].pc = "out" \/ Spliced(u)' \/ Local(u)'
    BY <1>13, <1>14 DEF ClustersIInv, ClusterQueues
  <2>2. ASSUME NEW i \in 2 .. Len(queue') PROVE me'[queue'[i]].pc \in {"grant", "mark", "spin"}
    <3>1. i \in 1 .. Len(queue')
      BY ONLY <1>6
    <3> QED BY <1>7, <3>1 DEF ClustersIInv, ClusterQueues
  <2>3. ASSUME NEW c \in Clusters!Clusters, NEW i \in 2 .. Len(shared.order[c])
        PROVE  me'[shared.order[c][i]].pc = "grant"
    <3>1. i \in 1 .. Len(shared.order[c])
      BY ONLY <1>3
    <3> QED BY <1>15, <3>1 DEF ClustersIInv, ClusterQueues
  <2> QED BY <1>6, <1>10, <2>1, <2>2, <2>3 DEF ClustersIInv, ClusterQueues
<1>17. /\ Spare' = n
       /\ queue' # <<>> => /\ 1 \in 1 .. Len(queue') /\ 2 \in 2 .. Len(queue) /\ 2 - 1 = 1
                           /\ queue'[1] = queue[2] /\ me'[queue'[1]] = me[queue[2]]
  <2>1. CASE queue' = <<>>
    <3>1. Len(queue) = 1
      <4>1. Len(queue') = 0
        BY ONLY <1>6, <2>1, EmptySeq, LenProperties
      <4> QED BY ONLY <1>6, <4>1
    <3>2. shared.mGlobalTail = n
      BY <1>4, <3>1 DEF ClustersIInv, ClusterNodes
    <3> QED BY ONLY <1>10, <2>1, <3>2 DEF Spare
  <2>2. CASE queue' # <<>>
    <3>1. Len(queue') # 0
      BY ONLY <1>6, <2>2, EmptySeq
    <3>2. 1 \in 1 .. Len(queue') /\ 2 \in 2 .. Len(queue) /\ 2 - 1 = 1 /\ 1 + 1 = 2
      BY ONLY <1>6, <3>1
    <3>3. queue'[1] = queue[2] /\ me'[queue'[1]] = me[queue[2]]
      BY ONLY <1>7, <3>2
    <3>4. me[queue[2]].pred = n
      BY <1>4, <3>2 DEF ClustersIInv, ClusterNodes
    <3> QED BY ONLY <2>2, <3>2, <3>3, <3>4 DEF Spare
  <2> QED BY ONLY <2>1, <2>2
<1>18. ClusterNodes'
  <2>1. \A u, v \in QueueThreads : me'[u].node = me'[v].node => u = v
    <3>1. \A u, v \in QueueThreads : me[u].node = me[v].node => u = v
      BY DEF ClustersIInv, ClusterNodes
    <3> QED BY <1>8, <1>9, <3>1
  <2>2. n \in Clusters!Nodes /\ \A u \in QueueThreads : me'[u].node # n
    BY <1>8, <1>9, <1>11
  <2>3. ASSUME NEW i \in 2 .. Len(queue') PROVE me'[queue'[i]].pred = me'[queue'[i - 1]].node
    <3>1. i \in 1 .. Len(queue') /\ i - 1 \in 1 .. Len(queue') /\ i - 1 + 1 = i /\ i + 1 - 1 = i
      BY ONLY <1>6
    <3>2. /\ i + 1 \in 2 .. Len(queue) /\ me'[queue'[i]] = me[queue[i + 1]]
          /\ me'[queue'[i - 1]] = me[queue[i]]
      BY ONLY <1>7, <3>1, SMTT(30)
    <3>3. me[queue[i + 1]].pred = me[queue[i]].node
      BY <3>1, <3>2 DEF ClustersIInv, ClusterNodes
    <3> QED BY ONLY <3>2, <3>3
  <2>4. queue' # <<>> => shared.mGlobalTail = me'[queue'[Len(queue')]].node
    <3>1. queue' # <<>> => Len(queue') \in 1 .. Len(queue') /\ Len(queue') + 1 = Len(queue)
      BY ONLY <1>6, <1>17
    <3>2. queue' # <<>> => me'[queue'[Len(queue')]] = me[queue[Len(queue)]]
      BY ONLY <1>7, <3>1
    <3>3. shared.mGlobalTail = me[queue[Len(queue)]].node
      BY <1>4 DEF ClustersIInv, ClusterNodes
    <3> QED BY ONLY <3>2, <3>3
  <2>5. ASSUME NEW c \in Clusters!Clusters, NEW i \in 2 .. Len(shared.order[c])
        PROVE  me'[shared.order[c][i]].pred = me'[shared.order[c][i - 1]].node
    <3>1. i \in 1 .. Len(shared.order[c]) /\ i - 1 \in 1 .. Len(shared.order[c])
      BY ONLY <1>3
    <3> QED BY <1>15, <3>1 DEF ClustersIInv, ClusterNodes
  <2>6. ASSUME NEW c \in Clusters!Clusters, shared.order[c] # <<>>
        PROVE  shared.mLocalTails[c] = me'[shared.order[c][Len(shared.order[c])]].node
    <3>1. Len(shared.order[c]) \in 1 .. Len(shared.order[c])
      BY ONLY <1>3, <2>6, SMTT(30)
    <3> QED BY <1>15, <2>6, <3>1 DEF ClustersIInv, ClusterNodes
  <2>7. ASSUME NEW u \in QueueThreads, me'[u].pc = "splice"
        PROVE  \E i \in 1 .. Len(shared.order[Cluster[u]]) :
                 me'[u].tail = me'[shared.order[Cluster[u]][i]].node
    <3>1. u # t /\ me'[u] = me[u] /\ Cluster[u] \in Clusters!Clusters
      BY <2>7, ClusterTypes DEF ClustersIInv
    <3>2. PICK i \in 1 .. Len(shared.order[Cluster[u]]) :
            me[u].tail = me[shared.order[Cluster[u]][i]].node
      BY <2>7, <3>1 DEF ClustersIInv, ClusterNodes
    <3>3. me'[shared.order[Cluster[u]][i]] = me[shared.order[Cluster[u]][i]]
      BY ONLY <1>15, <3>1, SMTT(30)
    <3> QED BY ONLY <3>1, <3>2, <3>3
  <2> QED BY ONLY <1>10, <1>17, <2>1, <2>2, <2>3, <2>4, <2>5, <2>6, <2>7, SMTT(30) DEF ClusterNodes
<1>19. ClusterWords'
  <2>1. ASSUME NEW u \in QueueThreads
        PROVE  LET w == state2[me'[u].node]
               IN  w.cluster = Cluster[u] /\ w.successorMustWait /\ (w.tailWhenSpliced => Spliced(u)')
    <3>1. CASE u = t
      <4>1. state[Spare] = Clusters!Fresh(t)
        BY <1>4 DEF ClustersIInv, ClusterWords, state
      <4>2. state2[me'[t].node] = Clusters!Fresh(t)
        BY <1>8, <1>9, <1>12, <4>1
      <4> QED BY ONLY <3>1, <4>2, SMTT(30) DEF Clusters!Fresh, Clusters!Word
    <3>2. CASE u # t
      <4>1. /\ state[me[u].node].cluster = Cluster[u] /\ state[me[u].node].successorMustWait
            /\ state[me[u].node].tailWhenSpliced => Spliced(u)
        BY DEF ClustersIInv, ClusterWords, state
      <4>2. me'[u].node = me[u].node /\ me[u].node # n /\ me[u].node \in Clusters!Nodes
        BY <1>2, <1>9, <3>2
      <4> QED BY ONLY <1>12, <1>14, <3>2, <4>1, <4>2
    <3> QED BY ONLY <3>1, <3>2
  <2>2. ASSUME NEW k \in 2 .. Len(queue'), me'[queue'[k]].pc = "grant"
        PROVE  /\ Cluster[queue'[k - 1]] = Cluster[queue'[k]]
               /\ ~state2[me'[queue'[k - 1]].node].tailWhenSpliced
    <3>1. k \in 1 .. Len(queue') /\ k - 1 \in 1 .. Len(queue') /\ k - 1 + 1 = k /\ k + 1 - 1 = k
      BY ONLY <1>6
    <3>2. /\ k + 1 \in 2 .. Len(queue) /\ me'[queue'[k]] = me[queue[k + 1]]
          /\ queue'[k] = queue[k + 1] /\ queue'[k - 1] = queue[k] /\ queue[k] \in QueueThreads
          /\ me'[queue'[k - 1]] = me[queue[k]]
      BY ONLY <1>7, <3>1, SMTT(30)
    <3>3. Cluster[queue[k]] = Cluster[queue[k + 1]] /\ ~state[me[queue[k]].node].tailWhenSpliced
      BY <2>2, <3>1, <3>2 DEF ClustersIInv, ClusterWords, state
    <3> QED BY ONLY <1>2, <1>12, <3>2, <3>3
  <2>3. queue' # <<>> /\ me'[queue'[1]].pc = "grant" =>
          state[n].cluster = Cluster[queue'[1]] /\ ~state[n].tailWhenSpliced
    <3>1. state[n].cluster = Cluster[t]
      BY DEF ClustersIInv, ClusterWords, state
    <3> QED BY <1>4, <1>17, <3>1 DEF ClustersIInv, ClusterWords, state
  <2>4. ~(queue' # <<>> /\ me'[queue'[1]].pc = "release")
    BY <1>17 DEF ClustersIInv, ClusterQueues
  <2>5. LET w == state2[Spare']
        IN  /\ ~w.successorMustWait
            /\ queue' # <<>> /\ me'[queue'[1]].pc = "grant" =>
                 w.cluster = Cluster[queue'[1]] /\ ~w.tailWhenSpliced
    BY ONLY <1>11, <1>12, <1>17, <2>3, SMTT(30)
  <2> QED BY ONLY <2>1, <2>2, <2>4, <2>5 DEF ClusterWords, state2
<1>20. ASSUME NEW m \in QueueThreads, me[m].pc = "mark"
       PROVE  \E i, j \in 1 .. Len(queue') :
                /\ i <= j /\ queue'[i] = m /\ me[m].tail = me[queue[j + 1]].node
                /\ j < Len(queue') => me'[queue'[j + 1]].pc # "grant"
  <2>1. PICK i \in 1 .. Len(queue), j \in 1 .. Len(queue) :
          /\ i <= j /\ queue[i] = m /\ me[m].tail = me[queue[j]].node
          /\ j < Len(queue) => me[queue[j + 1]].pc # "grant"
    BY <1>20 DEF ClustersIInv, ClusterMarks
  <2>2. i # 1
    BY <1>4, <1>20, <2>1
  <2>3. /\ i - 1 \in 1 .. Len(queue') /\ j - 1 \in 1 .. Len(queue') /\ i - 1 <= j - 1
        /\ i - 1 + 1 = i /\ j - 1 + 1 = j
        /\ j - 1 < Len(queue') => j < Len(queue) /\ j \in 1 .. Len(queue')
    BY ONLY <1>6, <2>1, <2>2
  <2>4. queue'[i - 1] = m
    BY ONLY <1>7, <2>1, <2>3, SMTT(30)
  <2>5. j - 1 < Len(queue') => me'[queue'[j]].pc # "grant"
    BY ONLY <1>7, <2>1, <2>3, SMTT(30)
  <2> QED BY ONLY <2>1, <2>3, <2>4, <2>5, SMTT(30)
<1>21. ClusterMarks'
  <2> SUFFICES ASSUME NEW m \in QueueThreads, me'[m].pc = "mark"
               PROVE  \E i, j \in 1 .. Len(queue') :
                        /\ i <= j /\ queue'[i] = m /\ me'[m].tail = me'[queue'[j]].node
                        /\ j < Len(queue') => me'[queue'[j + 1]].pc # "grant"
    BY DEF ClusterMarks
  <2>1. me'[m] = me[m] /\ me[m].pc = "mark"
    OBVIOUS
  <2>2. \E i, j \in 1 .. Len(queue') :
          /\ i <= j /\ queue'[i] = m /\ me[m].tail = me[queue[j + 1]].node
          /\ j < Len(queue') => me'[queue'[j + 1]].pc # "grant"
    BY ONLY <1>20, <2>1
  <2>3. PICK i \in 1 .. Len(queue'), j \in 1 .. Len(queue') :
          /\ i <= j /\ queue'[i] = m /\ me[m].tail = me[queue[j + 1]].node
          /\ j < Len(queue') => me'[queue'[j + 1]].pc # "grant"
    BY ONLY <2>2
  <2>4. me'[queue'[j]] = me[queue[j + 1]]
    BY ONLY <1>7
  <2> QED BY ONLY <2>1, <2>3, <2>4, SMTT(30)
<1>22. ASSUME NEW m \in Clusters!Nodes, Marked(m)
       PROVE  Marked(m)' /\ (m = n => state2[n].tailWhenSpliced)
  <2>1. CASE state[m].tailWhenSpliced
    BY ONLY <1>12, <2>1 DEF Marked, state2
  <2>2. CASE ~state[m].tailWhenSpliced
    <3>1. PICK u \in QueueThreads : me[u].pc = "mark" /\ me[u].tail = m
      BY ONLY <1>22, <2>2 DEF Marked, state
    <3>2. PICK j \in 1 .. Len(queue') : me[u].tail = me[queue[j + 1]].node
      BY ONLY <1>20, <3>1
    <3>3. me[queue[j + 1]].node # n
      BY ONLY <1>7, <1>9
    <3>4. me'[u] = me[u]
      BY <3>1
    <3> QED BY ONLY <3>1, <3>2, <3>3, <3>4, SMTT(30) DEF Marked
  <2> QED BY ONLY <2>1, <2>2, SMTT(30)
<1>23. ASSUME NEW c \in Clusters!Clusters, NEW m \in Clusters!Nodes, Boundary(c, m)
       PROVE  Boundary(c, m)'
  <2>1. ASSUME NEW j \in 1 .. Len(queue),
               me[queue[j]].node = m, Cluster[queue[j]] = c, Marked(m),
               \A k \in 1 .. Len(queue) : k > j => Cluster[queue[k]] # c
        PROVE  Boundary(c, m)'
    <3>1. CASE j = 1
      <4>1. state2[m].tailWhenSpliced
        BY ONLY <1>4, <1>22, <2>1, <3>1
      <4>2. ASSUME NEW k \in 1 .. Len(queue') PROVE Cluster[queue'[k]] # c
        <5>1. k + 1 \in 1 .. Len(queue) /\ k + 1 > 1 /\ queue'[k] = queue[k + 1]
          BY ONLY <1>6, <1>7, SMTT(30)
        <5> QED BY ONLY <2>1, <3>1, <5>1, SMTT(30)
      <4> QED BY ONLY <4>1, <4>2 DEF Boundary, state2
    <3>2. CASE j # 1
      <4>1. j - 1 \in 1 .. Len(queue') /\ j - 1 + 1 = j
        BY ONLY <1>6, <3>2
      <4>2. me'[queue'[j - 1]].node = m /\ Cluster[queue'[j - 1]] = c
        BY ONLY <1>7, <2>1, <4>1
      <4>3. ASSUME NEW k \in 1 .. Len(queue'), k > j - 1 PROVE Cluster[queue'[k]] # c
        <5>1. k + 1 \in 1 .. Len(queue) /\ k + 1 > j /\ queue'[k] = queue[k + 1]
          BY ONLY <1>6, <1>7, <4>3
        <5> QED BY ONLY <2>1, <5>1
      <4>4. Marked(m)'
        BY ONLY <1>22, <2>1, SMTT(30)
      <4> QED BY ONLY <4>1, <4>2, <4>3, <4>4 DEF Boundary
    <3> QED BY ONLY <3>1, <3>2
  <2>2. ASSUME \A k \in 1 .. Len(queue) : Cluster[queue[k]] # c,
               state[m].tailWhenSpliced \/ state[m].cluster # c
        PROVE  Boundary(c, m)'
    <3>1. \A k \in 1 .. Len(queue') : Cluster[queue'[k]] # c
      BY ONLY <1>7, <2>2
    <3>2. state2[m].tailWhenSpliced \/ state2[m].cluster # c
      BY ONLY <1>12, <2>2
    <3> QED BY ONLY <3>1, <3>2 DEF Boundary, state2
  <2> QED BY ONLY <1>23, <2>1, <2>2 DEF Boundary, state
<1>24. ClusterBoundaries'
  <2> SUFFICES ASSUME NEW c \in Clusters!Clusters
               PROVE  /\ shared.order[c] = <<>> /\ shared.mLocalTails[c] # Null =>
                           Boundary(c, shared.mLocalTails[c])'
                      /\ shared.order[c] # <<>> /\ me'[shared.order[c][1]].pc = "grant" =>
                           Boundary(c, me[shared.order[c][1]].pred)'
    BY <1>10 DEF ClusterBoundaries
  <2>1. shared.order[c] = <<>> /\ shared.mLocalTails[c] # Null => Boundary(c, shared.mLocalTails[c])'
    <3> DEFINE m == shared.mLocalTails[c]
    <3>1. shared.order[c] = <<>> /\ m # Null => Boundary(c, m) /\ m \in Clusters!Nodes
      BY ClusterTypes DEF ClustersIInv, ClusterBoundaries
    <3>2. m' = m
      BY ONLY <1>10
    <3> QED BY ONLY <1>23, <3>1, <3>2, SMTT(30)
  <2>2. ASSUME shared.order[c] # <<>>, me'[shared.order[c][1]].pc = "grant"
        PROVE  Boundary(c, me[shared.order[c][1]].pred)'
    <3> DEFINE m == me[shared.order[c][1]].pred
    <3>1. me'[shared.order[c][1]] = me[shared.order[c][1]]
      <4>1. 1 \in 1 .. Len(shared.order[c])
        BY ONLY <1>3, <2>2
      <4> QED BY ONLY <1>15, <4>1
    <3>2. Boundary(c, m)
      BY <2>2, <3>1 DEF ClustersIInv, ClusterBoundaries
    <3>3. m \in Clusters!Nodes
      <4>1. CASE \E j \in 1 .. Len(queue) : me[queue[j]].node = m
        BY ONLY <1>1, <1>2, <4>1
      <4> QED BY ONLY <3>2, <4>1, Zenon DEF Boundary
    <3>4. m' = m
      BY ONLY <1>10, <3>1
    <3> QED BY ONLY <1>23, <3>2, <3>3, <3>4, SMTT(30)
  <2> QED BY ONLY <2>1, <2>2
<1>25. t \in Clusters!Inside /\ Clusters!Inside' = Clusters!Inside \ {t}
  BY DEF Clusters!Inside
<1> QED BY <1>16, <1>18, <1>19, <1>21, <1>24, <1>25 DEF ClustersIInv

(* A thread joins the local queue of its cluster.                          *)
LEMMA ClusterLock ==
  ASSUME ClustersIInv, NEW t \in QueueThreads, me[t].pc = "out",
         me'[t].pc = IF shared.mLocalTails[Cluster[t]] = Null THEN "load" ELSE "grant",
         me'[t].node = me[t].node, me'[t].pred = shared.mLocalTails[Cluster[t]],
         \A u \in QueueThreads : u # t => me'[u] = me[u],
         shared' = [shared EXCEPT !.mLocalTails[Cluster[t]] = me[t].node,
                                  !.order[Cluster[t]] = Append(@, t)],
         Clusters!TypeOK', queue' = queue
  PROVE  ClustersIInv' /\ Clusters!Inside' = Clusters!Inside
<1> DEFINE d == Cluster[t]
           order == shared.order
           order2 == shared'.order
           tails == shared.mLocalTails
           tails2 == shared'.mLocalTails
<1>1. /\ Len(queue) \in Nat /\ (queue = <<>> <=> Len(queue) = 0)
      /\ \A i \in 1 .. Len(queue) : queue[i] \in QueueThreads
      /\ \A u \in QueueThreads : me[u].node \in Clusters!Nodes /\ Cluster[u] \in Clusters!Clusters
      /\ shared \in [mLocalTails : [Clusters!Clusters -> Clusters!Nodes \cup {Null}],
                     mGlobalTail : Clusters!Nodes,
                     mState : [Clusters!Nodes -> ClusterWord],
                     order : [Clusters!Clusters -> Seq(QueueThreads)]]
  BY ClusterTypes DEF ClustersIInv
<1>2. \A c \in Clusters!Clusters : /\ order[c] \in Seq(QueueThreads) /\ Len(order[c]) \in Nat
                                   /\ order[c] = <<>> <=> Len(order[c]) = 0
                                   /\ \A i \in 1 .. Len(order[c]) : order[c][i] \in QueueThreads
  BY ClusterTypes DEF ClustersIInv
<1>3. /\ shared'.mGlobalTail = shared.mGlobalTail /\ shared'.mState = shared.mState
      /\ tails2 = [tails EXCEPT ![d] = me[t].node]
      /\ order2 = [order EXCEPT ![d] = Append(order[d], t)]
      /\ tails \in [Clusters!Clusters -> Clusters!Nodes \cup {Null}]
      /\ order \in [Clusters!Clusters -> Seq(QueueThreads)]
      /\ d \in Clusters!Clusters
  BY <1>1
<1>4. ~Spliced(t) /\ ~Local(t)
  BY DEF ClustersIInv, ClusterQueues
<1>5. ASSUME NEW c \in Clusters!Clusters
      PROVE  /\ Distinct(order[c]) /\ \A i \in 1 .. Len(order[c]) : Cluster[order[c][i]] = c
             /\ \A i \in 2 .. Len(order[c]) :
                  /\ me[order[c][i]].pc = "grant"
                  /\ me[order[c][i]].pred = me[order[c][i - 1]].node
             /\ order[c] # <<>> => tails[c] = me[order[c][Len(order[c])]].node
  BY DEF ClustersIInv, ClusterQueues, ClusterNodes
<1>6. ~Contains(order[d], t)
  BY ONLY <1>4 DEF Local
<1> HIDE DEF order, order2, tails, tails2, d
<1>7. /\ \A c \in Clusters!Clusters : c # d => order2[c] = order[c] /\ tails2[c] = tails[c]
      /\ order2[d] = Append(order[d], t) /\ tails2[d] = me[t].node
  BY ONLY <1>3
<1>8. /\ Len(order2[d]) = Len(order[d]) + 1 /\ order2[d] # <<>> /\ Distinct(order2[d])
      /\ \A i \in 1 .. Len(order[d]) : order2[d][i] = order[d][i]
      /\ order2[d][Len(order[d]) + 1] = t
      /\ \A u : Contains(order2[d], u) <=> u = t \/ Contains(order[d], u)
  BY ONLY <1>2, <1>3, <1>5, <1>6, <1>7, JoinQueue
<1>9. ASSUME NEW c \in Clusters!Clusters, NEW i \in 1 .. Len(order[c])
      PROVE  /\ i \in 1 .. Len(order2[c]) /\ order2[c][i] = order[c][i]
             /\ order[c][i] \in QueueThreads /\ me'[order[c][i]] = me[order[c][i]]
  <2>1. i \in 1 .. Len(order2[c]) /\ order2[c][i] = order[c][i]
    <3>1. CASE c = d
      BY ONLY <1>2, <1>8, <3>1
    <3>2. CASE c # d
      BY ONLY <1>7, <3>2
    <3> QED BY ONLY <3>1, <3>2
  <2>2. order[c][i] # t
    <3>1. CASE c = d
      BY ONLY <1>6, <3>1 DEF Contains
    <3>2. CASE c # d
      BY ONLY <1>5, <3>2 DEF d
    <3> QED BY ONLY <3>1, <3>2
  <2> QED BY <1>2, <2>1, <2>2
<1>10. ASSUME NEW c \in Clusters!Clusters, NEW i \in 1 .. Len(order2[c])
       PROVE  i \in 1 .. Len(order[c]) \/ (c = d /\ i = Len(order[c]) + 1 /\ order2[c][i] = t)
  <2>1. CASE c = d
    BY ONLY <1>2, <1>8, <2>1
  <2>2. CASE c # d
    BY ONLY <1>7, <2>2
  <2> QED BY ONLY <2>1, <2>2
<1>11. order[d] # <<>> => /\ Len(order[d]) \in 1 .. Len(order[d])
                          /\ tails[d] = me[order[d][Len(order[d])]].node
                          /\ tails[d] \in Clusters!Nodes /\ tails[d] # Null
  <2>1. order[d] # <<>> => /\ Len(order[d]) \in 1 .. Len(order[d])
                           /\ tails[d] = me[order[d][Len(order[d])]].node
    BY ONLY <1>2, <1>3, <1>5
  <2>2. Null \notin Clusters!Nodes
    BY ONLY LockAssumptions DEF Clusters!NodeAssumption
  <2> QED BY ONLY <1>1, <1>2, <1>3, <2>1, <2>2
<1>12. me'[t].pc = (IF tails[d] = Null THEN "load" ELSE "grant") /\ me'[t].pred = tails[d]
  BY DEF tails, d
<1>13. \A i \in 1 .. Len(queue) : queue[i] \in QueueThreads /\ me'[queue[i]] = me[queue[i]]
  BY <1>1, <1>4 DEF Spliced, Contains
<1>14. \A u \in QueueThreads : me'[u].node = me[u].node
  OBVIOUS
<1>15. \A u \in QueueThreads : (Spliced(u)' <=> Spliced(u)) /\ (Local(u)' <=> u = t \/ Local(u))
  <2>1. ASSUME NEW u \in QueueThreads
        PROVE  Contains(order2[Cluster[u]], u) <=> u = t \/ Contains(order[Cluster[u]], u)
    <3>1. CASE Cluster[u] = d
      BY ONLY <1>8, <3>1
    <3>2. CASE Cluster[u] # d
      BY ONLY <1>1, <1>7, <3>2 DEF d
    <3> QED BY ONLY <3>1, <3>2
  <2> QED BY <2>1 DEF Spliced, Local, order, order2
<1>16. \A i \in 2 .. Len(queue) : i \in 1 .. Len(queue) /\ i - 1 \in 1 .. Len(queue)
  BY ONLY <1>1
<1>17. queue # <<>> => 1 \in 1 .. Len(queue) /\ Len(queue) \in 1 .. Len(queue)
  BY ONLY <1>1
<1>18. Spare' = Spare
  BY <1>3, <1>13, <1>17 DEF Spare
<1>19. ClusterQueues'
  <2>1. \A u \in QueueThreads :
          /\ Spliced(u)' => me'[u].pc \in {"grant", "mark", "spin", "in", "release"} /\ ~Local(u)'
          /\ Local(u)' => me'[u].pc \in {"grant", "load", "tail", "splice"}
          /\ me'[u].pc = "out" \/ Spliced(u)' \/ Local(u)'
    BY <1>4, <1>15 DEF ClustersIInv, ClusterQueues
  <2>2. \A i \in 2 .. Len(queue) : me'[queue[i]].pc \in {"grant", "mark", "spin"}
    BY <1>13, <1>16 DEF ClustersIInv, ClusterQueues
  <2>3. ASSUME NEW c \in Clusters!Clusters, NEW i \in 2 .. Len(order2[c])
        PROVE  me'[order2[c][i]].pc = "grant"
    <3>1. CASE i \in 1 .. Len(order[c])
      <4>1. i \in 2 .. Len(order[c])
        BY ONLY <1>2, <3>1
      <4> QED BY ONLY <1>5, <1>9, <3>1, <4>1
    <3>2. CASE i \notin 1 .. Len(order[c])
      <4>1. i \in 1 .. Len(order2[c])
        OBVIOUS
      <4>2. c = d /\ i = Len(order[c]) + 1 /\ order2[c][i] = t
        BY ONLY <1>10, <3>2, <4>1
      <4>3. Len(order[d]) # 0
        BY ONLY <1>2, <1>3, <4>2
      <4> QED BY ONLY <1>2, <1>3, <1>11, <1>12, <4>2, <4>3
    <3> QED BY ONLY <3>1, <3>2
  <2>4. ASSUME NEW c \in Clusters!Clusters
        PROVE  Distinct(order2[c]) /\ \A i \in 1 .. Len(order2[c]) : Cluster[order2[c][i]] = c
    <3>1. Distinct(order2[c])
      BY ONLY <1>5, <1>7, <1>8
    <3>2. ASSUME NEW i \in 1 .. Len(order2[c]) PROVE Cluster[order2[c][i]] = c
      BY ONLY <1>5, <1>9, <1>10 DEF d
    <3> QED BY ONLY <3>1, <3>2
  <2>5. Distinct(queue)
    BY DEF ClustersIInv, ClusterQueues
  <2> QED BY <2>1, <2>2, <2>3, <2>4, <2>5 DEF ClusterQueues, order2
<1>20. ClusterNodes'
  <2>1. \A i \in 2 .. Len(queue) : me'[queue[i]].pred = me'[queue[i - 1]].node
    BY <1>13, <1>16 DEF ClustersIInv, ClusterNodes
  <2>2. queue # <<>> => shared'.mGlobalTail = me'[queue[Len(queue)]].node
    BY <1>3, <1>13, <1>17 DEF ClustersIInv, ClusterNodes
  <2>3. ASSUME NEW c \in Clusters!Clusters, NEW i \in 2 .. Len(order2[c])
        PROVE  me'[order2[c][i]].pred = me'[order2[c][i - 1]].node
    <3>1. CASE i \in 1 .. Len(order[c])
      <4>1. i \in 2 .. Len(order[c]) /\ i - 1 \in 1 .. Len(order[c])
        BY ONLY <1>2, <3>1
      <4>2. me[order[c][i]].pred = me[order[c][i - 1]].node
        BY ONLY <1>5, <4>1
      <4> QED BY ONLY <1>9, <3>1, <4>1, <4>2, SMTT(30)
    <3>2. CASE i \notin 1 .. Len(order[c])
      <4>1. i \in 1 .. Len(order2[c])
        OBVIOUS
      <4>2. c = d /\ i = Len(order[c]) + 1 /\ order2[c][i] = t
        BY ONLY <1>10, <3>2, <4>1
      <4>3. Len(order[d]) # 0 /\ i - 1 = Len(order[d]) /\ i - 1 \in 1 .. Len(order[d])
        BY ONLY <1>2, <1>3, <4>2
      <4>4. order2[d][i - 1] = order[d][i - 1] /\ me'[order[d][i - 1]] = me[order[d][i - 1]]
        BY ONLY <1>3, <1>9, <4>3
      <4>5. tails[d] = me[order[d][i - 1]].node
        BY ONLY <1>2, <1>3, <1>11, <4>3
      <4> QED BY ONLY <1>12, <4>2, <4>4, <4>5
    <3> QED BY ONLY <3>1, <3>2
  <2>4. ASSUME NEW c \in Clusters!Clusters, order2[c] # <<>>
        PROVE  tails2[c] = me'[order2[c][Len(order2[c])]].node
    <3>1. CASE c = d
      BY <1>7, <1>8, <3>1
    <3>2. CASE c # d
      <4>1. Len(order[c]) \in 1 .. Len(order[c]) /\ order[c] # <<>> /\ order2[c] = order[c]
        BY ONLY <1>2, <1>7, <2>4, <3>2, SMTT(30)
      <4> QED BY ONLY <1>5, <1>7, <1>9, <3>2, <4>1
    <3> QED BY ONLY <3>1, <3>2
  <2>5. ASSUME NEW u \in QueueThreads, me'[u].pc = "splice"
        PROVE  \E i \in 1 .. Len(order2[Cluster[u]]) :
                 me'[u].tail = me'[order2[Cluster[u]][i]].node
    <3>1. u # t /\ me'[u] = me[u] /\ Cluster[u] \in Clusters!Clusters
      BY <1>1, <1>12, <2>5
    <3>2. PICK i \in 1 .. Len(order[Cluster[u]]) : me[u].tail = me[order[Cluster[u]][i]].node
      BY <2>5, <3>1 DEF ClustersIInv, ClusterNodes, order
    <3> QED BY ONLY <1>9, <3>1, <3>2
  <2>6. /\ \A u, v \in QueueThreads : me'[u].node = me'[v].node => u = v
        /\ Spare' \in Clusters!Nodes /\ \A u \in QueueThreads : me'[u].node # Spare'
    BY <1>14, <1>18 DEF ClustersIInv, ClusterNodes
  <2>7. /\ \A i \in 2 .. Len(queue') : me'[queue'[i]].pred = me'[queue'[i - 1]].node
        /\ queue' # <<>> => shared'.mGlobalTail = me'[queue'[Len(queue')]].node
    BY <2>1, <2>2
  <2> QED BY ONLY <2>3, <2>4, <2>5, <2>6, <2>7, Zenon, SMTT(30) DEF ClusterNodes, order2, tails2
<1>21. ClusterWords'
  <2>1. ASSUME NEW i \in 2 .. Len(queue), me'[queue[i]].pc = "grant"
        PROVE  /\ Cluster[queue[i - 1]] = Cluster[queue[i]]
               /\ ~shared.mState[me'[queue[i - 1]].node].tailWhenSpliced
    BY <1>13, <1>16, <2>1 DEF ClustersIInv, ClusterWords
  <2>2. \A u \in QueueThreads :
          LET w == shared.mState[me'[u].node]
          IN  w.cluster = Cluster[u] /\ w.successorMustWait /\ (w.tailWhenSpliced => Spliced(u)')
    BY <1>14, <1>15 DEF ClustersIInv, ClusterWords
  <2>3. queue # <<>> => me'[queue[1]] = me[queue[1]]
    BY ONLY <1>13, <1>17, SMTT(30)
  <2>4. LET w == shared.mState[Spare']
        IN  IF queue # <<>> /\ me'[queue[1]].pc = "release"
            THEN w = Clusters!Fresh(queue[1])
            ELSE /\ ~w.successorMustWait
                 /\ queue # <<>> /\ me'[queue[1]].pc = "grant" =>
                      w.cluster = Cluster[queue[1]] /\ ~w.tailWhenSpliced
    BY <1>18, <2>3 DEF ClustersIInv, ClusterWords
  <2> QED BY <1>3, <2>1, <2>2, <2>4 DEF ClusterWords
<1>22. ClusterMarks'
  <2> SUFFICES ASSUME NEW m \in QueueThreads, me'[m].pc = "mark"
               PROVE  \E i, j \in 1 .. Len(queue) :
                        /\ i <= j /\ queue[i] = m /\ me'[m].tail = me'[queue[j]].node
                        /\ j < Len(queue) => me'[queue[j + 1]].pc # "grant"
    BY DEF ClusterMarks
  <2>1. m # t /\ me'[m] = me[m]
    BY <1>12
  <2>2. PICK i \in 1 .. Len(queue), j \in 1 .. Len(queue) :
          /\ i <= j /\ queue[i] = m /\ me[m].tail = me[queue[j]].node
          /\ j < Len(queue) => me[queue[j + 1]].pc # "grant"
    BY <2>1 DEF ClustersIInv, ClusterMarks
  <2>3. j < Len(queue) => j + 1 \in 1 .. Len(queue)
    BY ONLY <1>1
  <2> QED BY ONLY <1>13, <2>1, <2>2, <2>3
<1>23. ASSUME NEW c \in Clusters!Clusters, NEW n, Boundary(c, n) PROVE Boundary(c, n)'
  <2>1. \A m \in QueueThreads : me[m].pc = "mark" => me'[m] = me[m]
    OBVIOUS
  <2>2. Marked(n) => Marked(n)'
    BY ONLY <1>3, <2>1 DEF Marked
  <2> QED BY <1>3, <1>13, <1>23, <2>2 DEF Boundary
<1>24. ASSUME NEW c \in Clusters!Clusters
       PROVE  /\ order[c] = <<>> /\ tails[c] # Null => Boundary(c, tails[c])
              /\ order[c] # <<>> /\ me[order[c][1]].pc = "grant" => Boundary(c, me[order[c][1]].pred)
  BY DEF ClustersIInv, ClusterBoundaries, order, tails
<1>25. ASSUME NEW c \in Clusters!Clusters, order2[c] = <<>>, NEW n, n = tails2[c], n # Null
       PROVE  Boundary(c, n)'
  <2>1. c # d
    BY ONLY <1>8, <1>25
  <2> QED BY ONLY <1>7, <1>23, <1>24, <1>25, <2>1
<1>26. ASSUME NEW c \in Clusters!Clusters, order2[c] # <<>>, me'[order2[c][1]].pc = "grant",
              NEW n, n = me'[order2[c][1]].pred
       PROVE  Boundary(c, n)'
  <2>1. CASE c # d \/ order[c] # <<>>
    <3>1. order[c] # <<>> /\ 1 \in 1 .. Len(order[c])
      BY ONLY <1>2, <1>7, <1>26, <2>1
    <3>2. me'[order2[c][1]] = me[order[c][1]]
      BY ONLY <1>9, <3>1
    <3> QED BY ONLY <1>23, <1>24, <1>26, <3>1, <3>2
  <2>2. CASE c = d /\ order[c] = <<>>
    <3>1. Len(order[d]) + 1 = 1
      BY ONLY <1>2, <1>3, <2>2
    <3>2. order2[c][1] = t
      BY ONLY <1>8, <2>2, <3>1, SMTT(30)
    <3> QED BY ONLY <1>12, <1>23, <1>24, <1>26, <2>2, <3>2
  <2> QED BY ONLY <2>1, <2>2
<1>27. ClusterBoundaries'
  BY ONLY <1>25, <1>26 DEF ClusterBoundaries, order2, tails2
<1>28. Clusters!Inside' = Clusters!Inside
  BY <1>12 DEF Clusters!Inside
<1> QED BY <1>19, <1>20, <1>21, <1>22, <1>27, <1>28 DEF ClustersIInv

(* The first k of the queue w are put at the end of the queue q, which       *)
(* becomes q2; r is what is left of w.                                     *)
Splices(S, q, w, k, q2, r) ==
  /\ q \in Seq(S) /\ w \in Seq(S) /\ k \in 1 .. Len(w)
  /\ Distinct(q) /\ Distinct(w) /\ \A y : Contains(q, y) => ~Contains(w, y)
  /\ q2 = q \o SubSeq(w, 1, k) /\ r = SubSeq(w, k + 1, Len(w))

LEMMA SpliceQueues ==
  ASSUME NEW S, NEW q, NEW w, NEW k, NEW q2, NEW r, Splices(S, q, w, k, q2, r)
  PROVE  /\ q2 \in Seq(S) /\ Len(q) \in Nat /\ Len(w) \in Nat /\ k \in Nat /\ 1 <= k /\ k <= Len(w)
         /\ Len(q2) = Len(q) + k /\ Len(q) < Len(q2) /\ q2 # <<>> /\ Distinct(q2)
         /\ SubSeq(q2, 1, Len(q)) = q
         /\ \A i \in 1 .. Len(q) : q2[i] = q[i]
         /\ \A i \in 1 .. k : q2[Len(q) + i] = w[i]
         /\ \A y : Contains(q2, y) <=> Contains(q, y) \/ \E i \in 1 .. k : w[i] = y
         /\ Len(r) = Len(w) - k /\ (r = <<>> <=> Len(r) = 0) /\ Distinct(r)
         /\ \A i \in 1 .. Len(w) - k : r[i] = w[k + i]
         /\ \A y : Contains(r, y) <=> Contains(w, y) /\ \A i \in 1 .. k : w[i] # y
<1> USE DEF Splices
<1> DEFINE p == SubSeq(w, 1, k)
           n == Len(q)
           l == Len(w)
<1>1. n \in Nat /\ l \in Nat /\ k \in Nat /\ k <= l /\ 1 <= k /\ \A i \in 1 .. l : w[i] \in S
  BY LenProperties, ElementOfSeq
<1>2. p \in Seq(S) /\ Len(p) = k /\ \A i \in 1 .. k : p[i] = w[i]
  <2>1. \A i \in 1 .. k : w[i] \in S
    BY ONLY <1>1
  <2>2. /\ p \in Seq(S) /\ Len(p) = IF 1 <= k THEN k - 1 + 1 ELSE 0
        /\ \A i \in 1 .. k - 1 + 1 : p[i] = w[1 + i - 1]
    BY ONLY <1>1, <2>1, SubSeqProperties
  <2> HIDE DEF p
  <2> QED BY ONLY <1>1, <2>2
<1>3. /\ r \in Seq(S) /\ Len(r) = l - k /\ (r = <<>> <=> Len(r) = 0)
      /\ \A i \in 1 .. l - k : r[i] = w[k + i]
  <2>1. \A i \in k + 1 .. l : w[i] \in S
    BY ONLY <1>1
  <2>2. /\ r \in Seq(S) /\ Len(r) = IF k + 1 <= l THEN l - (k + 1) + 1 ELSE 0
        /\ \A i \in 1 .. l - (k + 1) + 1 : r[i] = w[k + 1 + i - 1]
    BY <1>1, <2>1, SubSeqProperties
  <2>3. r = <<>> <=> Len(r) = 0
    BY ONLY <2>2, EmptySeq
  <2> HIDE DEF l
  <2> QED BY ONLY <1>1, <2>2, <2>3
<1>4. q2 \in Seq(S) /\ Len(q2) = n + k /\ \A i \in 1 .. n + k : q2[i] = IF i <= n THEN q[i] ELSE p[i - n]
  <2> HIDE DEF p
  <2> QED BY <1>2, ConcatProperties
<1>5. q2 # <<>>
  <2>1. Len(q2) # 0
    BY ONLY <1>1, <1>4
  <2> QED BY ONLY <2>1, EmptySeq
<1> HIDE DEF p, n, l
<1>6. ASSUME NEW i \in 1 .. n PROVE i \in 1 .. n + k /\ q2[i] = q[i]
  BY ONLY <1>1, <1>4
<1>7. ASSUME NEW i \in 1 .. k PROVE n + i \in 1 .. n + k /\ q2[n + i] = w[i] /\ i \in 1 .. l
  <2>1. n \in Nat /\ l \in Nat /\ k \in Nat /\ k <= l /\ i \in 1 .. k
    BY ONLY <1>1
  <2>2. n + i \in 1 .. n + k /\ ~(n + i <= n) /\ n + i - n = i
    BY ONLY <2>1
  <2>3. i \in 1 .. l
    BY ONLY <2>1
  <2>4. n + i > n /\ n + i \in 1 .. n + k /\ q2[n + i] = (IF n + i <= n THEN q[n + i] ELSE p[n + i - n])
    BY ONLY <1>4, <2>1, <2>2
  <2>5. p[n + i - n] = w[i]
    BY ONLY <1>2, <2>2
  <2> QED BY ONLY <2>2, <2>3, <2>4, <2>5
<1>8. ASSUME NEW i \in 1 .. n + k
      PROVE  (i \in 1 .. n /\ q2[i] = q[i]) \/ (i - n \in 1 .. k /\ q2[i] = w[i - n])
  BY ONLY <1>1, <1>2, <1>4, SMTT(30)
<1>9. SubSeq(q2, 1, n) = q
  <2>1. \A i \in 1 .. n : q2[i] \in S
    BY <1>6, ElementOfSeq DEF n
  <2>2. /\ SubSeq(q2, 1, n) \in Seq(S)
        /\ Len(SubSeq(q2, 1, n)) = IF 1 <= n THEN n - 1 + 1 ELSE 0
        /\ \A i \in 1 .. n - 1 + 1 : SubSeq(q2, 1, n)[i] = q2[1 + i - 1]
    BY ONLY <1>1, <2>1, SubSeqProperties, SMTT(30)
  <2>3. Len(SubSeq(q2, 1, n)) = n /\ \A i \in 1 .. n : SubSeq(q2, 1, n)[i] = q[i]
    BY ONLY <1>1, <1>6, <2>2
  <2> QED BY <2>2, <2>3, SeqEqual DEF n
<1>10. ASSUME NEW y PROVE Contains(q2, y) <=> Contains(q, y) \/ \E i \in 1 .. k : w[i] = y
  <2>1. Contains(q2, y) => Contains(q, y) \/ \E i \in 1 .. k : w[i] = y
    BY ONLY <1>4, <1>8 DEF Contains, n
  <2>2. Contains(q, y) => Contains(q2, y)
    BY ONLY <1>4, <1>6 DEF Contains, n
  <2>3. (\E i \in 1 .. k : w[i] = y) => Contains(q2, y)
    BY ONLY <1>4, <1>7, SMTT(30) DEF Contains
  <2> QED BY ONLY <2>1, <2>2, <2>3
<1>11. ASSUME NEW y PROVE Contains(r, y) <=> Contains(w, y) /\ \A i \in 1 .. k : w[i] # y
  <2>1. ASSUME NEW i \in 1 .. l - k, r[i] = y PROVE Contains(w, y) /\ \A j \in 1 .. k : w[j] # y
    <3>1. k + i \in 1 .. l /\ w[k + i] = y /\ \A j \in 1 .. k : j \in 1 .. l /\ j # k + i
      BY ONLY <1>1, <1>3, <2>1
    <3> QED BY <3>1 DEF Contains, Distinct, l
  <2>2. ASSUME NEW i \in 1 .. l, w[i] = y, \A j \in 1 .. k : w[j] # y PROVE Contains(r, y)
    <3>1. i \notin 1 .. k
      BY ONLY <2>2
    <3>2. i - k \in 1 .. l - k /\ k + (i - k) = i
      BY ONLY <1>1, <3>1
    <3>3. r[i - k] = y
      BY ONLY <1>3, <2>2, <3>2
    <3> QED BY ONLY <1>3, <3>2, <3>3 DEF Contains
  <2> QED BY ONLY <1>3, <2>1, <2>2 DEF Contains, l
<1>12. Distinct(q2)
  <2> SUFFICES ASSUME NEW i \in 1 .. n + k, NEW j \in 1 .. n + k, q2[i] = q2[j] PROVE i = j
    BY <1>4 DEF Distinct
  <2>1. \A e \in 1 .. k : Contains(w, w[e])
    BY ONLY <1>7 DEF Contains, l
  <2>2. \A e \in 1 .. n : ~Contains(w, q[e])
    BY DEF Contains, n
  <2>3. CASE i \in 1 .. n /\ j \in 1 .. n
    BY <1>6, <2>3 DEF Distinct, n
  <2>4. CASE i - n \in 1 .. k /\ j - n \in 1 .. k /\ q2[i] = w[i - n] /\ q2[j] = w[j - n]
    <3>1. i - n = j - n
      BY <1>7, <2>4 DEF Distinct, l
    <3> QED BY ONLY <1>1, <3>1
  <2> QED BY <1>8, <2>1, <2>2, <2>3, <2>4
<1>13. Distinct(r)
  <2> SUFFICES ASSUME NEW i \in 1 .. l - k, NEW j \in 1 .. l - k, r[i] = r[j] PROVE i = j
    BY <1>3 DEF Distinct
  <2>1. k + i \in 1 .. l /\ k + j \in 1 .. l /\ w[k + i] = w[k + j]
    BY <1>1, <1>3
  <2>2. k + i = k + j
    BY <2>1 DEF Distinct, l
  <2> QED BY ONLY <1>1, <2>2
<1>14. n < n + k
  BY ONLY <1>1
<1> QED BY ONLY <1>1, <1>3, <1>4, <1>5, <1>6, <1>7, <1>9, <1>10, <1>11, <1>12, <1>13, <1>14 DEF n, l

(* The master t of cluster d puts the local queue w of its cluster, up to    *)
(* the kth thread of it, into the queue.                                   *)
Splicing(t, d, order, order2, n, w, k) ==
  /\ d = Cluster[t] /\ order = shared.order /\ order2 = shared'.order
  /\ n = Len(queue) /\ w = order[d] /\ w # <<>> /\ w[1] = t
  /\ k \in Nat /\ 1 <= k /\ k <= Len(w)
  /\ me[t].pc = "splice" /\ me[t].tail = me[w[k]].node /\ shared.mGlobalTail = me[t].pred
  /\ me'[t].pc = "mark" /\ me'[t].node = me[t].node /\ me'[t].pred = me[t].pred
  /\ me'[t].tail = me[t].tail /\ \A u \in QueueThreads : u # t => me'[u] = me[u]
  /\ Len(queue') = n + k /\ Distinct(queue') /\ queue' # <<>>
  /\ \A i \in 1 .. n : queue'[i] = queue[i]
  /\ \A i \in 1 .. k : queue'[n + i] = w[i]
  /\ \A u : Contains(queue', u) <=> Contains(queue, u) \/ \E i \in 1 .. k : w[i] = u
  /\ Len(order2[d]) = Len(w) - k /\ (order2[d] = <<>> <=> Len(order2[d]) = 0)
  /\ Distinct(order2[d])
  /\ \A i \in 1 .. Len(w) - k : order2[d][i] = w[k + i]
  /\ \A u : Contains(order2[d], u) <=> Contains(w, u) /\ \A i \in 1 .. k : w[i] # u
  /\ \A c \in Clusters!Clusters : c # d => order2[c] = order[c]
  /\ shared'.mLocalTails = shared.mLocalTails /\ shared'.mState = shared.mState
  /\ shared'.mGlobalTail = me[t].tail

LEMMA ClusterSpliced ==
  ASSUME ClustersIInv, NEW t \in QueueThreads, NEW d, NEW order, NEW order2, NEW n, NEW w, NEW k,
         Splicing(t, d, order, order2, n, w, k), Clusters!TypeOK'
  PROVE  ClustersIInv'
<1> USE DEF Splicing
<1>1. /\ n \in Nat /\ (queue = <<>> <=> n = 0)
      /\ \A i \in 1 .. n : queue[i] \in QueueThreads
      /\ \A u \in QueueThreads : me[u].node \in Clusters!Nodes /\ Cluster[u] \in Clusters!Clusters
      /\ d \in Clusters!Clusters
  BY ClusterTypes DEF ClustersIInv
<1>2. \A c \in Clusters!Clusters : /\ Len(order[c]) \in Nat
                                   /\ order[c] = <<>> <=> Len(order[c]) = 0
                                   /\ \A i \in 1 .. Len(order[c]) : order[c][i] \in QueueThreads
  BY ClusterTypes DEF ClustersIInv
<1>3. /\ ClustersIInv /\ t \in QueueThreads /\ me[t].pc = "splice" /\ d = Cluster[t]
      /\ w = order[d] /\ order = shared.order /\ order2 = shared'.order /\ n = Len(queue)
  OBVIOUS
<1>6. w # <<>> /\ w[1] = t /\ me[t].tail = me[w[k]].node
  OBVIOUS
<1>9. shared'.mGlobalTail = me[t].tail
  BY SMTT(20)
<1>4. ASSUME NEW c \in Clusters!Clusters
      PROVE  /\ Distinct(order[c]) /\ \A i \in 1 .. Len(order[c]) : Cluster[order[c][i]] = c
             /\ \A i \in 2 .. Len(order[c]) :
                  /\ me[order[c][i]].pc = "grant"
                  /\ me[order[c][i]].pred = me[order[c][i - 1]].node
             /\ order[c] # <<>> => shared.mLocalTails[c] = me[order[c][Len(order[c])]].node
  BY DEF ClustersIInv, ClusterQueues, ClusterNodes
<1>4a. /\ Distinct(w)
       /\ \A i \in 2 .. Len(w) : me[w[i]].pc = "grant" /\ me[w[i]].pred = me[w[i - 1]].node
  <2>1. d \in Clusters!Clusters /\ w = order[d]
    BY ONLY <1>1, <1>3, SMTT(20)
  <2> QED BY ONLY <1>4, <2>1
<1>4b. \A u \in QueueThreads : shared.mState[me[u].node].tailWhenSpliced => Spliced(u)
  BY DEF ClustersIInv, ClusterWords
<1>5. \A u \in QueueThreads :
        /\ Spliced(u) => me[u].pc \in {"grant", "mark", "spin", "in", "release"} /\ ~Local(u)
        /\ Local(u) => me[u].pc \in {"grant", "load", "tail", "splice"}
        /\ me[u].pc = "out" \/ Spliced(u) \/ Local(u)
  BY DEF ClustersIInv, ClusterQueues
<1>7. \A u : Contains(w, u) => u \in QueueThreads /\ Cluster[u] = d /\ Local(u) /\ ~Spliced(u)
  <2> SUFFICES ASSUME NEW i \in 1 .. Len(w)
               PROVE  w[i] \in QueueThreads /\ Cluster[w[i]] = d /\ Local(w[i]) /\ ~Spliced(w[i])
    BY SMTT(20) DEF Contains
  <2>1. w[i] \in QueueThreads /\ Cluster[w[i]] = d
    BY <1>1, <1>2, <1>4
  <2>2. Local(w[i])
    BY <2>1 DEF Local, Contains
  <2> QED BY ONLY <1>5, <2>1, <2>2, SMTT(30)
<1>10a. /\ n \in Nat /\ Len(w) \in Nat /\ k \in Nat /\ 1 <= k /\ k <= Len(w)
        /\ Len(queue') = n + k
  BY <1>1, <1>2
<1>11. ASSUME NEW i \in 1 .. n
       PROVE  /\ i \in 1 .. Len(queue') /\ queue'[i] = queue[i] /\ queue[i] \in QueueThreads
              /\ me'[queue'[i]] = me[queue[i]]
  <2>1. i \in 1 .. Len(queue')
    BY ONLY <1>10a, SMTT(30)
  <2>2. Spliced(queue[i]) /\ Contains(w, t)
    <3>1. 1 \in 1 .. Len(w)
      BY ONLY <1>10a, SMTT(30)
    <3> QED BY <3>1 DEF Spliced, Contains
  <2>3. queue[i] # t
    BY ONLY <1>7, <2>2, SMTT(30)
  <2>4. queue'[i] = queue[i] /\ queue[i] \in QueueThreads
    BY <1>1
  <2> QED BY <2>1, <2>3, <2>4
<1>12. ASSUME NEW i \in 1 .. Len(w)
       PROVE  /\ w[i] \in QueueThreads /\ Cluster[w[i]] = d /\ ~Spliced(w[i])
              /\ i # 1 => /\ w[i] # t /\ me'[w[i]] = me[w[i]] /\ me[w[i]].pc = "grant"
                          /\ i - 1 \in 1 .. Len(w) /\ me[w[i]].pred = me[w[i - 1]].node
              /\ me'[w[i]].node = me[w[i]].node
  <2>1. w[i] \in QueueThreads /\ Cluster[w[i]] = d /\ ~Spliced(w[i])
    BY ONLY <1>7, <1>12 DEF Contains
  <2>2. ASSUME i # 1
        PROVE  /\ w[i] # t /\ me[w[i]].pc = "grant"
               /\ i - 1 \in 1 .. Len(w) /\ me[w[i]].pred = me[w[i - 1]].node
    <3>1. i \in 2 .. Len(w) /\ 1 \in 1 .. Len(w) /\ i - 1 \in 1 .. Len(w)
      BY ONLY <1>10a, <2>2, SMTT(30)
    <3> QED BY ONLY <1>4a, <1>6, <1>12, <2>2, <3>1 DEF Distinct
  <2> QED BY <2>1, <2>2
<1>13. ASSUME NEW i \in 1 .. k
       PROVE  /\ n + i \in 1 .. Len(queue') /\ i \in 1 .. Len(w) /\ queue'[n + i] = w[i]
              /\ n + 1 \in 1 .. Len(queue') /\ queue'[n + 1] = t
  <2>1. n + i \in 1 .. n + k /\ n + 1 \in 1 .. n + k /\ i \in 1 .. Len(w) /\ 1 \in 1 .. k
    BY ONLY <1>10a, SMTT(30)
  <2>2. n + i \in 1 .. Len(queue') /\ n + 1 \in 1 .. Len(queue')
    BY ONLY <1>10a, <2>1, SMTT(30)
  <2> QED BY <2>1, <2>2
<1>14. ASSUME NEW i \in 1 .. Len(queue')
       PROVE  \/ i \in 1 .. n
              \/ i - n \in 1 .. k /\ n + (i - n) = i /\ (i - n = 1 <=> i = n + 1)
  BY ONLY <1>10a, SMTT(30)
<1>15. ASSUME NEW i \in 1 .. Len(queue')
       PROVE  queue'[i] \in QueueThreads
  <2>1. CASE i \in 1 .. n
    BY ONLY <1>11, <2>1
  <2>2. CASE i - n \in 1 .. k /\ n + (i - n) = i
    <3>1. queue'[n + (i - n)] = w[i - n] /\ i - n \in 1 .. Len(w)
      BY ONLY <1>13, <2>2
    <3> QED BY ONLY <1>12, <2>2, <3>1, SMTT(30)
  <2> QED BY ONLY <1>14, <2>1, <2>2, SMTT(30)
<1>16. ASSUME NEW c \in Clusters!Clusters, NEW i \in 1 .. Len(order2[c])
       PROVE  LET e == IF c = d THEN k + i ELSE i
              IN  /\ e \in 1 .. Len(order[c]) /\ order2[c][i] = order[c][e]
                  /\ order[c][e] \in QueueThreads /\ order[c][e] # t
                  /\ me'[order2[c][i]] = me[order[c][e]]
  <2>1. CASE c = d
    <3>1. i \in 1 .. Len(w) - k
      BY <2>1
    <3>2. k + i \in 1 .. Len(w) /\ k + i # 1
      BY ONLY <1>10a, <3>1, SMTT(30)
    <3>3. order2[c][i] = w[k + i]
      BY <2>1, <3>1
    <3> QED BY ONLY <1>3, <1>12, <2>1, <3>2, <3>3, SMTT(30)
  <2>2. CASE c # d
    <3>1. order2[c] = order[c] /\ order[c][i] \in QueueThreads /\ Cluster[order[c][i]] = c
      BY <1>2, <1>4, <2>2
    <3> QED BY <2>2, <3>1
  <2> QED BY ONLY <2>1, <2>2
<1>17. \A u \in QueueThreads : me'[u].node = me[u].node
  OBVIOUS
<1>18. \A u \in QueueThreads :
         /\ Spliced(u)' <=> Spliced(u) \/ \E i \in 1 .. k : w[i] = u
         /\ Local(u)' <=> Local(u) /\ \A i \in 1 .. k : w[i] # u
  <2>1. \A u \in QueueThreads : Spliced(u)' <=> Spliced(u) \/ \E i \in 1 .. k : w[i] = u
    BY DEF Spliced
  <2>2. ASSUME NEW u \in QueueThreads
        PROVE  Contains(order2[Cluster[u]], u)
                 <=> Contains(order[Cluster[u]], u) /\ \A i \in 1 .. k : w[i] # u
    <3>1. CASE Cluster[u] = d
      BY <3>1
    <3>2. CASE Cluster[u] # d
      <4>1. order2[Cluster[u]] = order[Cluster[u]]
        BY <1>1, <3>2
      <4>2. ASSUME NEW i \in 1 .. k PROVE w[i] # u
        <5>1. i \in 1 .. Len(w)
          BY ONLY <1>10a, SMTT(30)
        <5> QED BY ONLY <1>12, <3>2, <5>1
      <4> QED BY ONLY <4>1, <4>2
    <3> QED BY ONLY <3>1, <3>2, SMTT(30)
  <2> QED BY <2>1, <2>2 DEF Local
<1>19. Spare' = Spare
  <2>1. CASE queue = <<>>
    <3>1. n + 1 = 1 /\ 1 \in 1 .. k
      <4>1. n = 0
        BY ONLY <1>1, <2>1, SMTT(30)
      <4> QED BY ONLY <1>10a, <4>1, SMTT(30)
    <3>2. queue'[1] = t
      BY ONLY <1>13, <3>1, SMTT(30)
    <3> QED BY <2>1, <3>2 DEF Spare
  <2>2. CASE queue # <<>>
    <3>1. 1 \in 1 .. n
      BY ONLY <1>1, <2>2
    <3> QED BY ONLY <1>11, <2>2, <3>1, SMTT(30) DEF Spare
  <2> QED BY ONLY <2>1, <2>2, SMTT(30)
<1>20. ClusterQueues'
  <2>1. ASSUME NEW u \in QueueThreads
        PROVE  /\ Spliced(u)' => me'[u].pc \in {"grant", "mark", "spin", "in", "release"} /\ ~Local(u)'
               /\ Local(u)' => me'[u].pc \in {"grant", "load", "tail", "splice"}
               /\ me'[u].pc = "out" \/ Spliced(u)' \/ Local(u)'
    <3>1. ASSUME NEW i \in 1 .. k, w[i] = u PROVE u = t \/ me'[u].pc = "grant"
      <4>1. i \in 1 .. Len(w)
        BY ONLY <1>10a
      <4> QED BY ONLY <1>6, <1>12, <3>1, <4>1
    <3>2. w[1] = t /\ 1 \in 1 .. k
      BY <1>10a
    <3>3. Spliced(u)' => ~Local(u)'
      BY ONLY <1>5, <1>18, <2>1, SMTT(30)
    <3>4. u # t => me'[u] = me[u]
      OBVIOUS
    <3>5. u = t => ~Local(u)' /\ Spliced(u)'
      BY ONLY <1>18, <3>2, SMTT(30)
    <3>6. Spliced(u)' => me'[u].pc \in {"grant", "mark", "spin", "in", "release"}
      BY <1>5, <1>18, <3>1, <3>4
    <3>7. u # t => /\ Local(u)' => me'[u].pc \in {"grant", "load", "tail", "splice"}
                   /\ me'[u].pc = "out" \/ Spliced(u)' \/ Local(u)'
      BY ONLY <1>5, <1>18, <2>1, <3>4, SMTT(30)
    <3> QED BY ONLY <3>3, <3>5, <3>6, <3>7
  <2>2. ASSUME NEW i \in 2 .. Len(queue') PROVE me'[queue'[i]].pc \in {"grant", "mark", "spin"}
    <3>1. i \in 1 .. Len(queue')
      BY ONLY <1>10a, SMTT(30)
    <3>2. CASE i \in 1 .. n
      <4>1. i \in 2 .. n
        BY ONLY <1>1, <3>2
      <4> QED BY <1>11, <3>2, <4>1 DEF ClustersIInv, ClusterQueues
    <3>3. CASE i - n \in 1 .. k /\ n + (i - n) = i
      <4> DEFINE e == i - n
      <4>1. queue'[n + e] = w[e] /\ e \in 1 .. Len(w) /\ n + e = i
        BY ONLY <1>13, <3>3, SMTT(30)
      <4> HIDE DEF e
      <4>2. CASE e = 1
        BY <4>1, <4>2
      <4>3. CASE e # 1
        BY ONLY <1>12, <4>1, <4>3, SMTT(20)
      <4> QED BY ONLY <4>2, <4>3, SMTT(30)
    <3> QED BY ONLY <1>14, <3>1, <3>2, <3>3, SMTT(30)
  <2>3. ASSUME NEW c \in Clusters!Clusters, NEW i \in 2 .. Len(order2[c])
        PROVE  me'[order2[c][i]].pc = "grant"
    <3> DEFINE e == IF c = d THEN k + i ELSE i
    <3>1. i \in 1 .. Len(order2[c])
      BY SMTT(20)
    <3>2. e \in 1 .. Len(order[c]) /\ me'[order2[c][i]] = me[order[c][e]]
      BY ONLY <1>16, <3>1, SMTT(30)
    <3>3. e # 1
      BY ONLY <1>10a, SMTT(30)
    <3> HIDE DEF e
    <3>4. e \in 2 .. Len(order[c])
      BY ONLY <3>2, <3>3, SMTT(30)
    <3> QED BY ONLY <1>4, <3>2, <3>4, SMTT(30)
  <2>4. ASSUME NEW c \in Clusters!Clusters
        PROVE  Distinct(order2[c]) /\ \A i \in 1 .. Len(order2[c]) : Cluster[order2[c][i]] = c
    <3>1. Distinct(order2[c])
      BY <1>4
    <3>2. ASSUME NEW i \in 1 .. Len(order2[c]) PROVE Cluster[order2[c][i]] = c
      <4> DEFINE e == IF c = d THEN k + i ELSE i
      <4>1. e \in 1 .. Len(order[c]) /\ order2[c][i] = order[c][e]
        BY ONLY <1>16, SMTT(30)
      <4> HIDE DEF e
      <4> QED BY ONLY <1>4, <4>1, SMTT(30)
    <3> QED BY ONLY <3>1, <3>2, SMTT(30)
  <2>5. Distinct(queue')
    OBVIOUS
  <2> QED BY ONLY <1>3, <2>1, <2>2, <2>3, <2>4, <2>5 DEF ClusterQueues
<1>21. ClusterNodes'
  <2>1. ASSUME NEW i \in 2 .. Len(queue') PROVE me'[queue'[i]].pred = me'[queue'[i - 1]].node
    <3>1. i \in 1 .. Len(queue') /\ i - 1 \in 1 .. Len(queue')
      BY ONLY <1>10a, SMTT(30)
    <3>2. CASE i \in 1 .. n
      <4>1. i \in 2 .. n /\ i - 1 \in 1 .. n
        BY ONLY <1>1, <3>2, SMTT(30)
      <4>2. me[queue[i]].pred = me[queue[i - 1]].node
        BY <4>1 DEF ClustersIInv, ClusterNodes
      <4> QED BY ONLY <1>11, <3>2, <4>1, <4>2, SMTT(30)
    <3>3. CASE i - n = 1 /\ i = n + 1 /\ i - n \in 1 .. k
      <4>0. i - 1 = n /\ n \in 1 .. n /\ n # 0
        BY ONLY <1>10a, <3>3, SMTT(30)
      <4>1. queue'[i] = t /\ queue # <<>>
        BY ONLY <1>1, <1>13, <3>3, <4>0, SMTT(30)
      <4>2. me[t].pred = me[queue[n]].node
        BY <4>1 DEF ClustersIInv, ClusterNodes
      <4>3. queue'[n] = queue[n] /\ me'[queue'[n]] = me[queue[n]]
        BY ONLY <1>11, <4>0
      <4> QED BY <4>0, <4>1, <4>2, <4>3
    <3>4. CASE i - n \in 1 .. k /\ n + (i - n) = i /\ i - n # 1
      <4> DEFINE e == i - n
      <4>1. e \in 1 .. k /\ e - 1 \in 1 .. k /\ n + e = i /\ n + (e - 1) = i - 1 /\ e # 1
        BY ONLY <1>10a, <2>1, <3>4, SMTT(30)
      <4> HIDE DEF e
      <4>2. queue'[n + e] = w[e] /\ e \in 1 .. Len(w) /\ queue'[n + (e - 1)] = w[e - 1]
        BY ONLY <1>13, <4>1
      <4>3. me'[w[e - 1]].node = me[w[e - 1]].node
        BY ONLY <1>12, <1>13, <4>1
      <4>4. me'[w[e]].pred = me[w[e - 1]].node
        BY ONLY <1>12, <4>1, <4>2, SMTT(30)
      <4> QED BY ONLY <4>1, <4>2, <4>3, <4>4, SMTT(30)
    <3> QED BY ONLY <1>14, <3>1, <3>2, <3>3, <3>4, SMTT(30)
  <2>2. shared'.mGlobalTail = me'[queue'[Len(queue')]].node
    <3>1. k \in 1 .. k /\ Len(queue') = n + k
      BY ONLY <1>10a, SMTT(30)
    <3>2. queue'[Len(queue')] = w[k] /\ k \in 1 .. Len(w)
      BY ONLY <1>13, <3>1, SMTT(30)
    <3> QED BY ONLY <1>6, <1>9, <1>12, <3>2, SMTT(30)
  <2>3. ASSUME NEW c \in Clusters!Clusters, NEW i \in 2 .. Len(order2[c])
        PROVE  me'[order2[c][i]].pred = me'[order2[c][i - 1]].node
    <3> DEFINE e == IF c = d THEN k + i ELSE i
               f == IF c = d THEN k + (i - 1) ELSE i - 1
    <3>1. i \in 1 .. Len(order2[c]) /\ i - 1 \in 1 .. Len(order2[c])
      <4>1. Len(order2[c]) \in Int
        BY ONLY <1>2, <1>10a, SMTT(30)
      <4> QED BY ONLY <4>1, SMTT(30)
    <3>2. e \in 1 .. Len(order[c]) /\ me'[order2[c][i]] = me[order[c][e]]
      BY ONLY <1>16, <3>1, SMTT(30)
    <3>3. me'[order2[c][i - 1]] = me[order[c][f]]
      BY ONLY <1>16, <3>1, SMTT(30)
    <3>4. e # 1 /\ f = e - 1
      BY ONLY <1>10a, SMTT(30)
    <3> HIDE DEF e, f
    <3>5. e \in 2 .. Len(order[c])
      BY ONLY <3>2, <3>4, SMTT(30)
    <3> QED BY ONLY <1>4, <3>2, <3>3, <3>4, <3>5
  <2>4. ASSUME NEW c \in Clusters!Clusters, order2[c] # <<>>
        PROVE  shared.mLocalTails[c] = me'[order2[c][Len(order2[c])]].node
    <3> DEFINE l == Len(order2[c])
               e == IF c = d THEN k + l ELSE l
    <3>1. l \in 1 .. l /\ e = Len(order[c]) /\ order[c] # <<>>
      <4>1. CASE c = d
        <5>1. l # 0 /\ l = Len(w) - k
          BY <2>4, <4>1
        <5>2. order[c] # <<>> /\ order[c] = w
          BY <4>1
        <5> HIDE DEF l
        <5>3. l \in 1 .. l /\ k + l = Len(w)
          BY ONLY <1>10a, <5>1, SMTT(30)
        <5> QED BY ONLY <4>1, <5>2, <5>3, SMTT(30)
      <4>2. CASE c # d
        BY <1>2, <2>4, <4>2
      <4> QED BY ONLY <4>1, <4>2, SMTT(30)
    <3>2. me'[order2[c][l]] = me[order[c][e]]
      BY ONLY <1>16, <2>4, <3>1
    <3> HIDE DEF e
    <3> QED BY ONLY <1>4, <3>1, <3>2, SMTT(30)
  <2>5. ASSUME NEW u \in QueueThreads, me'[u].pc = "splice"
        PROVE  \E i \in 1 .. Len(order2[Cluster[u]]) :
                 me'[u].tail = me'[order2[Cluster[u]][i]].node
    <3>1. u # t /\ me'[u] = me[u] /\ Cluster[u] \in Clusters!Clusters
      BY <1>1, <2>5
    <3>2. Cluster[u] # d
      <4>1. order[Cluster[u]][1] = u
        BY ONLY <1>3, <2>5, <3>1, ClusterHeads
      <4> QED BY <3>1, <4>1
    <3>3. order2[Cluster[u]] = order[Cluster[u]]
      BY <3>1, <3>2
    <3>4. PICK i \in 1 .. Len(order[Cluster[u]]) : me[u].tail = me[order[Cluster[u]][i]].node
      BY <2>5, <3>1 DEF ClustersIInv, ClusterNodes
    <3>5. order[Cluster[u]][i] \in QueueThreads
      BY ONLY <1>2, <3>1
    <3> QED BY ONLY <1>17, <2>5, <3>1, <3>3, <3>4, <3>5
  <2>6. /\ \A u, v \in QueueThreads : me'[u].node = me'[v].node => u = v
        /\ Spare' \in Clusters!Nodes /\ \A u \in QueueThreads : me'[u].node # Spare'
    <3>1. /\ \A u, v \in QueueThreads : me[u].node = me[v].node => u = v
          /\ Spare \in Clusters!Nodes /\ \A u \in QueueThreads : me[u].node # Spare
      BY DEF ClustersIInv, ClusterNodes
    <3> QED BY ONLY <1>17, <1>19, <3>1, SMTT(20)
  <2>7. \A c \in Clusters!Clusters : order2[c] # <<>> =>
          shared'.mLocalTails[c] = me'[order2[c][Len(order2[c])]].node
    BY <1>1, <2>4
  <2> QED BY ONLY <1>3, <2>1, <2>2, <2>3, <2>5, <2>6, <2>7, SMTT(30) DEF ClusterNodes
<1>22. ClusterWords'
  <2>1. ASSUME NEW i \in 2 .. Len(queue'), me'[queue'[i]].pc = "grant"
        PROVE  /\ Cluster[queue'[i - 1]] = Cluster[queue'[i]]
               /\ ~shared.mState[me'[queue'[i - 1]].node].tailWhenSpliced
    <3>1. i \in 1 .. Len(queue') /\ i - 1 \in 1 .. Len(queue')
      BY ONLY <1>10a
    <3>2. CASE i \in 1 .. n
      <4>1. i \in 2 .. n /\ i - 1 \in 1 .. n
        BY ONLY <1>1, <3>2
      <4>2. /\ queue'[i] = queue[i] /\ me'[queue'[i]] = me[queue[i]]
            /\ queue'[i - 1] = queue[i - 1] /\ me'[queue'[i - 1]] = me[queue[i - 1]]
        BY ONLY <1>11, <3>2, <4>1, SMTT(30)
      <4>3. me[queue[i]].pc = "grant" => /\ Cluster[queue[i - 1]] = Cluster[queue[i]]
                                        /\ ~shared.mState[me[queue[i - 1]].node].tailWhenSpliced
        BY <4>1 DEF ClustersIInv, ClusterWords
      <4> QED BY ONLY <2>1, <4>2, <4>3
    <3>3. CASE i - n = 1 /\ i = n + 1 /\ i - n \in 1 .. k
      <4>1. queue'[i] = t
        BY ONLY <1>13, <3>3, SMTT(30)
      <4> QED BY <2>1, <4>1
    <3>4. CASE i - n \in 1 .. k /\ n + (i - n) = i /\ i - n # 1
      <4> DEFINE e == i - n
      <4>1. e \in 1 .. k /\ e - 1 \in 1 .. k /\ n + e = i /\ n + (e - 1) = i - 1
        BY ONLY <1>10a, <3>1, <3>4, SMTT(30)
      <4> HIDE DEF e
      <4>2. queue'[n + e] = w[e] /\ e \in 1 .. Len(w)
        BY ONLY <1>13, <4>1, SMTT(30)
      <4>3. queue'[n + (e - 1)] = w[e - 1] /\ e - 1 \in 1 .. Len(w)
        BY ONLY <1>13, <4>1
      <4>4. /\ Cluster[w[e]] = d /\ Cluster[w[e - 1]] = d /\ w[e - 1] \in QueueThreads
            /\ ~Spliced(w[e - 1]) /\ me'[w[e - 1]].node = me[w[e - 1]].node
        BY ONLY <1>12, <4>2, <4>3
      <4>5. ~shared.mState[me[w[e - 1]].node].tailWhenSpliced
        BY ONLY <1>4b, <4>4, SMTT(30)
      <4> QED BY ONLY <4>1, <4>2, <4>3, <4>4, <4>5
    <3> QED BY ONLY <1>14, <3>1, <3>2, <3>3, <3>4
  <2>2. \A u \in QueueThreads :
          LET v == shared.mState[me'[u].node]
          IN  v.cluster = Cluster[u] /\ v.successorMustWait /\ (v.tailWhenSpliced => Spliced(u)')
    <3>1. \A u \in QueueThreads :
            LET v == shared.mState[me[u].node]
            IN  v.cluster = Cluster[u] /\ v.successorMustWait /\ (v.tailWhenSpliced => Spliced(u))
      BY DEF ClustersIInv, ClusterWords
    <3>2. \A u \in QueueThreads : Spliced(u) => Spliced(u)'
      BY ONLY <1>18, SMTT(30)
    <3> QED BY ONLY <1>17, <3>1, <3>2, SMTT(20)
  <2>3. LET v == shared.mState[Spare]
        IN  IF me'[queue'[1]].pc = "release"
            THEN v = Clusters!Fresh(queue'[1])
            ELSE /\ ~v.successorMustWait
                 /\ me'[queue'[1]].pc = "grant" => v.cluster = Cluster[queue'[1]] /\ ~v.tailWhenSpliced
    <3>1. CASE queue = <<>>
      <4>1. n + 1 = 1 /\ 1 \in 1 .. k
        <5>1. n = 0
          BY ONLY <1>1, <3>1
        <5> QED BY ONLY <1>10a, <5>1
      <4>2. queue'[1] = t
        BY ONLY <1>13, <4>1
      <4> QED BY <3>1, <4>2 DEF ClustersIInv, ClusterWords
    <3>2. CASE queue # <<>>
      <4>1. 1 \in 1 .. n
        BY ONLY <1>1, <3>2
      <4>2. queue'[1] = queue[1] /\ me'[queue'[1]] = me[queue[1]]
        BY ONLY <1>11, <4>1, SMTT(30)
      <4> QED BY <3>2, <4>2 DEF ClustersIInv, ClusterWords
    <3> QED BY ONLY <3>1, <3>2, SMTT(30)
  <2>4. queue' # <<>> /\ shared'.mState = shared.mState
    BY <1>1
  <2> QED BY ONLY <1>19, <2>1, <2>2, <2>3, <2>4, SMTT(20) DEF ClusterWords
<1>23. n + 1 \in 1 .. Len(queue') /\ n + k \in 1 .. Len(queue') /\ n + 1 <= n + k
       /\ queue'[n + 1] = t /\ me[t].tail = me'[queue'[n + k]].node /\ Cluster[queue'[n + k]] = d
  <2>1. k \in 1 .. k /\ n + 1 <= n + k
    BY ONLY <1>10a, SMTT(30)
  <2>2. n + 1 \in 1 .. Len(queue') /\ n + k \in 1 .. Len(queue') /\ queue'[n + 1] = t
        /\ queue'[n + k] = w[k] /\ k \in 1 .. Len(w)
    BY ONLY <1>13, <2>1, SMTT(30)
  <2> QED BY ONLY <1>6, <1>12, <2>1, <2>2, SMTT(30)
<1>24. ClusterMarks'
  <2> SUFFICES ASSUME NEW m \in QueueThreads, me'[m].pc = "mark"
               PROVE  \E i, j \in 1 .. Len(queue') :
                        /\ i <= j /\ queue'[i] = m /\ me'[m].tail = me'[queue'[j]].node
                        /\ j < Len(queue') => me'[queue'[j + 1]].pc # "grant"
    BY Zenon DEF ClusterMarks
  <2>1. CASE m = t
    <3>1. ~(n + k < Len(queue'))
      BY ONLY <1>10a, SMTT(30)
    <3> QED BY <1>23, <2>1, <3>1
  <2>2. CASE m # t
    <3>1. me'[m] = me[m]
      BY <2>2
    <3>2. PICK i \in 1 .. n, j \in 1 .. n :
            /\ i <= j /\ queue[i] = m /\ me[m].tail = me[queue[j]].node
            /\ j < n => me[queue[j + 1]].pc # "grant"
      BY <3>1 DEF ClustersIInv, ClusterMarks
    <3>3. j < n => j + 1 \in 1 .. n
      BY ONLY <1>10a, SMTT(30)
    <3>4. ~(j < n) => j + 1 = n + 1
      BY ONLY <1>10a, SMTT(30)
    <3>5. j < n => me'[queue'[j + 1]].pc # "grant"
      BY ONLY <1>11, <3>2, <3>3, SMTT(30)
    <3>6. me'[queue'[j + 1]].pc # "grant"
      BY <1>23, <3>4, <3>5
    <3>7. /\ i \in 1 .. Len(queue') /\ queue'[i] = m /\ j \in 1 .. Len(queue')
          /\ me'[queue'[j]] = me[queue[j]]
      BY ONLY <1>11, <3>2, SMTT(30)
    <3> QED BY ONLY <3>1, <3>2, <3>6, <3>7, SMTT(30)
  <2> QED BY ONLY <2>1, <2>2
<1>25. ASSUME NEW m, Marked(m) PROVE Marked(m)'
  <2>1. \A u \in QueueThreads : me[u].pc = "mark" => me'[u] = me[u]
    OBVIOUS
  <2> QED BY <1>1, <1>25, <2>1 DEF Marked
<1>26. Cluster[t] = d /\ \A i \in 1 .. k : Cluster[queue'[n + i]] = d
  <2>1. ASSUME NEW i \in 1 .. k PROVE Cluster[queue'[n + i]] = d
    <3>1. queue'[n + i] = w[i] /\ i \in 1 .. Len(w)
      BY ONLY <1>13, SMTT(30)
    <3> QED BY ONLY <1>12, <3>1, SMTT(30)
  <2> QED BY <2>1
<1>27. ASSUME NEW c \in Clusters!Clusters, c # d, NEW m, Boundary(c, m) PROVE Boundary(c, m)'
  <2>1. ASSUME NEW i \in 1 .. Len(queue'), i \notin 1 .. n PROVE Cluster[queue'[i]] # c
    <3>1. i - n \in 1 .. k /\ n + (i - n) = i
      BY ONLY <1>14, <2>1, SMTT(30)
    <3> QED BY ONLY <1>26, <1>27, <3>1
  <2>2. ASSUME NEW j \in 1 .. n, me[queue[j]].node = m, Cluster[queue[j]] = c, Marked(m),
               \A i \in 1 .. n : i > j => Cluster[queue[i]] # c
        PROVE  Boundary(c, m)'
    <3>1. ASSUME NEW i \in 1 .. Len(queue'), i > j PROVE Cluster[queue'[i]] # c
      <4>1. CASE i \in 1 .. n
        BY ONLY <1>11, <2>2, <3>1, <4>1, SMTT(30)
      <4>2. CASE i \notin 1 .. n
        BY ONLY <2>1, <4>2, SMTT(30)
      <4> QED BY ONLY <4>1, <4>2
    <3>2. j \in 1 .. Len(queue') /\ me'[queue'[j]].node = m /\ Cluster[queue'[j]] = c
      BY ONLY <1>11, <2>2, SMTT(30)
    <3>3. Marked(m)'
      BY ONLY <1>25, <2>2, SMTT(30)
    <3> QED BY ONLY <3>1, <3>2, <3>3 DEF Boundary
  <2>3. ASSUME \A i \in 1 .. n : Cluster[queue[i]] # c
        PROVE  \A i \in 1 .. Len(queue') : Cluster[queue'[i]] # c
    <3> SUFFICES ASSUME NEW i \in 1 .. Len(queue') PROVE Cluster[queue'[i]] # c
      OBVIOUS
    <3>1. CASE i \in 1 .. n
      BY ONLY <1>11, <2>3, <3>1, SMTT(30)
    <3>2. CASE i \notin 1 .. n
      BY ONLY <2>1, <3>2, SMTT(30)
    <3> QED BY ONLY <3>1, <3>2, SMTT(30)
  <2> QED BY <1>1, <1>27, <2>2, <2>3 DEF Boundary
<1>28. ASSUME NEW m, m = me[t].tail PROVE Boundary(d, m)'
  <2>1. Marked(m)'
    <3>1. me'[t].pc = "mark" /\ me'[t].tail = m
      BY <1>28
    <3> QED BY ONLY <3>1, SMTT(30) DEF Marked
  <2>2. \A i \in 1 .. Len(queue') : ~(i > n + k)
    BY ONLY <1>10a, SMTT(30)
  <2> QED BY ONLY <1>23, <1>28, <2>1, <2>2, SMTT(30) DEF Boundary
<1>29. ASSUME NEW c \in Clusters!Clusters, order2[c] = <<>>, NEW m, m = shared.mLocalTails[c], m # Null
       PROVE  Boundary(c, m)'
  <2>1. CASE c = d
    <3>1. k = Len(w)
      BY <1>10a, <1>29, <2>1
    <3>2. m = me[t].tail
      BY <1>1, <1>4, <1>29, <2>1, <3>1
    <3> QED BY ONLY <1>28, <2>1, <3>2, SMTT(30)
  <2>2. CASE c # d
    <3>1. order[c] = <<>>
      BY <1>29, <2>2
    <3>2. Boundary(c, m)
      BY <1>29, <3>1 DEF ClustersIInv, ClusterBoundaries
    <3> QED BY ONLY <1>27, <2>2, <3>2, SMTT(30)
  <2> QED BY ONLY <2>1, <2>2, SMTT(30)
<1>30. ASSUME NEW c \in Clusters!Clusters, order2[c] # <<>>, me'[order2[c][1]].pc = "grant",
              NEW m, m = me'[order2[c][1]].pred
       PROVE  Boundary(c, m)'
  <2>1. CASE c = d
    <3>0. Len(order2[d]) # 0 /\ Len(order2[d]) = Len(w) - k
      BY <1>30, <2>1
    <3>1. 1 \in 1 .. Len(order2[d]) /\ k + 1 \in 2 .. Len(w) /\ k + 1 - 1 = k
      BY ONLY <1>10a, <3>0
    <3>2. me'[order2[d][1]] = me[w[k + 1]]
      BY ONLY <1>1, <1>3, <1>16, <3>1
    <3>3. me[w[k + 1]].pred = me[w[k]].node
      <4>1. ASSUME NEW e \in 2 .. Len(w), e - 1 = k PROVE me[w[e]].pred = me[w[k]].node
        BY ONLY <1>4a, <4>1, SMTT(30)
      <4>2. k + 1 \in 2 .. Len(w) /\ k + 1 - 1 = k /\ k \in Nat
        BY ONLY <1>10a, <3>1
      <4> QED BY ONLY <4>1, <4>2
    <3>4. m = me[w[k + 1]].pred
      BY ONLY <1>30, <2>1, <3>2
    <3>5. m = me[t].tail
      BY ONLY <1>6, <3>3, <3>4
    <3> QED BY ONLY <1>28, <2>1, <3>5
  <2>2. CASE c # d
    <3>1. order2[c] = order[c] /\ 1 \in 1 .. Len(order2[c])
      BY <1>2, <1>30, <2>2
    <3>2. me'[order2[c][1]] = me[order[c][1]]
      BY ONLY <1>16, <2>2, <3>1, SMTT(30)
    <3>3. Boundary(c, m)
      BY <1>30, <3>1, <3>2 DEF ClustersIInv, ClusterBoundaries
    <3> QED BY ONLY <1>27, <2>2, <3>3
  <2> QED BY ONLY <2>1, <2>2
<1>31. ClusterBoundaries'
  <2>1. shared'.mLocalTails = shared.mLocalTails
    BY <1>1
  <2> QED BY <1>29, <1>30, <2>1 DEF ClusterBoundaries
<1> QED BY <1>20, <1>21, <1>22, <1>24, <1>31 DEF ClustersIInv

(* A master puts its local queue, up to its kth thread, into the queue.    *)
LEMMA ClusterSplice ==
  ASSUME ClustersIInv, NEW t \in QueueThreads, me[t].pc = "splice",
         NEW k, k \in 1 .. Len(shared.order[Cluster[t]]),
         me[t].tail = me[shared.order[Cluster[t]][k]].node, shared.mGlobalTail = me[t].pred,
         me'[t].pc = "mark", me'[t].node = me[t].node, me'[t].pred = me[t].pred,
         me'[t].tail = me[t].tail, \A u \in QueueThreads : u # t => me'[u] = me[u],
         queue' = queue \o SubSeq(shared.order[Cluster[t]], 1, k),
         shared' = [shared EXCEPT
           !.mGlobalTail = me[t].tail,
           !.order[Cluster[t]] = SubSeq(shared.order[Cluster[t]], k + 1, Len(shared.order[Cluster[t]]))],
         Clusters!TypeOK'
  PROVE  /\ ClustersIInv' /\ Clusters!Inside' = Clusters!Inside
         /\ Len(queue) < Len(queue') /\ SubSeq(queue', 1, Len(queue)) = queue /\ Distinct(queue')
<1> DEFINE d == Cluster[t]
           order == shared.order
           order2 == shared'.order
           w == order[d]
           n == Len(queue)
<1>0. ClustersIInv /\ t \in QueueThreads /\ me[t].pc = "splice"
  OBVIOUS
<1>1. /\ queue \in Seq(QueueThreads) /\ n \in Nat /\ (queue = <<>> <=> n = 0)
      /\ \A i \in 1 .. n : queue[i] \in QueueThreads
      /\ \A u \in QueueThreads : me[u].node \in Clusters!Nodes /\ Cluster[u] \in Clusters!Clusters
      /\ shared \in [mLocalTails : [Clusters!Clusters -> Clusters!Nodes \cup {Null}],
                     mGlobalTail : Clusters!Nodes,
                     mState : [Clusters!Nodes -> ClusterWord],
                     order : [Clusters!Clusters -> Seq(QueueThreads)]]
  BY ClusterTypes DEF ClustersIInv
<1>2. \A c \in Clusters!Clusters : /\ order[c] \in Seq(QueueThreads) /\ Len(order[c]) \in Nat
                                   /\ order[c] = <<>> <=> Len(order[c]) = 0
                                   /\ \A i \in 1 .. Len(order[c]) : order[c][i] \in QueueThreads
  BY ClusterTypes DEF ClustersIInv
<1>3. /\ shared'.mLocalTails = shared.mLocalTails /\ shared'.mState = shared.mState
      /\ shared'.mGlobalTail = me[t].tail
      /\ order2 = [order EXCEPT ![d] = SubSeq(w, k + 1, Len(w))]
      /\ order \in [Clusters!Clusters -> Seq(QueueThreads)]
      /\ d \in Clusters!Clusters
  BY <1>1
<1>4. ASSUME NEW c \in Clusters!Clusters
      PROVE  /\ Distinct(order[c]) /\ \A i \in 1 .. Len(order[c]) : Cluster[order[c][i]] = c
             /\ \A i \in 2 .. Len(order[c]) :
                  /\ me[order[c][i]].pc = "grant"
                  /\ me[order[c][i]].pred = me[order[c][i - 1]].node
             /\ order[c] # <<>> => shared.mLocalTails[c] = me[order[c][Len(order[c])]].node
  BY ONLY <1>0, <1>4, ZenonT(40) DEF ClustersIInv, ClusterQueues, ClusterNodes, order
<1>5. \A u \in QueueThreads :
        /\ Spliced(u) => me[u].pc \in {"grant", "mark", "spin", "in", "release"} /\ ~Local(u)
        /\ Local(u) => me[u].pc \in {"grant", "load", "tail", "splice"}
        /\ me[u].pc = "out" \/ Spliced(u) \/ Local(u)
  BY DEF ClustersIInv, ClusterQueues
<1>6. w # <<>> /\ w[1] = t
  BY ONLY <1>0, ClusterHeads DEF w, d, order
<1>7. \A u : Contains(w, u) => u \in QueueThreads /\ Cluster[u] = d /\ Local(u) /\ ~Spliced(u)
  <2> SUFFICES ASSUME NEW i \in 1 .. Len(w)
               PROVE  w[i] \in QueueThreads /\ Cluster[w[i]] = d /\ Local(w[i]) /\ ~Spliced(w[i])
    BY SMTT(20) DEF Contains
  <2>1. w[i] \in QueueThreads /\ Cluster[w[i]] = d
    BY ONLY <1>2, <1>3, <1>4, SMTT(30)
  <2>2. Local(w[i])
    BY ONLY <2>1, SMTT(30) DEF Local, Contains
  <2> QED BY ONLY <1>5, <2>1, <2>2, SMTT(30)
<1>8. me[t].tail = me[w[k]].node
  OBVIOUS
<1> HIDE DEF order, order2, w, d, n
<1>9. /\ order2[d] = SubSeq(w, k + 1, Len(w))
      /\ \A c \in Clusters!Clusters : c # d => order2[c] = order[c]
  BY ONLY <1>3
<1>10. /\ Len(queue') = n + k /\ n < Len(queue') /\ queue' # <<>> /\ Distinct(queue')
       /\ k \in Nat /\ 1 <= k /\ k <= Len(w) /\ SubSeq(queue', 1, n) = queue
       /\ \A i \in 1 .. n : queue'[i] = queue[i]
       /\ \A i \in 1 .. k : queue'[n + i] = w[i]
       /\ \A u : Contains(queue', u) <=> Contains(queue, u) \/ \E i \in 1 .. k : w[i] = u
       /\ Len(order2[d]) = Len(w) - k /\ (order2[d] = <<>> <=> Len(order2[d]) = 0)
       /\ Distinct(order2[d])
       /\ \A i \in 1 .. Len(w) - k : order2[d][i] = w[k + i]
       /\ \A u : Contains(order2[d], u) <=> Contains(w, u) /\ \A i \in 1 .. k : w[i] # u
  <2>1. Distinct(queue) /\ Distinct(w) /\ w \in Seq(QueueThreads)
    BY <1>2, <1>3, <1>4 DEF ClustersIInv, ClusterQueues, w
  <2>2. \A u : Contains(queue, u) => ~Contains(w, u)
    BY ONLY <1>7, SMTT(30) DEF Spliced
  <2>3. queue' = queue \o SubSeq(w, 1, k) /\ k \in 1 .. Len(w)
    BY DEF w, d, order
  <2>4. queue \in Seq(QueueThreads) /\ n = Len(queue)
    BY ONLY <1>1 DEF n
  <2>5. Splices(QueueThreads, queue, w, k, queue', order2[d])
    BY ONLY <1>9, <2>1, <2>2, <2>3, <2>4 DEF Splices
  <2>6. /\ Len(queue') = Len(queue) + k /\ Len(queue) < Len(queue') /\ queue' # <<>>
        /\ Distinct(queue') /\ k \in Nat /\ 1 <= k /\ k <= Len(w)
        /\ SubSeq(queue', 1, Len(queue)) = queue
        /\ \A i \in 1 .. Len(queue) : queue'[i] = queue[i]
        /\ \A i \in 1 .. k : queue'[Len(queue) + i] = w[i]
        /\ \A y : Contains(queue', y) <=> Contains(queue, y) \/ \E i \in 1 .. k : w[i] = y
    BY ONLY <2>5, SpliceQueues, SMTT(30)
  <2>7. /\ Len(order2[d]) = Len(w) - k /\ (order2[d] = <<>> <=> Len(order2[d]) = 0)
        /\ Distinct(order2[d])
        /\ \A i \in 1 .. Len(w) - k : order2[d][i] = w[k + i]
        /\ \A y : Contains(order2[d], y) <=> Contains(w, y) /\ \A i \in 1 .. k : w[i] # y
    BY ONLY <2>5, SpliceQueues, SMTT(30)
  <2> QED BY ONLY <2>4, <2>6, <2>7, Zenon
<1>11. ClustersIInv'
  <2>1. /\ ClustersIInv /\ t \in QueueThreads /\ me[t].pc = "splice" /\ shared.mGlobalTail = me[t].pred
        /\ me'[t].pc = "mark" /\ me'[t].node = me[t].node /\ me'[t].pred = me[t].pred
        /\ me'[t].tail = me[t].tail /\ Clusters!TypeOK' /\ \A u \in QueueThreads : u # t => me'[u] = me[u]
    OBVIOUS
  <2>2. d = Cluster[t] /\ order = shared.order /\ order2 = shared'.order /\ n = Len(queue) /\ w = order[d]
    BY DEF d, order, order2, n, w
  <2>3. /\ Len(queue') = n + k /\ Distinct(queue') /\ queue' # <<>>
        /\ \A i \in 1 .. n : queue'[i] = queue[i]
        /\ \A i \in 1 .. k : queue'[n + i] = w[i]
        /\ \A u : Contains(queue', u) <=> Contains(queue, u) \/ \E i \in 1 .. k : w[i] = u
    BY ONLY <1>10
  <2>4. /\ k \in Nat /\ 1 <= k /\ k <= Len(w)
        /\ Len(order2[d]) = Len(w) - k /\ (order2[d] = <<>> <=> Len(order2[d]) = 0)
        /\ Distinct(order2[d])
        /\ \A i \in 1 .. Len(w) - k : order2[d][i] = w[k + i]
        /\ \A u : Contains(order2[d], u) <=> Contains(w, u) /\ \A i \in 1 .. k : w[i] # u
    BY ONLY <1>10, SMTT(30)
  <2>5. /\ shared'.mLocalTails = shared.mLocalTails /\ shared'.mState = shared.mState
        /\ shared'.mGlobalTail = me[t].tail
    BY ONLY <1>3
  <2>6. Splicing(t, d, order, order2, n, w, k)
    BY ONLY Zenon, <1>6, <1>8, <1>9, <2>1, <2>2, <2>3, <2>4, <2>5 DEF Splicing
  <2> QED BY ONLY <2>1, <2>6, ClusterSpliced
<1>12. Clusters!Inside' = Clusters!Inside
  BY DEF Clusters!Inside
<1> QED BY ONLY <1>10, <1>11, <1>12, SMTT(30) DEF n

(* The fields of the lock after a change of one of them.                   *)
LEMMA ClusterFields ==
  ASSUME NEW F, F = [mLocalTails : [Clusters!Clusters -> Clusters!Nodes \cup {Null}],
                     mGlobalTail : Clusters!Nodes,
                     mState : [Clusters!Nodes -> ClusterWord],
                     order : [Clusters!Clusters -> Seq(QueueThreads)]],
         NEW s \in F
  PROVE  /\ \A n \in Clusters!Nodes, w \in ClusterWord : [s EXCEPT !.mState[n] = w] \in F
         /\ \A n \in Clusters!Nodes :
              /\ [s EXCEPT !.mState[n].tailWhenSpliced = TRUE] \in F
              /\ [s EXCEPT !.mState[n].successorMustWait = FALSE] \in F
         /\ \A c \in Clusters!Clusters, n \in Clusters!Nodes, o \in Seq(QueueThreads) :
              /\ [s EXCEPT !.mLocalTails[c] = n, !.order[c] = o] \in F
              /\ [s EXCEPT !.mGlobalTail = n, !.order[c] = o] \in F
<1>1. /\ s.mState \in [Clusters!Nodes -> ClusterWord]
      /\ s.mLocalTails \in [Clusters!Clusters -> Clusters!Nodes \cup {Null}]
      /\ s.order \in [Clusters!Clusters -> Seq(QueueThreads)]
  OBVIOUS
<1>2. ASSUME NEW n \in Clusters!Nodes, NEW w \in ClusterWord
      PROVE  [s EXCEPT !.mState[n] = w] \in F
  <2> DEFINE m == [s.mState EXCEPT ![n] = w]
  <2>1. m \in [Clusters!Nodes -> ClusterWord]
    BY ONLY <1>1
  <2>2. [s EXCEPT !.mState[n] = w] = [s EXCEPT !.mState = m]
    OBVIOUS
  <2> HIDE DEF m
  <2> QED BY <2>1, <2>2
<1>3. ASSUME NEW n \in Clusters!Nodes
      PROVE  /\ [s EXCEPT !.mState[n].tailWhenSpliced = TRUE] \in F
             /\ [s EXCEPT !.mState[n].successorMustWait = FALSE] \in F
  <2> DEFINE v == [s.mState[n] EXCEPT !.tailWhenSpliced = TRUE]
             w == [s.mState[n] EXCEPT !.successorMustWait = FALSE]
  <2>1. v \in ClusterWord /\ w \in ClusterWord
    BY ONLY <1>1 DEF ClusterWord
  <2>2. /\ [s EXCEPT !.mState[n].tailWhenSpliced = TRUE] = [s EXCEPT !.mState[n] = v]
        /\ [s EXCEPT !.mState[n].successorMustWait = FALSE] = [s EXCEPT !.mState[n] = w]
    BY ONLY <1>1
  <2> HIDE DEF v, w
  <2> QED BY ONLY <1>2, <1>3, <2>1, <2>2, SMTT(30)
<1>4. ASSUME NEW c \in Clusters!Clusters, NEW n \in Clusters!Nodes, NEW o \in Seq(QueueThreads)
      PROVE  /\ [s EXCEPT !.mLocalTails[c] = n, !.order[c] = o] \in F
             /\ [s EXCEPT !.mGlobalTail = n, !.order[c] = o] \in F
  <2> DEFINE m == [s.mLocalTails EXCEPT ![c] = n]
             l == [s.order EXCEPT ![c] = o]
  <2>1. /\ m \in [Clusters!Clusters -> Clusters!Nodes \cup {Null}]
        /\ l \in [Clusters!Clusters -> Seq(QueueThreads)]
    BY ONLY <1>1
  <2>2. /\ [s EXCEPT !.mLocalTails[c] = n, !.order[c] = o] = [s EXCEPT !.mLocalTails = m, !.order = l]
        /\ [s EXCEPT !.mGlobalTail = n, !.order[c] = o] = [s EXCEPT !.mGlobalTail = n, !.order = l]
    OBVIOUS
  <2> HIDE DEF m, l
  <2> QED BY <2>1, <2>2
<1>5. \A n \in Clusters!Nodes, w \in ClusterWord : [s EXCEPT !.mState[n] = w] \in F
  BY ONLY <1>2, Zenon
<1>6. \A n \in Clusters!Nodes : /\ [s EXCEPT !.mState[n].tailWhenSpliced = TRUE] \in F
                               /\ [s EXCEPT !.mState[n].successorMustWait = FALSE] \in F
  BY ONLY <1>3, Zenon
<1>7. \A c \in Clusters!Clusters, n \in Clusters!Nodes, o \in Seq(QueueThreads) :
        /\ [s EXCEPT !.mLocalTails[c] = n, !.order[c] = o] \in F
        /\ [s EXCEPT !.mGlobalTail = n, !.order[c] = o] \in F
  BY ONLY <1>4, Zenon
<1> QED BY ONLY <1>5, <1>6, <1>7, Zenon

LEMMA InitClusters == lock = "clusters" /\ Clusters!Init => ClustersIInv /\ Inside = {}
<1> SUFFICES ASSUME lock = "clusters", Clusters!Init PROVE ClustersIInv /\ Inside = {}
  OBVIOUS
<1> DEFINE own(n) == CHOOSE t \in QueueThreads : OwnNode[t] = n
<1>1. /\ queue = <<>> /\ me = [t \in QueueThreads |->
           [pc |-> "out", node |-> OwnNode[t], pred |-> Null, tail |-> Null]]
      /\ shared.mLocalTails = [c \in Clusters!Clusters |-> Null]
      /\ shared.mGlobalTail = FirstNode /\ shared.order = [c \in Clusters!Clusters |-> <<>>]
      /\ shared.mState = [n \in Clusters!Nodes |->
           IF n = FirstNode THEN Clusters!Word(0, FALSE, FALSE)
           ELSE Clusters!Fresh(own(n))]
      /\ shared = [mLocalTails |-> shared.mLocalTails, mGlobalTail |-> shared.mGlobalTail,
                   mState |-> shared.mState, order |-> shared.order]
  BY DEF Clusters!Init
<1>2. /\ FirstNode \in Clusters!Nodes /\ \A t \in QueueThreads : OwnNode[t] \in Clusters!Nodes
      /\ \A t \in QueueThreads : OwnNode[t] # FirstNode
      /\ \A t, u \in QueueThreads : OwnNode[t] = OwnNode[u] => t = u
      /\ \A t \in QueueThreads : Cluster[t] \in Clusters!Clusters
  BY ONLY LockAssumptions DEF Clusters!Nodes, Clusters!Clusters, Clusters!NodeAssumption
<1>2a. \A t \in QueueThreads : own(OwnNode[t]) = t
  BY ONLY <1>2
<1> HIDE DEF own
<1>3. Len(queue) = 0 /\ 1 .. Len(queue) = {} /\ 2 .. Len(queue) = {}
  BY ONLY <1>1
<1>4. ASSUME NEW c \in Clusters!Clusters
      PROVE  /\ shared.order[c] = <<>> /\ Len(shared.order[c]) = 0
             /\ 1 .. Len(shared.order[c]) = {} /\ 2 .. Len(shared.order[c]) = {}
  <2>1. shared.order[c] = <<>>
    BY ONLY <1>1
  <2>2. Len(shared.order[c]) = 0
    BY ONLY <2>1
  <2> QED BY ONLY <2>1, <2>2
<1>5. \A t \in QueueThreads : me[t].pc = "out" /\ me[t].node = OwnNode[t]
  BY ONLY <1>1
<1>6. \A t \in QueueThreads : shared.mState[OwnNode[t]] = Clusters!Fresh(t)
  BY ONLY <1>1, <1>2, <1>2a
<1>7. shared.mState[FirstNode] = Clusters!Word(0, FALSE, FALSE)
  BY ONLY <1>1, <1>2
<1>7a. /\ Clusters!Word(0, FALSE, FALSE) \in ClusterWord
       /\ ~Clusters!Word(0, FALSE, FALSE).successorMustWait
  BY DEF Clusters!Word, ClusterWord
<1>7b. \A t \in QueueThreads :
         /\ Clusters!Fresh(t) \in ClusterWord /\ Clusters!Fresh(t).cluster = Cluster[t]
         /\ Clusters!Fresh(t).successorMustWait /\ ~Clusters!Fresh(t).tailWhenSpliced
  BY ONLY <1>2 DEF Clusters!Fresh, Clusters!Word, ClusterWord
<1>8. Clusters!TypeOK
  <2>1. shared.mState \in [Clusters!Nodes -> ClusterWord]
    <3>1. ASSUME NEW n \in Clusters!Nodes PROVE shared.mState[n] \in ClusterWord
      <4>1. CASE n = FirstNode
        BY ONLY <1>7, <1>7a, <4>1
      <4>2. CASE n # FirstNode
        <5>1. PICK t \in QueueThreads : n = OwnNode[t]
          BY ONLY <4>2 DEF Clusters!Nodes
        <5> QED BY ONLY <1>6, <1>7b, <5>1
      <4> QED BY ONLY <4>1, <4>2
    <3> QED BY ONLY <1>1, <3>1
  <2>2. shared \in [mLocalTails : [Clusters!Clusters -> Clusters!Nodes \cup {Null}],
                    mGlobalTail : Clusters!Nodes,
                    mState : [Clusters!Nodes -> ClusterWord],
                    order : [Clusters!Clusters -> Seq(QueueThreads)]]
    <3>1. <<>> \in Seq(QueueThreads)
      OBVIOUS
    <3>2. /\ shared.mLocalTails \in [Clusters!Clusters -> Clusters!Nodes \cup {Null}]
          /\ shared.order \in [Clusters!Clusters -> Seq(QueueThreads)]
          /\ shared.mGlobalTail \in Clusters!Nodes
      BY ONLY <1>1, <1>2, <3>1
    <3> QED BY ONLY <1>1, <2>1, <3>2
  <2>3. me \in [QueueThreads -> [pc : ClusterLabels, node : Clusters!Nodes,
                                 pred : Clusters!Nodes \cup {Null},
                                 tail : Clusters!Nodes \cup {Null}]]
    BY ONLY <1>1, <1>2 DEF ClusterLabels
  <2>4. queue \in Seq(QueueThreads)
    BY ONLY <1>1
  <2> QED BY ONLY <2>2, <2>3, <2>4 DEF Clusters!TypeOK, ClusterLabels, ClusterWord
<1>9. ClusterQueues
  BY ONLY <1>2, <1>3, <1>4, <1>5 DEF ClusterQueues, Distinct, Spliced, Local, Contains
<1>10. Spare = FirstNode
  BY ONLY <1>1 DEF Spare
<1>11. ClusterNodes
  BY ONLY <1>1, <1>2, <1>3, <1>4, <1>5, <1>10 DEF ClusterNodes
<1>12. ClusterWords
  <2>1. \A t \in QueueThreads :
          LET w == shared.mState[me[t].node]
          IN  w.cluster = Cluster[t] /\ w.successorMustWait /\ ~w.tailWhenSpliced
    BY ONLY <1>5, <1>6, <1>7b
  <2>2. ~shared.mState[Spare].successorMustWait
    BY ONLY <1>7, <1>7a, <1>10
  <2> QED BY ONLY <1>1, <1>3, <2>1, <2>2 DEF ClusterWords
<1>13. ClusterMarks
  BY ONLY <1>5 DEF ClusterMarks
<1>14. ClusterBoundaries
  BY ONLY <1>1, <1>4 DEF ClusterBoundaries
<1>15. Inside = {}
  BY <1>5 DEF Inside, Clusters!Inside
<1> QED BY ONLY <1>8, <1>9, <1>11, <1>12, <1>13, <1>14, <1>15 DEF ClustersIInv

LEMMA NextClusters ==
  ASSUME lock = "clusters", ClustersIInv, lock' = lock,
         NEW t \in QueueThreads, Clusters!Step(t) \/ Clusters!Lock(t)
  PROVE  ClustersIInv' /\ [Fifo!Next]_<<queue, Inside>>
<1> DEFINE Places == Clusters!Nodes \cup {Null}
           Records == [QueueThreads -> [pc : ClusterLabels, node : Clusters!Nodes,
                                        pred : Places, tail : Places]]
           Fields == [mLocalTails : [Clusters!Clusters -> Places],
                      mGlobalTail : Clusters!Nodes,
                      mState : [Clusters!Nodes -> ClusterWord],
                      order : [Clusters!Clusters -> Seq(QueueThreads)]]
           c == Cluster[t]
<1>1. Clusters!TypeOK /\ ClustersIInv
  BY DEF ClustersIInv
<1>2. /\ me \in Records /\ shared \in Fields /\ queue \in Seq(QueueThreads) /\ c \in Clusters!Clusters
      /\ \A d \in Clusters!Clusters : shared.order[d] \in Seq(QueueThreads)
      /\ shared.mGlobalTail \in Clusters!Nodes /\ shared.mLocalTails[c] \in Places
      /\ me[t].node \in Clusters!Nodes /\ me[t].pred \in Places /\ me[t].tail \in Places
  <2>1. me \in Records /\ shared \in Fields /\ queue \in Seq(QueueThreads) /\ c \in Clusters!Clusters
    BY ONLY <1>1, ClusterTypes
  <2>2. shared.mLocalTails \in [Clusters!Clusters -> Places] /\ shared.mGlobalTail \in Clusters!Nodes
    BY ONLY <2>1
  <2>3. me[t].node \in Clusters!Nodes /\ me[t].pred \in Places /\ me[t].tail \in Places
    BY ONLY <2>1
  <2>4. \A d \in Clusters!Clusters : shared.order[d] \in Seq(QueueThreads)
    BY ONLY <1>1, ClusterTypes, SMTT(30)
  <2> QED BY ONLY <2>1, <2>2, <2>3, <2>4, SMTT(30)
<1>3. Distinct(queue)
  BY ONLY <1>1 DEF ClustersIInv, ClusterQueues
<1>4. ASSUME me' \in Records, shared' \in Fields, queue' \in Seq(QueueThreads)
      PROVE  Clusters!TypeOK'
  BY ONLY <1>4 DEF Clusters!TypeOK, ClusterLabels, ClusterWord
<1>5. Inside = Clusters!Inside /\ Inside' = Clusters!Inside'
  BY DEF Inside
<1>6. ASSUME \/ /\ queue # <<>> /\ queue[1] = t /\ t \notin Clusters!Inside
                /\ queue' = queue /\ Clusters!Inside' = Clusters!Inside \cup {t}
             \/ /\ t \in Clusters!Inside /\ queue' = Tail(queue)
                /\ Clusters!Inside' = Clusters!Inside \ {t}
             \/ queue' = queue /\ Clusters!Inside' = Clusters!Inside
      PROVE  [Fifo!Next]_<<queue, Inside>>
  BY ONLY <1>2, <1>3, <1>5, <1>6, FifoStep, SMTT(30)
<1>7. ASSUME NEW p \in ClusterLabels, Clusters!Becomes(t, [pc |-> p])
      PROVE  /\ me' \in Records /\ \A u \in QueueThreads : u # t => me'[u] = me[u]
             /\ me'[t].pc = p /\ me'[t].node = me[t].node /\ me'[t].pred = me[t].pred
             /\ me'[t].tail = me[t].tail
  <2>1. Moves(t, p, me[t].node, me[t].pred, me[t].tail)
    BY ONLY <1>2, <1>7, SMTT(30) DEF Moves
  <2> QED BY ONLY <1>1, <2>1, ClusterBecomes, SMTT(30)
<1>8. ASSUME NEW p \in ClusterLabels, NEW q \in Places, Clusters!Becomes(t, [pc |-> p, pred |-> q])
      PROVE  /\ me' \in Records /\ \A u \in QueueThreads : u # t => me'[u] = me[u]
             /\ me'[t].pc = p /\ me'[t].node = me[t].node /\ me'[t].pred = q
             /\ me'[t].tail = me[t].tail
  <2>1. Moves(t, p, me[t].node, q, me[t].tail)
    BY ONLY <1>2, <1>8, SMTT(30) DEF Moves
  <2> QED BY ONLY <1>1, <2>1, ClusterBecomes, SMTT(30)
<1>9. ASSUME NEW p \in ClusterLabels, NEW l \in Places, Clusters!Becomes(t, [pc |-> p, tail |-> l])
      PROVE  /\ me' \in Records /\ \A u \in QueueThreads : u # t => me'[u] = me[u]
             /\ me'[t].pc = p /\ me'[t].node = me[t].node /\ me'[t].pred = me[t].pred
             /\ me'[t].tail = l
  <2>1. Moves(t, p, me[t].node, me[t].pred, l)
    BY ONLY <1>2, <1>9 DEF Moves
  <2> QED BY ONLY <1>1, <2>1, ClusterBecomes, SMTT(30)
<1>10. /\ "out" \in ClusterLabels /\ "grant" \in ClusterLabels /\ "load" \in ClusterLabels
       /\ "tail" \in ClusterLabels /\ "splice" \in ClusterLabels /\ "mark" \in ClusterLabels
       /\ "spin" \in ClusterLabels /\ "in" \in ClusterLabels /\ "release" \in ClusterLabels
  BY DEF ClusterLabels
<1>11. /\ \A n \in Clusters!Nodes, w \in ClusterWord : [shared EXCEPT !.mState[n] = w] \in Fields
       /\ \A n \in Clusters!Nodes :
            /\ [shared EXCEPT !.mState[n].tailWhenSpliced = TRUE] \in Fields
            /\ [shared EXCEPT !.mState[n].successorMustWait = FALSE] \in Fields
       /\ \A n \in Clusters!Nodes, o \in Seq(QueueThreads) :
            /\ [shared EXCEPT !.mLocalTails[c] = n, !.order[c] = o] \in Fields
            /\ [shared EXCEPT !.mGlobalTail = n, !.order[c] = o] \in Fields
  BY ONLY <1>2, ClusterFields, Zenon
<1> HIDE DEF Places, Records, Fields
<1>a. CASE Clusters!Lock(t)
  <2> DEFINE p == IF shared.mLocalTails[c] = Null THEN "load" ELSE "grant"
  <2>1. /\ me[t].pc = "out" /\ Clusters!Becomes(t, [pc |-> p, pred |-> shared.mLocalTails[c]])
        /\ shared' = [shared EXCEPT !.mLocalTails[c] = me[t].node, !.order[c] = Append(@, t)]
        /\ queue' = queue
    BY ONLY <1>a DEF Clusters!Lock
  <2>2. p \in ClusterLabels
    BY ONLY <1>10
  <2>3. /\ me' \in Records /\ \A u \in QueueThreads : u # t => me'[u] = me[u]
        /\ me'[t].pc = p /\ me'[t].node = me[t].node /\ me'[t].pred = shared.mLocalTails[c]
    <3> HIDE DEF p
    <3> QED BY ONLY <1>2, <1>8, <2>1, <2>2, SMTT(30)
  <2>4. shared' \in Fields
    <3>1. Append(shared.order[c], t) \in Seq(QueueThreads)
      BY ONLY <1>2, t \in QueueThreads, AppendProperties, SMTT(30)
    <3>2. shared' = [shared EXCEPT !.mLocalTails[c] = me[t].node,
                                   !.order[c] = Append(shared.order[c], t)]
      BY ONLY <2>1
    <3> QED BY ONLY <1>2, <1>11, <3>1, <3>2, Zenon
  <2>5. Clusters!TypeOK'
    BY ONLY <1>2, <1>4, <2>1, <2>3, <2>4
  <2>6. ClustersIInv' /\ Clusters!Inside' = Clusters!Inside
    BY ONLY <1>1, t \in QueueThreads, <2>1, <2>3, <2>5, ClusterLock, Zenon
  <2> QED BY ONLY <1>6, <2>1, <2>6
<1>b. CASE Clusters!Grant(t)
  <2>1. me[t].pc = "grant" /\ UNCHANGED <<shared, queue>>
    BY ONLY <1>b DEF Clusters!Grant
  <2>2. CASE Clusters!Granted(t) /\ Clusters!Becomes(t, [pc |-> "in"])
    <3>1. queue # <<>> /\ queue[1] = t
      BY ONLY <1>1, t \in QueueThreads, <2>1, <2>2, ClusterHeads DEF Clusters!Granted, Clusters!Before
    <3>2. /\ me' \in Records /\ \A u \in QueueThreads : u # t => me'[u] = me[u]
          /\ me'[t].pc = "in" /\ me'[t].node = me[t].node /\ me'[t].pred = me[t].pred
      BY ONLY <1>7, <1>10, <2>2, SMTT(30)
    <3>3. Clusters!TypeOK'
      BY ONLY <1>2, <1>4, <2>1, <3>2, SMTT(30)
    <3>4. ClustersIInv' /\ t \notin Clusters!Inside /\ Clusters!Inside' = Clusters!Inside \cup {t}
      BY ONLY <1>1, t \in QueueThreads, <2>1, <3>1, <3>2, <3>3, ClusterEnters
    <3> QED BY ONLY <1>6, <2>1, <3>1, <3>4, SMTT(30)
  <2>3. CASE /\ Clusters!Before(t).cluster # c \/ Clusters!Before(t).tailWhenSpliced
             /\ Clusters!Becomes(t, [pc |-> "load"])
    <3>1. shared.order[c] # <<>> /\ shared.order[c][1] = t
      BY ONLY <1>1, t \in QueueThreads, <2>1, <2>3, ClusterHeads DEF Clusters!Before
    <3>2. /\ me' \in Records /\ \A u \in QueueThreads : u # t => me'[u] = me[u]
          /\ me'[t].pc = "load" /\ me'[t].node = me[t].node
      BY ONLY <1>7, <1>10, <2>3, SMTT(30)
    <3>3. Clusters!TypeOK'
      BY ONLY <1>2, <1>4, <2>1, <3>2, SMTT(30)
    <3>4. ClustersIInv' /\ Clusters!Inside' = Clusters!Inside
      BY ONLY <1>1, t \in QueueThreads, <2>1, <3>1, <3>2, <3>3, ClusterMasters, SMTT(30)
    <3> QED BY ONLY <1>6, <2>1, <3>4, SMTT(30)
  <2> QED BY ONLY <1>b, <2>2, <2>3, SMTT(30) DEF Clusters!Grant
<1>c. CASE Clusters!LoadGlobal(t) \/ Clusters!LoadLocal(t)
           \/ (Clusters!Splice(t) /\ shared.mGlobalTail # me[t].pred)
  <2>1. /\ me[t].pc \in {"load", "tail", "splice"} /\ UNCHANGED <<shared, queue>>
        /\ \/ Clusters!Becomes(t, [pc |-> "tail", pred |-> shared.mGlobalTail])
           \/ Clusters!Becomes(t, [pc |-> "splice", tail |-> shared.mLocalTails[c]])
    <3>1. CASE Clusters!LoadGlobal(t)
      BY ONLY <3>1 DEF Clusters!LoadGlobal
    <3>2. CASE Clusters!LoadLocal(t)
      BY ONLY <3>2 DEF Clusters!LoadLocal
    <3>3. CASE Clusters!Splice(t) /\ shared.mGlobalTail # me[t].pred
      BY ONLY <3>3, Zenon DEF Clusters!Splice
    <3> QED BY ONLY <1>c, <3>1, <3>2, <3>3, SMTT(30)
  <2>2. shared.order[c] # <<>> /\ shared.order[c][1] = t
    BY ONLY <1>1, t \in QueueThreads, <2>1, ClusterHeads
  <2>3. shared.mGlobalTail \in Places
    BY ONLY <1>2 DEF Places
  <2>4. /\ me' \in Records /\ \A u \in QueueThreads : u # t => me'[u] = me[u]
        /\ me'[t].pc \in {"load", "tail", "splice"} /\ me'[t].node = me[t].node
        /\ me'[t].pc = "splice" => me'[t].tail = shared.mLocalTails[c]
    <3>1. CASE Clusters!Becomes(t, [pc |-> "tail", pred |-> shared.mGlobalTail])
      BY ONLY <1>8, <1>10, <2>3, <3>1, SMTT(30)
    <3>2. CASE Clusters!Becomes(t, [pc |-> "splice", tail |-> shared.mLocalTails[c]])
      BY ONLY <1>2, <1>9, <1>10, <3>2, SMTT(30)
    <3> QED BY ONLY <2>1, <3>1, <3>2
  <2>5. Clusters!TypeOK'
    BY ONLY <1>2, <1>4, <2>1, <2>4, SMTT(30)
  <2>6. ClustersIInv' /\ Clusters!Inside' = Clusters!Inside
    BY ONLY <1>1, t \in QueueThreads, <2>1, <2>2, <2>4, <2>5, ClusterMasters
  <2> QED BY ONLY <1>6, <2>1, <2>6, SMTT(30)
<1>d. CASE Clusters!Splice(t) /\ shared.mGlobalTail = me[t].pred
  <2> DEFINE w == shared.order[c]
             k == CHOOSE i \in 1 .. Len(w) : me[w[i]].node = me[t].tail
             rest == SubSeq(w, k + 1, Len(w))
  <2>1. /\ me[t].pc = "splice" /\ Clusters!Becomes(t, [pc |-> "mark"])
        /\ queue' = queue \o SubSeq(w, 1, k)
        /\ shared' = [shared EXCEPT !.mGlobalTail = me[t].tail, !.order[c] = rest]
    BY ONLY <1>d, Zenon DEF Clusters!Splice
  <2>2. k \in 1 .. Len(w) /\ me[t].tail = me[w[k]].node
    <3>1. \E i \in 1 .. Len(w) : me[w[i]].node = me[t].tail
      <4>1. \A u \in QueueThreads : me[u].pc = "splice" =>
              \E i \in 1 .. Len(shared.order[Cluster[u]]) : me[u].tail = me[shared.order[Cluster[u]][i]].node
        BY ONLY <1>1 DEF ClustersIInv, ClusterNodes
      <4> QED BY ONLY <2>1, <4>1, t \in QueueThreads, Zenon
    <3> QED BY ONLY <3>1, Zenon
  <2>3. w \in Seq(QueueThreads) /\ Len(w) \in Nat /\ \A i \in 1 .. Len(w) : w[i] \in QueueThreads
    BY ONLY <1>2, LenProperties, ElementOfSeq, SMTT(30)
  <2> HIDE DEF w, k
  <2>4. /\ me' \in Records /\ \A u \in QueueThreads : u # t => me'[u] = me[u]
        /\ me'[t].pc = "mark" /\ me'[t].node = me[t].node /\ me'[t].pred = me[t].pred
        /\ me'[t].tail = me[t].tail
    BY ONLY <1>7, <1>10, <2>1, SMTT(30)
  <2>5. rest \in Seq(QueueThreads) /\ SubSeq(w, 1, k) \in Seq(QueueThreads)
    <3>1. k \in Nat /\ k <= Len(w) /\ 1 <= k
      BY ONLY <2>2, <2>3
    <3>2. /\ \A i \in k + 1 .. Len(w) : w[i] \in QueueThreads
          /\ \A i \in 1 .. k : w[i] \in QueueThreads
      BY ONLY <2>3, <3>1
    <3> QED BY ONLY <2>3, <3>1, <3>2, SubSeqProperties, SMTT(30)
  <2> HIDE DEF rest
  <2>6. shared' \in Fields /\ queue' \in Seq(QueueThreads)
    <3>1. me[t].tail \in Clusters!Nodes
      <4>1. w[k] \in QueueThreads
        BY ONLY <2>2, <2>3
      <4>2. \A u \in QueueThreads : me[u].node \in Clusters!Nodes
        BY ONLY <1>2 DEF Records
      <4> QED BY ONLY <2>2, <4>1, <4>2, SMTT(30)
    <3>2. shared' \in Fields
      BY ONLY <1>11, <2>1, <2>5, <3>1, Zenon
    <3>3. queue' \in Seq(QueueThreads)
      BY ONLY <1>2, <2>1, <2>5, ConcatProperties, SMTT(30)
    <3> QED BY ONLY <3>2, <3>3
  <2>7. Clusters!TypeOK'
    BY ONLY <1>4, <2>4, <2>6
  <2>8. /\ ClustersIInv' /\ Clusters!Inside' = Clusters!Inside
        /\ Len(queue) < Len(queue') /\ SubSeq(queue', 1, Len(queue)) = queue /\ Distinct(queue')
    BY ONLY <1>1, <1>d, t \in QueueThreads, <2>1, <2>2, <2>4, <2>7, ClusterSplice, Zenon DEF w, rest
  <2>9. Fifo!Join
    BY ONLY <1>5, <2>8, SMTT(30) DEF Fifo!Join, Distinct
  <2> QED BY ONLY <2>8, <2>9 DEF Fifo!Next
<1>e. CASE Clusters!Mark(t)
  <2>1. /\ me[t].pc = "mark" /\ Clusters!Becomes(t, [pc |-> "spin", tail |-> Null])
        /\ shared' = [shared EXCEPT !.mState[me[t].tail].tailWhenSpliced = TRUE]
        /\ queue' = queue
    BY ONLY <1>e DEF Clusters!Mark
  <2>2. /\ me' \in Records /\ \A u \in QueueThreads : u # t => me'[u] = me[u]
        /\ me'[t].pc = "spin" /\ me'[t].node = me[t].node /\ me'[t].pred = me[t].pred
    <3>1. Null \in Places
      BY DEF Places
    <3> QED BY ONLY <1>9, <1>10, <2>1, <3>1, SMTT(30)
  <2>3. me[t].tail \in Clusters!Nodes
    <3>1. PICK j \in 1 .. Len(queue) : me[t].tail = me[queue[j]].node
      BY ONLY <1>1, t \in QueueThreads, <2>1, SMTT(30) DEF ClustersIInv, ClusterMarks
    <3>2. queue[j] \in QueueThreads
      BY ONLY <1>2, ElementOfSeq
    <3>3. \A u \in QueueThreads : me[u].node \in Clusters!Nodes
      BY ONLY <1>2 DEF Records
    <3> QED BY ONLY <3>1, <3>2, <3>3, SMTT(30)
  <2>4. Clusters!TypeOK'
    <3>1. shared' \in Fields
      BY ONLY <1>11, <2>1, <2>3, Zenon
    <3> QED BY ONLY <1>2, <1>4, <2>1, <2>2, <3>1
  <2>5. ClustersIInv' /\ Clusters!Inside' = Clusters!Inside
    BY ONLY <1>1, t \in QueueThreads, <2>1, <2>2, <2>4, ClusterMark
  <2> QED BY ONLY <1>6, <2>1, <2>5, SMTT(30)
<1>f. CASE Clusters!Acquire(t)
  <2>1. /\ me[t].pc = "spin" /\ Clusters!Becomes(t, [pc |-> "in"]) /\ UNCHANGED <<shared, queue>>
        /\ ~shared.mState[me[t].pred].successorMustWait
    BY ONLY <1>f DEF Clusters!Acquire, Clusters!Before
  <2>2. queue # <<>> /\ queue[1] = t
    BY ONLY <1>1, t \in QueueThreads, <2>1, ClusterHeads
  <2>3. /\ me' \in Records /\ \A u \in QueueThreads : u # t => me'[u] = me[u]
        /\ me'[t].pc = "in" /\ me'[t].node = me[t].node /\ me'[t].pred = me[t].pred
    BY ONLY <1>7, <1>10, <2>1
  <2>4. Clusters!TypeOK'
    BY ONLY <1>2, <1>4, <2>1, <2>3, SMTT(30)
  <2>5. ClustersIInv' /\ t \notin Clusters!Inside /\ Clusters!Inside' = Clusters!Inside \cup {t}
    BY ONLY <1>1, t \in QueueThreads, <2>1, <2>2, <2>3, <2>4, ClusterEnters
  <2> QED BY ONLY <1>6, <2>1, <2>2, <2>5, SMTT(30)
<1>12. ASSUME me[t].pc \in {"in", "release"} PROVE me[t].pred \in Clusters!Nodes
  <2>1. queue # <<>> /\ queue[1] = t
    BY ONLY <1>1, t \in QueueThreads, <1>12, ClusterHeads
  <2>2. Spare \in Clusters!Nodes
    BY ONLY <1>1 DEF ClustersIInv, ClusterNodes
  <2> QED BY ONLY <2>1, <2>2 DEF Spare
<1>g. CASE Clusters!Unlock(t)
  <2>1. /\ me[t].pc = "in" /\ Clusters!Becomes(t, [pc |-> "release"]) /\ queue' = queue
        /\ shared' = [shared EXCEPT !.mState[me[t].pred] = Clusters!Fresh(t)]
    BY ONLY <1>g DEF Clusters!Unlock
  <2>2. /\ me' \in Records /\ \A u \in QueueThreads : u # t => me'[u] = me[u]
        /\ me'[t].pc = "release" /\ me'[t].node = me[t].node /\ me'[t].pred = me[t].pred
    BY ONLY <1>7, <1>10, <2>1
  <2>3. Clusters!Fresh(t) \in ClusterWord
    BY ONLY <1>2 DEF Clusters!Fresh, Clusters!Word, ClusterWord
  <2>4. Clusters!TypeOK'
    <3>1. shared' \in Fields
      BY ONLY <1>11, <1>12, <2>1, <2>3, Zenon
    <3> QED BY ONLY <1>2, <1>4, <2>1, <2>2, <3>1
  <2>5. ClustersIInv' /\ Clusters!Inside' = Clusters!Inside
    BY ONLY <1>1, t \in QueueThreads, <2>1, <2>2, <2>4, ClusterUnlock
  <2> QED BY ONLY <1>6, <2>1, <2>5, SMTT(30)
<1>h. CASE Clusters!Release(t)
  <2>1. /\ me[t].pc = "release" /\ queue' = Tail(queue)
        /\ Clusters!Becomes(t, [pc |-> "out", node |-> me[t].pred, pred |-> Null])
        /\ shared' = [shared EXCEPT !.mState[me[t].node].successorMustWait = FALSE]
    BY ONLY <1>h DEF Clusters!Release
  <2>2. /\ me' \in Records /\ \A u \in QueueThreads : u # t => me'[u] = me[u]
        /\ me'[t].pc = "out" /\ me'[t].node = me[t].pred
    <3>1. Null \in Places /\ me[t].pred \in Clusters!Nodes
      BY ONLY <1>12, <2>1 DEF Places
    <3>2. Moves(t, "out", me[t].pred, Null, me[t].tail)
      BY ONLY <1>2, <1>10, <2>1, <3>1, SMTT(30) DEF Moves, Places
    <3> QED BY ONLY <1>1, <3>2, ClusterBecomes, SMTT(30) DEF Records, Places
  <2>3. queue' \in Seq(QueueThreads)
    <3>1. queue # <<>>
      BY ONLY <1>1, t \in QueueThreads, <2>1, ClusterHeads
    <3> QED BY ONLY <1>2, <2>1, <3>1, LeaveQueue, SMTT(30)
  <2>4. Clusters!TypeOK'
    <3>1. shared' \in Fields
      BY ONLY <1>2, <1>11, <2>1, Zenon
    <3> QED BY ONLY <1>4, <2>2, <2>3, <3>1
  <2>5. ClustersIInv' /\ t \in Clusters!Inside /\ Clusters!Inside' = Clusters!Inside \ {t}
    BY ONLY <1>1, t \in QueueThreads, <2>1, <2>2, <2>4, ClusterRelease
  <2> QED BY ONLY <1>6, <2>1, <2>5, SMTT(30)
<1> QED BY <1>a, <1>b, <1>c, <1>d, <1>e, <1>f, <1>g, <1>h DEF Clusters!Step

(* The node of no thread but the first lets anybody in.                    *)
LEMMA ClustersPassedToOne == ClustersIInv => Clusters!PassedToOne
<1> SUFFICES ASSUME ClustersIInv PROVE Clusters!PassedToOne
  OBVIOUS
<1>1. \A t, u \in QueueThreads : me[t].node = me[u].node => t = u
  BY DEF ClustersIInv, ClusterNodes
<1>2. ASSUME NEW t \in Clusters!Entitled \cup Clusters!Inside PROVE queue # <<>> /\ t = Head(queue)
  <2>1. /\ t \in QueueThreads
        /\ \/ me[t].pc = "grant" /\ Clusters!Granted(t)
           \/ me[t].pc = "spin" /\ ~Clusters!Before(t).successorMustWait
           \/ me[t].pc \in {"in", "release"}
    BY ONLY <1>2, SMTT(30) DEF Clusters!Entitled, Clusters!Inside
  <2>2. queue # <<>> /\ queue[1] = t
    BY ONLY ClustersIInv, <2>1, ClusterHeads DEF Clusters!Granted, Clusters!Before
  <2>3. queue \in Seq(QueueThreads)
    BY ONLY ClustersIInv, ClusterTypes DEF ClustersIInv
  <2> QED BY ONLY <2>2, <2>3, LeaveQueue
<1> QED BY ONLY <1>1, <1>2 DEF Clusters!PassedToOne

-----------------------------------------------------------------------------
(* RESULTS.  The invariant of the lock that the program uses.              *)
LocksIInv ==
  /\ PetersonIInv /\ MutexInv
  /\ lock = "ticket" => TicketIInv
  /\ lock = "clh" => CLHIInv
  /\ lock = "mcs" => MCSIInv
  /\ lock = "array" => ArrayIInv
  /\ lock = "shared" => SharedIInv
  /\ lock = "clusters" => ClustersIInv

LEMMA InitLocks == LockInit => LocksIInv /\ Fifo!Init
<1> SUFFICES ASSUME LockInit PROVE LocksIInv /\ Fifo!Init
  OBVIOUS
<1>1. PetersonIInv /\ MutexInv /\ queue = <<>>
  BY LockAssumptions, InitPeterson, InitMutex DEF LockInit, Ticket!Init
<1>2. /\ Ticket!Init /\ CLH!Init /\ MCS!Init /\ Array!Init /\ Shared!Init
      /\ lock = "clusters" => Clusters!Init
  <2>1. Ticket!Init /\ CLH!Init /\ MCS!Init /\ Array!Init /\ Shared!Init
    BY DEF LockInit
  <2>2. lock = "clusters" => Clusters!Init
    BY LockKinds DEF MonitorKinds
  <2> QED BY ONLY <2>1, <2>2
<1>3. LocksIInv
  BY ONLY <1>1, <1>2, InitTicket, InitCLH, InitMCS, InitArray, InitShared, InitClusters DEF LocksIInv
<1>4. Inside = {}
  <2>1. CASE lock \in QueueLocks
    BY ONLY <1>2, <2>1, InitTicket, InitCLH, InitMCS, InitArray, InitClusters DEF QueueLocks
  <2>2. CASE lock \notin QueueLocks
    BY ONLY <2>2 DEF Inside, QueueLocks
  <2> QED BY ONLY <2>1, <2>2
<1> QED BY ONLY <1>1, <1>3, <1>4 DEF Fifo!Init

(* Nothing changes when nothing of the lock in use does.                   *)
LEMMA SameInside == UNCHANGED lockVars => Inside' = Inside
<1> SUFFICES ASSUME UNCHANGED lockVars PROVE Inside' = Inside
  OBVIOUS
<1>1. lock' = lock /\ queuePc' = queuePc /\ me' = me
  BY DEF lockVars, otherVars
<1>2. /\ Ticket!Inside' = Ticket!Inside /\ CLH!Inside' = CLH!Inside /\ MCS!Inside' = MCS!Inside
      /\ Array!Inside' = Array!Inside /\ Clusters!Inside' = Clusters!Inside
  BY ONLY <1>1 DEF Ticket!Inside, CLH!Inside, MCS!Inside, Array!Inside, Clusters!Inside
<1> QED BY ONLY <1>1, <1>2, Zenon DEF Inside

LEMMA SameQueue ==
  ASSUME NEW outside, InQueue(outside), UNCHANGED lockVars
  PROVE  queue' = queue /\ queuePc' = queuePc /\ InQueue(outside)'
<1>1. queue' = queue /\ queuePc' = queuePc /\ Inside' = Inside
  BY SameInside DEF lockVars
<1> QED BY <1>1 DEF InQueue

LEMMA SameTicket == TicketIInv /\ UNCHANGED lockVars => TicketIInv'
<1> SUFFICES ASSUME TicketIInv, UNCHANGED lockVars PROVE TicketIInv'
  OBVIOUS
<1>1. queue' = queue /\ queuePc' = queuePc /\ InQueue({"out"})' /\ UNCHANGED ticketVars
  BY SameQueue DEF TicketIInv, lockVars
<1>2. Ticket!TypeOK'
  BY ONLY TicketIInv, <1>1 DEF TicketIInv, Ticket!TypeOK, ticketVars
<1>3. Ticket!TicketInv' /\ next' = taken'
  BY ONLY TicketIInv, <1>1 DEF TicketIInv, Ticket!TicketInv, ticketVars
<1> QED BY ONLY <1>1, <1>2, <1>3 DEF TicketIInv

LEMMA SameCLH == CLHIInv /\ UNCHANGED lockVars => CLHIInv'
<1> SUFFICES ASSUME CLHIInv, UNCHANGED lockVars PROVE CLHIInv'
  OBVIOUS
<1>1. queue' = queue /\ queuePc' = queuePc /\ InQueue({"out", "swap"})' /\ UNCHANGED clhVars
  BY SameQueue DEF CLHIInv, lockVars
<1>2. CLH!TypeOK'
  BY ONLY CLHIInv, <1>1 DEF CLHIInv, CLH!TypeOK, clhVars
<1>3. CLH!NodeInv'
  BY ONLY CLHIInv, <1>1 DEF CLHIInv, CLH!NodeInv, clhVars
<1> QED BY ONLY <1>1, <1>2, <1>3 DEF CLHIInv

LEMMA SameMCS == MCSIInv /\ UNCHANGED lockVars => MCSIInv'
<1> SUFFICES ASSUME MCSIInv, UNCHANGED lockVars PROVE MCSIInv'
  OBVIOUS
<1>1. queue' = queue /\ queuePc' = queuePc /\ InQueue({"out", "swap", "reset"})' /\ UNCHANGED mcsVars
  BY SameQueue DEF MCSIInv, lockVars
<1>2. MCS!TypeOK'
  BY ONLY MCSIInv, <1>1 DEF MCSIInv, MCS!TypeOK, mcsVars
<1>3. MCS!LinkInv' /\ MCSWaiting'
  BY ONLY MCSIInv, <1>1 DEF MCSIInv, MCS!LinkInv, MCSWaiting, mcsVars
<1> QED BY ONLY <1>1, <1>2, <1>3 DEF MCSIInv

LEMMA SameShared == SharedIInv /\ UNCHANGED lockVars => SharedIInv'
<1> SUFFICES ASSUME SharedIInv, UNCHANGED sharedVars PROVE SharedIInv'
  BY DEF lockVars
<1>1. Reading' = Reading /\ Writing' = Writing /\ Shared!In("write")' = Shared!In("write")
  BY DEF sharedVars, Reading, Writing, Shared!In
<1>2. Shared!TypeOK'
  BY DEF SharedIInv, Shared!TypeOK, sharedVars
<1> QED BY <1>1, <1>2 DEF SharedIInv, sharedVars

LEMMA SameArray == ArrayIInv /\ UNCHANGED lockVars => ArrayIInv'
<1> SUFFICES ASSUME ArrayIInv, UNCHANGED <<queuePc, queue, arrayVars>>, InQueue({"out"})'
             PROVE  ArrayIInv'
  BY SameQueue DEF ArrayIInv, lockVars
<1>1. Array!Inside' = Array!Inside
  BY DEF Array!Inside
<1>2. Array!TypeOK'
  BY DEF ArrayIInv, Array!TypeOK, arrayVars
<1>3. served' = served /\ (Granting' <=> Granting) /\ resets' = resets
  BY DEF served, Granting, resets, arrayVars
<1>4. \A stores : LastReset(stores)' = LastReset(stores)
  BY DEF LastReset
<1>5. ASSUME NEW s PROVE Knowing(s)' = Knowing(s)
  BY DEF Knowing, LastReset, arrayVars
<1>6. ResetKnown'
  BY <1>3, <1>5 DEF ArrayIInv, ResetKnown, LastReset, arrayVars
<1>7. ArrayFlags' /\ ArrayViews'
  BY <1>3 DEF ArrayIInv, ArrayFlags, ArrayViews, arrayVars
<1>8. ArraySeen'
  BY <1>1, <1>3 DEF ArrayIInv, ArraySeen, SeesAll, LastReset, arrayVars
<1> QED BY <1>2, <1>6, <1>7, <1>8 DEF ArrayIInv

LEMMA SameClusters == ClustersIInv /\ UNCHANGED lockVars => ClustersIInv'
<1> SUFFICES ASSUME ClustersIInv, shared' = shared, me' = me, queue' = queue PROVE ClustersIInv'
  BY DEF lockVars, otherVars
<1>1. Clusters!TypeOK'
  BY DEF ClustersIInv, Clusters!TypeOK
<1>2. Spare' = Spare
  BY DEF Spare
<1>3. \A t : (Spliced(t)' <=> Spliced(t)) /\ (Local(t)' <=> Local(t))
  BY DEF Spliced, Local
<1>4. ASSUME NEW n PROVE Marked(n)' <=> Marked(n)
  BY DEF Marked
<1>5. ASSUME NEW c, NEW n PROVE Boundary(c, n)' <=> Boundary(c, n)
  BY <1>4 DEF Boundary
<1>6. ClusterQueues'
  BY <1>3 DEF ClustersIInv, ClusterQueues
<1>7. ClusterNodes' /\ ClusterWords' /\ ClusterMarks'
  BY <1>2, <1>3 DEF ClustersIInv, ClusterNodes, ClusterWords, ClusterMarks
<1>8. ClusterBoundaries'
  BY <1>5 DEF ClustersIInv, ClusterBoundaries
<1> QED BY ONLY <1>1, <1>6, <1>7, <1>8 DEF ClustersIInv

-----------------------------------------------------------------------------
(* Whatever a thread does keeps the invariant, and is a step of FifoLock.   *)
LEMMA NextLocks ==
  ASSUME TicketsSuffice, LocksIInv, [LockNext]_lockVars
  PROVE  LocksIInv' /\ [Fifo!Next]_<<queue, Inside>>
<1>1. MutexInv'
  BY NextMutex DEF LocksIInv
<1>2. CASE UNCHANGED lockVars
  <2>1. lock' = lock /\ queue' = queue /\ UNCHANGED vars
    BY ONLY <1>2 DEF lockVars
  <2>2. PetersonIInv'
    BY <2>1, LockAssumptions, NextPeterson DEF LocksIInv
  <2>3. LocksIInv'
    BY <1>1, <1>2, <2>1, <2>2, SameTicket, SameCLH, SameMCS, SameArray, SameShared, SameClusters
    DEF LocksIInv
  <2> QED BY ONLY <1>2, <2>1, <2>3, SameInside
<1>3. CASE LockNext
  <2>1. lock' = lock
    BY ONLY <1>3, LockSteps
  <2>2. PetersonIInv'
    <3>1. lock = "peterson" => Next
      BY ONLY <1>3, LockSteps DEF MonitorKinds
    <3>2. lock # "peterson" => UNCHANGED vars
      BY ONLY <1>3, LockSteps
    <3> QED BY <3>1, <3>2, LockAssumptions, NextPeterson DEF LocksIInv
  <2>3. CASE lock = "ticket"
    <3>1. TicketIInv' /\ [Fifo!Next]_<<queue, Inside>>
      BY <1>3, <2>1, <2>3, LockSteps, NextTicket DEF LocksIInv, MonitorKinds
    <3> QED BY ONLY <1>1, <2>1, <2>2, <2>3, <3>1 DEF LocksIInv
  <2>4. CASE lock = "clh"
    <3>1. CLHIInv' /\ [Fifo!Next]_<<queue, Inside>>
      BY <1>3, <2>1, <2>4, LockSteps, NextCLH DEF LocksIInv, MonitorKinds
    <3> QED BY ONLY <1>1, <2>1, <2>2, <2>4, <3>1 DEF LocksIInv
  <2>5. CASE lock = "mcs"
    <3>1. MCSIInv' /\ [Fifo!Next]_<<queue, Inside>>
      BY <1>3, <2>1, <2>5, LockSteps, NextMCS DEF LocksIInv, MonitorKinds
    <3> QED BY ONLY <1>1, <2>1, <2>2, <2>5, <3>1 DEF LocksIInv
  <2>6. CASE lock = "array"
    <3>1. ArrayIInv' /\ [Fifo!Next]_<<queue, Inside>>
      BY <1>3, <2>1, <2>6, LockSteps, NextArray DEF LocksIInv, MonitorKinds
    <3> QED BY ONLY <1>1, <2>1, <2>2, <2>6, <3>1 DEF LocksIInv
  <2>7. CASE lock = "clusters"
    <3>1. ClustersIInv' /\ [Fifo!Next]_<<queue, Inside>>
      BY <1>3, <2>1, <2>7, LockSteps, NextClusters DEF LocksIInv, MonitorKinds
    <3> QED BY ONLY <1>1, <2>1, <2>2, <2>7, <3>1 DEF LocksIInv
  <2>8. CASE lock \notin QueueLocks
    <3>1. queue' = queue /\ Inside = {} /\ Inside' = {}
      BY ONLY <1>3, <2>1, <2>8, LockSteps DEF Inside, QueueLocks
    <3>2. lock = "shared" => SharedIInv'
      BY <1>3, LockSteps, NextShared DEF LocksIInv, MonitorKinds
    <3> QED BY ONLY <1>1, <2>1, <2>2, <2>8, <3>1, <3>2 DEF LocksIInv, QueueLocks
  <2> QED BY ONLY <2>3, <2>4, <2>5, <2>6, <2>7, <2>8 DEF QueueLocks
<1> QED BY <1>2, <1>3

(* The type invariant of every lock: no null link is read, no node has two   *)
(* owners, no index leaves the ring.                                       *)
THEOREM LockTypeOKCorrect == TicketsSuffice /\ LockSpec => []LockTypeOK
<1> SUFFICES ASSUME TicketsSuffice PROVE LockSpec => []LockTypeOK
  OBVIOUS
<1>1. LocksIInv => LockTypeOK
  BY DEF LocksIInv, LockTypeOK, PetersonIInv, MutexInv, LevelsInv, TicketIInv, CLHIInv, MCSIInv,
    ArrayIInv, SharedIInv, ClustersIInv
<1> QED BY InitLocks, NextLocks, <1>1, PTL DEF LockSpec

(* Every lock's own record of who comes next, or of who is inside, is right. *)
THEOREM RecordInvCorrect == TicketsSuffice /\ LockSpec => []RecordInv
<1> SUFFICES ASSUME TicketsSuffice PROVE LockSpec => []RecordInv
  OBVIOUS
<1>1. LocksIInv => RecordInv
  BY ONLY SharedInvariant, ArrayNoRace, ClustersPassedToOne
  DEF LocksIInv, RecordInv, TicketIInv, CLHIInv, MCSIInv
<1> QED BY InitLocks, NextLocks, <1>1, PTL DEF LockSpec

(* The queue locks let one thread in at a time, in the order of arrival.    *)
THEOREM FifoCorrect == TicketsSuffice /\ LockSpec => ImplementsFifoLock
<1> SUFFICES ASSUME TicketsSuffice PROVE LockSpec => ImplementsFifoLock
  OBVIOUS
<1> QED BY InitLocks, NextLocks, PTL DEF LockSpec, ImplementsFifoLock, Fifo!Spec
=============================================================================
