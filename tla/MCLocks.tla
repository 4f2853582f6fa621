----------------------------- MODULE MCLocks ----------------------------
(* The nodes of CLHQueueLock are numbered: thread t is born with node t, the *)
(* lock with node 0.                                                       *)
EXTENDS Locks

MCThreads == 1 .. 3
MCOwnNode == [t \in MCThreads |-> t]

(* Threads 1 and 2 are of one cluster.                                     *)
MCCluster == [t \in MCThreads |-> IF t <= 2 THEN 1 ELSE 2]

(* Two of the mutexes have the same level.                                 *)
MCHierarchy == [a |-> 1, b |-> 1, c |-> 2]
=============================================================================
