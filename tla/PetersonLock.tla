---------------------------- MODULE PetersonLock ----------------------------
(***************************************************************************)
(* PetersonLock: mutual exclusion of two threads by atomic loads and       *)
(* stores, all sequentially consistent.  A thread draws its index, 0 or 1, *)
(* from a counter the first time it locks.                                 *)
(***************************************************************************)
EXTENDS Integers

CONSTANT Threads

(* lock asserts that the index is 0 or 1: there are at most two threads.   *)
TwoThreads == \A t, u, v \in Threads : t = u \/ u = v \/ v = t

NoId == -1

VARIABLES
  sIDCount,  \* the next index
  id,        \* id[t]: thread_local, NoId before the first use
  mFlags,    \* mFlags[i]: thread i wants the lock
  mVictim,   \* the thread that gives way
  pc,        \* pc[t]: where thread t is
  passed     \* history: how often thread t was passed since it stored mVictim

vars == <<sIDCount, id, mFlags, mVictim, pc, passed>>

(* The index is 0 or 1, as lock and unlock assert.                         *)
TypeOK ==
  /\ sIDCount \in 0 .. 2
  /\ id \in [Threads -> {NoId, 0, 1}]
  /\ mFlags \in [{0, 1} -> BOOLEAN]
  /\ mVictim \in {0, 1}
  /\ pc \in [Threads -> {"out", "flag", "victim", "readFlag", "readVictim", "in"}]
  /\ passed \in [Threads -> Nat]
  /\ \A t \in Threads : pc[t] # "out" => id[t] # NoId

Init ==
  /\ sIDCount = 0
  /\ id = [t \in Threads |-> NoId]
  /\ mFlags = [i \in {0, 1} |-> FALSE]
  /\ mVictim = 0
  /\ pc = [t \in Threads |-> "out"]
  /\ passed = [t \in Threads |-> 0]

Goto(t, label) == pc' = [pc EXCEPT ![t] = label]

(* Thread t gets the lock while the others wait.                           *)
Enter(t) ==
  /\ Goto(t, "in")
  /\ passed' = [u \in Threads |-> IF pc[u] \in {"readFlag", "readVictim"} /\ u # t
                                    THEN passed[u] + 1 ELSE passed[u]]

-----------------------------------------------------------------------------
(* lock calls getID, which draws an index for a new thread.                *)
Lock(t) ==
  /\ pc[t] = "out"
  /\ IF id[t] = NoId
       THEN id' = [id EXCEPT ![t] = sIDCount] /\ sIDCount' = sIDCount + 1
       ELSE UNCHANGED <<id, sIDCount>>
  /\ Goto(t, "flag")
  /\ UNCHANGED <<mFlags, mVictim, passed>>

SetFlag(t) ==
  /\ pc[t] = "flag"
  /\ mFlags' = [mFlags EXCEPT ![id[t]] = TRUE]
  /\ Goto(t, "victim")
  /\ UNCHANGED <<sIDCount, id, mVictim, passed>>

(* Mutants: the other thread is made the victim; nobody is.                *)
SetVictimOther(t) ==
  /\ pc[t] = "victim"
  /\ mVictim' = 1 - id[t]
  /\ passed' = [passed EXCEPT ![t] = 0]
  /\ Goto(t, "readFlag")
  /\ UNCHANGED <<sIDCount, id, mFlags>>

SetVictimNot(t) ==
  /\ pc[t] = "victim"
  /\ passed' = [passed EXCEPT ![t] = 0]
  /\ Goto(t, "readFlag")
  /\ UNCHANGED <<sIDCount, id, mFlags, mVictim>>

SetVictim(t) ==
  /\ pc[t] = "victim"
  /\ mVictim' = id[t]
  /\ passed' = [passed EXCEPT ![t] = 0]
  /\ Goto(t, "readFlag")
  /\ UNCHANGED <<sIDCount, id, mFlags>>

(* The condition of the loop takes two loads.                              *)
ReadFlag(t) ==
  /\ pc[t] = "readFlag"
  /\ IF mFlags[1 - id[t]]
       THEN Goto(t, "readVictim") /\ UNCHANGED passed
       ELSE Enter(t)
  /\ UNCHANGED <<sIDCount, id, mFlags, mVictim>>

ReadVictim(t) ==
  /\ pc[t] = "readVictim"
  /\ IF mVictim = id[t]
       THEN Goto(t, "readFlag") /\ UNCHANGED passed
       ELSE Enter(t)
  /\ UNCHANGED <<sIDCount, id, mFlags, mVictim>>

Unlock(t) ==
  /\ pc[t] = "in"
  /\ mFlags' = [mFlags EXCEPT ![id[t]] = FALSE]
  /\ Goto(t, "out")
  /\ UNCHANGED <<sIDCount, id, mVictim, passed>>

Step(t) ==
  SetFlag(t) \/ SetVictim(t) \/ ReadFlag(t) \/ ReadVictim(t) \/ Unlock(t)

Next == \E t \in Threads : Lock(t) \/ Step(t)

Spec == Init /\ [][Next]_vars

(* A thread that has called lock or that holds the lock keeps running.     *)
FairSpec == Spec /\ \A t \in Threads : WF_vars(Step(t))

-----------------------------------------------------------------------------
(* PROPERTIES                                                              *)

(* The indices are handed out once each, without gaps.                     *)
IdInv ==
  /\ \A t, u \in Threads : id[t] = id[u] => t = u \/ id[t] = NoId
  /\ \A t \in Threads : id[t] < sIDCount
  /\ \A i \in 0 .. sIDCount - 1 : \E t \in Threads : id[t] = i

(* Two threads never hold the lock together.                               *)
MutualExclusion == \A t, u \in Threads : pc[t] = "in" /\ pc[u] = "in" => t = u

(* The lock is fair: a thread that has stored mVictim and waits is passed  *)
(* by the other one at most once.                                          *)
PassedOnce ==
  \A t \in Threads : pc[t] \in {"readFlag", "readVictim"} => passed[t] <= 1

(* Whoever has called lock and has not got it: that must not last.          *)
Entering(t) == pc[t] \notin {"out", "in"}
=============================================================================
