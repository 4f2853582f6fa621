-------------------------- MODULE HierarchicalMutex -------------------------
(***************************************************************************)
(* HierarchicalMutex: a mutex has a level, and a thread may lock only one  *)
(* below the level it has locked last, so that no threads wait in a        *)
(* circle.  Several mutexes may have the same level.                       *)
(***************************************************************************)
EXTENDS Integers

CONSTANTS Threads, NoThread,
          Mutexes, Hierarchy,  \* Hierarchy[m]: the level of mutex m
          Highest              \* the largest value of unsigned long long

HierarchyAssumption ==
  /\ NoThread \notin Threads /\ Highest \in Nat
  /\ Hierarchy \in [Mutexes -> 0 .. Highest]

VARIABLES shared,  \* the owners of the mutexes, and mPreviousHierarchy of each
          me       \* me[t]: sThisThreadHierarchy and the mutexes t wants

TypeOK ==
  /\ shared \in [owner : [Mutexes -> Threads \cup {NoThread}],
                 mPreviousHierarchy : [Mutexes -> 0 .. Highest]]
  /\ me \in [Threads -> [level : 0 .. Highest, wants : SUBSET Mutexes]]

(* mPreviousHierarchy is not initialized, and not read before it is set.   *)
Init ==
  /\ shared = [owner |-> [m \in Mutexes |-> NoThread],
               mPreviousHierarchy |-> [m \in Mutexes |-> 0]]
  /\ me = [t \in Threads |-> [level |-> Highest, wants |-> {}]]

(* Mutant: a mutex of the same level passes.                               *)
checkHierarchyOrEqual(t, m) == me[t].wants = {} /\ Hierarchy[m] <= me[t].level

(* Any other level throws, and nothing is changed.                         *)
checkHierarchy(t, m) == me[t].wants = {} /\ Hierarchy[m] < me[t].level

(* lock: from here the thread waits for the mutex.                         *)
Lock(t, m) ==
  /\ checkHierarchy(t, m)
  /\ me' = [me EXCEPT ![t].wants = {m}]
  /\ UNCHANGED shared

(* mLock.lock() or try_lock() succeeds, and updateCurrentHierarchy.        *)
Take(t, m) ==
  /\ shared.owner[m] = NoThread
  /\ shared' = [shared EXCEPT !.owner[m] = t, !.mPreviousHierarchy[m] = me[t].level]
  /\ me' = [me EXCEPT ![t] = [level |-> Hierarchy[m], wants |-> {}]]

Acquire(t, m) == m \in me[t].wants /\ Take(t, m)

(* try_lock of a mutex that is owned returns false.                        *)
TryLock(t, m) == checkHierarchy(t, m) /\ Take(t, m)

(* Mutant: the level before is forgotten.                                  *)
UnlockAll(t, m) ==
  /\ me[t].wants = {} /\ shared.owner[m] = t /\ me[t].level = Hierarchy[m]
  /\ me' = [me EXCEPT ![t].level = Highest]
  /\ shared' = [shared EXCEPT !.owner[m] = NoThread]

(* unlock by the owner; of another mutex than the last one it throws.      *)
Unlock(t, m) ==
  /\ me[t].wants = {} /\ shared.owner[m] = t /\ me[t].level = Hierarchy[m]
  /\ me' = [me EXCEPT ![t].level = shared.mPreviousHierarchy[m]]
  /\ shared' = [shared EXCEPT !.owner[m] = NoThread]

Step(t) == \E m \in Mutexes : Acquire(t, m) \/ Unlock(t, m)
Call(t) == \E m \in Mutexes : Lock(t, m) \/ TryLock(t, m)
Next == \E t \in Threads : Call(t) \/ Step(t)
Spec == Init /\ [][Next]_<<shared, me>>

-----------------------------------------------------------------------------
(* PROPERTIES                                                              *)

Held(t) == {m \in Mutexes : shared.owner[m] = t}

(* A thread's level is that of the lowest mutex it holds, which it locked    *)
(* last; the levels it holds all differ, and the level saved in a mutex is   *)
(* that of the one locked before it.                                       *)
InOrder(t) ==
  /\ \A m \in Held(t) : /\ me[t].level <= Hierarchy[m]
                        /\ Hierarchy[m] < shared.mPreviousHierarchy[m]
  /\ \A m, n \in Held(t) :
       m # n => \/ shared.mPreviousHierarchy[m] <= Hierarchy[n]
                \/ shared.mPreviousHierarchy[n] <= Hierarchy[m]
  /\ \A m \in Held(t) : \/ shared.mPreviousHierarchy[m] = Highest
                        \/ \E n \in Held(t) : Hierarchy[n] = shared.mPreviousHierarchy[m]
  /\ me[t].level = Highest \/ \E m \in Held(t) : Hierarchy[m] = me[t].level
  /\ \A m \in me[t].wants : Hierarchy[m] < me[t].level

LevelsInOrder == \A t \in Threads : InOrder(t)

(* Nobody waits for a thread that waits, in the end, for it.               *)
NoCircle ==
  \A S \in SUBSET Threads : S # {} =>
    \E t \in S : \A m \in me[t].wants : shared.owner[m] \notin S
=============================================================================
