--------------------------- MODULE ThreadSafeQueue --------------------------
(***************************************************************************)
(* ThreadSafeQueue: a linked list with a dummy node at its end, one mutex  *)
(* for the head and one for the tail, and a condition variable for the     *)
(* consumers.  The nodes from mHead to the dummy are the sequence contents *)
(* of their values: mHead.get() != getTail() says that it is not empty, a  *)
(* push writes the dummy and appends another, popHead removes the first.   *)
(***************************************************************************)
EXTENDS Naturals, Sequences

CONSTANTS Producers, Consumers, Values, NoValue, NoThread,
          MaxLen  \* bound: no push is called on a queue of this length

Threads == Producers \cup Consumers

VARIABLES
  contents,   \* the values of the nodes before the dummy
  mHeadLock,  \* the thread that holds the mutex, or NoThread
  mTailLock,
  waiters,    \* the threads that wait for mCond
  pc,         \* pc[t]: where thread t is
  kind,       \* kind[t]: which function thread t is in
  val         \* val[t]: the argument of its push or the result of its pop

vars == <<contents, mHeadLock, mTailLock, waiters, pc, kind, val>>

(* Each mutex is held by the thread that is in its critical section.       *)
TypeOK ==
  /\ contents \in Seq(Values)
  /\ mHeadLock \in Threads \cup {NoThread}
  /\ mTailLock \in Threads \cup {NoThread}
  /\ waiters \subseteq Consumers
  /\ pc \in [Threads -> {"idle", "pushLock", "append", "notify", "popLock",
                         "check", "wait", "waiting", "copy", "pop", "done"}]
  /\ kind \in [Threads -> {"none", "push", "tryPop", "waitAndPop", "waitAndPopVal"}]
  /\ val \in [Threads -> Values \cup {NoValue}]
  /\ \A t \in Threads :
       /\ pc[t] \in {"check", "wait", "copy", "pop"} <=> mHeadLock = t
       /\ pc[t] = "append" <=> mTailLock = t
       /\ pc[t] = "waiting" <=> t \in waiters

Init ==
  /\ contents = <<>>
  /\ mHeadLock = NoThread
  /\ mTailLock = NoThread
  /\ waiters = {}
  /\ pc = [t \in Threads |-> "idle"]
  /\ kind = [t \in Threads |-> "none"]
  /\ val = [t \in Threads |-> NoValue]

Goto(t, label) == pc' = [pc EXCEPT ![t] = label]

-----------------------------------------------------------------------------
CallPush(t) ==
  /\ pc[t] = "idle" /\ t \in Producers
  /\ Len(contents) < MaxLen
  /\ \E v \in Values : val' = [val EXCEPT ![t] = v]
  /\ kind' = [kind EXCEPT ![t] = "push"]
  /\ Goto(t, "pushLock")
  /\ UNCHANGED <<contents, mHeadLock, mTailLock, waiters>>

PushLock(t) ==
  /\ pc[t] = "pushLock"
  /\ mTailLock = NoThread
  /\ mTailLock' = t
  /\ Goto(t, "append")
  /\ UNCHANGED <<contents, mHeadLock, waiters, kind, val>>

(* The stores to the dummy node and to mTail, and the end of the lock.     *)
PushAppend(t) ==
  /\ pc[t] = "append"
  /\ contents' = Append(contents, val[t])
  /\ mTailLock' = NoThread
  /\ Goto(t, "notify")
  /\ UNCHANGED <<mHeadLock, waiters, kind, val>>

(* mCond.notify_one(): some waiting thread, if there is one, wakes up.     *)
Notify(t) ==
  /\ pc[t] = "notify"
  /\ val' = [val EXCEPT ![t] = NoValue]
  /\ \/ /\ waiters = {}
        /\ Goto(t, "done")
        /\ UNCHANGED waiters
     \/ \E u \in waiters :
          /\ waiters' = waiters \ {u}
          /\ pc' = [pc EXCEPT ![t] = "done", ![u] = "popLock"]
  /\ UNCHANGED <<contents, mHeadLock, mTailLock, kind>>

-----------------------------------------------------------------------------
CallPop(t) ==
  /\ pc[t] = "idle" /\ t \in Consumers
  /\ \E k \in {"tryPop", "waitAndPop", "waitAndPopVal"} :
       kind' = [kind EXCEPT ![t] = k]
  /\ Goto(t, "popLock")
  /\ UNCHANGED <<contents, mHeadLock, mTailLock, waiters, val>>

PopLock(t) ==
  /\ pc[t] = "popLock"
  /\ mHeadLock = NoThread
  /\ mHeadLock' = t
  /\ Goto(t, "check")
  /\ UNCHANGED <<contents, mTailLock, waiters, kind, val>>

(* mHead.get() != getTail(); getTail holds mTailLock for one load.         *)
Check(t) ==
  /\ pc[t] = "check"
  /\ mTailLock = NoThread
  /\ \/ /\ contents # <<>>
        /\ Goto(t, IF kind[t] = "waitAndPopVal" THEN "copy" ELSE "pop")
        /\ UNCHANGED mHeadLock
     \/ /\ contents = <<>> /\ kind[t] = "tryPop"
        /\ mHeadLock' = NoThread
        /\ Goto(t, "done")
     \/ /\ contents = <<>> /\ kind[t] # "tryPop"
        /\ Goto(t, "wait")
        /\ UNCHANGED mHeadLock
  /\ UNCHANGED <<contents, mTailLock, waiters, kind, val>>

(* mCond.wait: to give up the mutex and to wait is one step.               *)
Wait(t) ==
  /\ pc[t] = "wait"
  /\ waiters' = waiters \cup {t}
  /\ mHeadLock' = NoThread
  /\ Goto(t, "waiting")
  /\ UNCHANGED <<contents, mTailLock, kind, val>>

(* Mutant: the thread that wakes up does not look again.                   *)
WakeAndPop(t) ==
  /\ pc[t] = "waiting"
  /\ mHeadLock = NoThread
  /\ mHeadLock' = t
  /\ waiters' = waiters \ {t}
  /\ Goto(t, "pop")
  /\ UNCHANGED <<contents, mTailLock, kind, val>>

(* A wait may end without a notification.                                  *)
SpuriousWakeup(t) ==
  /\ pc[t] = "waiting"
  /\ waiters' = waiters \ {t}
  /\ Goto(t, "popLock")
  /\ UNCHANGED <<contents, mHeadLock, mTailLock, kind, val>>

(* The value is moved out; the assignment of its type may throw.           *)
Copy(t) ==
  /\ pc[t] = "copy"
  /\ \/ Goto(t, "pop") /\ UNCHANGED mHeadLock
     \/ mHeadLock' = NoThread /\ Goto(t, "done")
  /\ UNCHANGED <<contents, mTailLock, waiters, kind, val>>

(* Mutant: the mutex is not given up.                                      *)
PopHeadKeep(t) ==
  /\ pc[t] = "pop"
  /\ val' = [val EXCEPT ![t] = Head(contents)]
  /\ contents' = Tail(contents)
  /\ Goto(t, "done")
  /\ UNCHANGED <<mHeadLock, mTailLock, waiters, kind>>

PopHead(t) ==
  /\ pc[t] = "pop"
  /\ val' = [val EXCEPT ![t] = Head(contents)]
  /\ contents' = Tail(contents)
  /\ mHeadLock' = NoThread
  /\ Goto(t, "done")
  /\ UNCHANGED <<mTailLock, waiters, kind>>

Return(t) ==
  /\ pc[t] = "done"
  /\ kind' = [kind EXCEPT ![t] = "none"]
  /\ val' = [val EXCEPT ![t] = NoValue]
  /\ Goto(t, "idle")
  /\ UNCHANGED <<contents, mHeadLock, mTailLock, waiters>>

-----------------------------------------------------------------------------
Call(t) == CallPush(t) \/ CallPop(t)

Step(t) ==
  \/ PushLock(t) \/ PushAppend(t) \/ Notify(t)
  \/ PopLock(t) \/ Check(t) \/ Wait(t) \/ Copy(t) \/ PopHead(t) \/ Return(t)

Next == \E t \in Threads : Call(t) \/ Step(t) \/ SpuriousWakeup(t)

Spec == Init /\ [][Next]_vars

(* A thread inside a function keeps running; nothing wakes a waiting thread  *)
(* but a notification.                                                     *)
FairSpec == Spec /\ \A t \in Threads : WF_vars(Step(t))

-----------------------------------------------------------------------------
(* PROPERTIES                                                              *)

(* The two mutexes are enough: the node a consumer moves from is never the   *)
(* dummy, which a producer may be writing.                                 *)
NeverTheDummy ==
  \A t \in Threads : pc[t] \in {"copy", "pop"} => contents # <<>>

(* A push takes effect with its append, a pop when the head moves or when the *)
(* check of tryPop fails.                                                  *)
Operation(t) ==
  CASE pc[t] = "idle" -> [name |-> "idle", val |-> NoValue]
    [] pc[t] \in {"pushLock", "append"} -> [name |-> "push", val |-> val[t]]
    [] pc[t] = "notify" -> [name |-> "done", val |-> NoValue]
    [] pc[t] = "done" -> [name |-> "done", val |-> val[t]]
    [] OTHER -> [name |-> "pop", val |-> NoValue]

Abstract == INSTANCE AbstractQueue WITH
  queue <- contents, op <- [t \in Threads |-> Operation(t)]

(* The queue is linearizable, and a pop that throws leaves it as it was.   *)
Linearizable == Abstract!SpecWithFailures

(* No consumer sleeps for ever beside a value in the queue.                *)
NoLostWakeup ==
  \A t \in Consumers : []<>(pc[t] # "waiting" \/ contents = <<>>)
=============================================================================
