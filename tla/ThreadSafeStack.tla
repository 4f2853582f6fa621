--------------------------- MODULE ThreadSafeStack --------------------------
(***************************************************************************)
(* ThreadSafeStack: one mutex, which push also holds while it notifies, so *)
(* that a critical section is one step.  A wait ends the section of a pop  *)
(* that finds nothing; the thread that wakes up locks again and looks      *)
(* again.                                                                  *)
(***************************************************************************)
EXTENDS Naturals, Sequences, FiniteSets

CONSTANTS Threads, Values, NoValue,
          MaxLen  \* bound: no push is called on a stack of this length

VARIABLES mStack,  \* the values, the top first
          at,      \* at[t]: where thread t is, "waiting" if it waits for mCond
          item     \* item[t]: the argument of its push or the result of its pop

StackTypeOK ==
  /\ mStack \in Seq(Values)
  /\ at \in [Threads -> {"idle", "push", "pop", "try_pop", "waiting", "done"}]
  /\ item \in [Threads -> Values \cup {NoValue}]

StackInit ==
  /\ mStack = <<>>
  /\ at = [t \in Threads |-> "idle"]
  /\ item = [t \in Threads |-> NoValue]

Call(t) ==
  /\ at[t] = "idle"
  /\ \/ /\ Len(mStack) < MaxLen
        /\ at' = [at EXCEPT ![t] = "push"]
        /\ \E v \in Values : item' = [item EXCEPT ![t] = v]
     \/ /\ \E op \in {"pop", "try_pop"} : at' = [at EXCEPT ![t] = op]
        /\ UNCHANGED item
  /\ UNCHANGED mStack

(* notify_one wakes some waiting thread, if there is one.                  *)
pushImpl(t) ==
  /\ at[t] = "push"
  /\ mStack' = <<item[t]>> \o mStack
  /\ item' = [item EXCEPT ![t] = NoValue]
  /\ \/ (\A u \in Threads : at[u] # "waiting") /\ at' = [at EXCEPT ![t] = "done"]
     \/ \E u \in Threads :
          at[u] = "waiting" /\ at' = [at EXCEPT ![t] = "done", ![u] = "pop"]

Take(t) ==
  /\ mStack # <<>>
  /\ item' = [item EXCEPT ![t] = Head(mStack)]
  /\ mStack' = Tail(mStack)
  /\ at' = [at EXCEPT ![t] = "done"]

pop(t) ==
  /\ at[t] = "pop"
  /\ \/ Take(t)
     \/ mStack = <<>> /\ at' = [at EXCEPT ![t] = "waiting"] /\ UNCHANGED <<mStack, item>>

try_pop(t) ==
  /\ at[t] = "try_pop"
  /\ \/ Take(t)
     \/ mStack = <<>> /\ at' = [at EXCEPT ![t] = "done"] /\ UNCHANGED <<mStack, item>>

SpuriousWakeup(t) ==
  at[t] = "waiting" /\ at' = [at EXCEPT ![t] = "pop"] /\ UNCHANGED <<mStack, item>>

Return(t) ==
  /\ at[t] = "done"
  /\ at' = [at EXCEPT ![t] = "idle"]
  /\ item' = [item EXCEPT ![t] = NoValue]
  /\ UNCHANGED mStack

Next ==
  \E t \in Threads :
    Call(t) \/ pushImpl(t) \/ pop(t) \/ try_pop(t) \/ SpuriousWakeup(t) \/ Return(t)

-----------------------------------------------------------------------------
(* PROPERTIES                                                              *)

(* Whoever waits although there is a value has been overtaken: as many        *)
(* threads as there are values are on their way to take them.  A             *)
(* notification that is lost, or that wakes a thread for nothing, would      *)
(* leave a value beside a thread that sleeps.                              *)
NoneForgotten ==
  (\E t \in Threads : at[t] = "waiting") =>
     Len(mStack) <= Cardinality({t \in Threads : at[t] \in {"pop", "try_pop"}})

Abstract == INSTANCE AbstractStack WITH
  stack <- mStack,
  op <- [t \in Threads |->
           [name |-> CASE at[t] \in {"pop", "try_pop", "waiting"} -> "pop"
                       [] OTHER -> at[t],
            val  |-> item[t]]]

(* The stack is linearizable.                                              *)
StackLinearizable == Abstract!Spec
=============================================================================
