---------------------------- MODULE AbstractStack ----------------------------
(***************************************************************************)
(* A linearizable stack: every operation takes effect at one instant       *)
(* between its call and its return.  A pop of the empty stack returns      *)
(* NoValue, the empty shared_ptr of LockFreeStack::pop.                    *)
(***************************************************************************)
EXTENDS Sequences

CONSTANTS Threads, Values, NoValue

VARIABLES stack,   \* the values, the top first
          op       \* op[t]: what thread t is doing, and with which value

Idle == [name |-> "idle", val |-> NoValue]
Init == stack = <<>> /\ op = [t \in Threads |-> Idle]

Call(t) ==
  /\ op[t] = Idle
  /\ \/ \E v \in Values : op' = [op EXCEPT ![t] = [name |-> "push", val |-> v]]
     \/ op' = [op EXCEPT ![t] = [name |-> "pop", val |-> NoValue]]
  /\ UNCHANGED stack

Push(t) ==
  /\ op[t].name = "push"
  /\ stack' = <<op[t].val>> \o stack
  /\ op' = [op EXCEPT ![t] = [name |-> "done", val |-> NoValue]]

Pop(t) ==
  /\ op[t].name = "pop"
  /\ stack # <<>>
  /\ stack' = Tail(stack)
  /\ op' = [op EXCEPT ![t] = [name |-> "done", val |-> Head(stack)]]

PopEmpty(t) ==
  /\ op[t].name = "pop"
  /\ stack = <<>>
  /\ op' = [op EXCEPT ![t] = [name |-> "done", val |-> NoValue]]
  /\ UNCHANGED stack

Return(t) ==
  /\ op[t].name = "done"
  /\ op' = [op EXCEPT ![t] = Idle]
  /\ UNCHANGED stack

Next == \E t \in Threads : Call(t) \/ Push(t) \/ Pop(t) \/ PopEmpty(t) \/ Return(t)

Spec == Init /\ [][Next]_<<stack, op>>
=============================================================================
