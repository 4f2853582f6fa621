---------------------------- MODULE AbstractQueue ----------------------------
(***************************************************************************)
(* A linearizable first-in-first-out queue: every operation takes effect   *)
(* at one instant between its call and its return.  A pop of the empty     *)
(* queue returns NoValue, the null unique_ptr of MSQueue::tryPop.          *)
(***************************************************************************)
EXTENDS Sequences

CONSTANTS Threads, Values, NoValue

VARIABLES queue,   \* the values, the oldest first
          op       \* op[t]: what thread t is doing, and with which value

Idle == [name |-> "idle", val |-> NoValue]
Done(v) == [name |-> "done", val |-> v]

Init == queue = <<>> /\ op = [t \in Threads |-> Idle]

Call(t) ==
  /\ op[t] = Idle
  /\ \E o \in [name : {"push"}, val : Values] \cup [name : {"pop"}, val : {NoValue}] :
       op' = [op EXCEPT ![t] = o]
  /\ UNCHANGED queue

Push(t) ==
  /\ op[t].name = "push"
  /\ queue' = Append(queue, op[t].val)
  /\ op' = [op EXCEPT ![t] = Done(NoValue)]

Pop(t) ==
  /\ op[t].name = "pop"
  /\ queue # <<>>
  /\ queue' = Tail(queue)
  /\ op' = [op EXCEPT ![t] = Done(Head(queue))]

PopEmpty(t) ==
  /\ op[t].name = "pop"
  /\ queue = <<>>
  /\ op' = [op EXCEPT ![t] = Done(NoValue)]
  /\ UNCHANGED queue

Return(t) ==
  /\ op[t].name = "done"
  /\ op' = [op EXCEPT ![t] = Idle]
  /\ UNCHANGED queue

Next == \E t \in Threads : Call(t) \/ Push(t) \/ Pop(t) \/ PopEmpty(t) \/ Return(t)

Spec == Init /\ [][Next]_<<queue, op>>

(* A pop may end with an exception, and then it changes nothing.           *)
Fail(t) ==
  /\ op[t].name = "pop"
  /\ op' = [op EXCEPT ![t] = Done(NoValue)]
  /\ UNCHANGED queue

SpecWithFailures == Init /\ [][Next \/ \E t \in Threads : Fail(t)]_<<queue, op>>
=============================================================================
