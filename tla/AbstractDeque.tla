---------------------------- MODULE AbstractDeque ---------------------------
(***************************************************************************)
(* The queue of a worker in a work-stealing pool: its owner pushes and     *)
(* pops at one end, thieves, and the owner as one of them, take from the   *)
(* other.  Every operation takes effect at one instant; only a steal may   *)
(* fail for no reason.                                                     *)
(***************************************************************************)
EXTENDS SequencesExt

CONSTANTS Owner, Thieves, Tasks, NoTask

VARIABLES deque,  \* the tasks, from the thieves' end to the owner's
          op      \* op[t]: what thread t is doing, and with which task

Threads == {Owner} \cup Thieves

Idle == [name |-> "idle", task |-> NoTask]
Done(p) == [name |-> "done", task |-> p]

Init == deque = <<>> /\ op = [t \in Threads |-> Idle]

Call(t, o) ==
  /\ op[t] = Idle
  /\ op' = [op EXCEPT ![t] = o]
  /\ UNCHANGED deque

CallOwner ==
  \E o \in [name : {"push"}, task : Tasks] \cup [name : {"pop"}, task : {NoTask}] :
    Call(Owner, o)

Push ==
  /\ op[Owner].name = "push"
  /\ deque' = Append(deque, op[Owner].task)
  /\ op' = [op EXCEPT ![Owner] = Done(NoTask)]

Pop ==
  /\ op[Owner].name = "pop"
  /\ deque # <<>>
  /\ deque' = Front(deque)
  /\ op' = [op EXCEPT ![Owner] = Done(Last(deque))]

PopEmpty ==
  /\ op[Owner].name = "pop"
  /\ deque = <<>>
  /\ op' = [op EXCEPT ![Owner] = Done(NoTask)]
  /\ UNCHANGED deque

Steal(t) ==
  /\ op[t].name = "steal"
  /\ deque # <<>>
  /\ deque' = Tail(deque)
  /\ op' = [op EXCEPT ![t] = Done(Head(deque))]

StealNothing(t) ==
  /\ op[t].name = "steal"
  /\ op' = [op EXCEPT ![t] = Done(NoTask)]
  /\ UNCHANGED deque

Return(t) ==
  /\ op[t].name = "done"
  /\ op' = [op EXCEPT ![t] = Idle]
  /\ UNCHANGED deque

Next ==
  \/ CallOwner \/ Push \/ Pop \/ PopEmpty
  \/ \E t \in Threads : \/ Call(t, [name |-> "steal", task |-> NoTask])
                        \/ Steal(t) \/ StealNothing(t)
                        \/ Return(t)

Spec == Init /\ [][Next]_<<deque, op>>
=============================================================================
