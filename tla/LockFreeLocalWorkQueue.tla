----------------------- MODULE LockFreeLocalWorkQueue -----------------------
(***************************************************************************)
(* LockFreeLocalWorkQueue of the thread pool, a work-stealing deque on a   *)
(* circular array: the worker that owns it pushes and pops at mBottom, the *)
(* other workers steal at mTop.  Only the owner writes to the array; a     *)
(* full one is replaced by a copy of twice the size and retired.  The      *)
(* claim of the array is one step, as module ClaimPointer justifies, and   *)
(* keeps a retired array from being freed.  A worker that looks for work   *)
(* in all the queues, starting after its own, ends with its own: the owner *)
(* steals as well.                                                         *)
(***************************************************************************)
EXTENDS Integers, Sequences

CONSTANTS Owner, Thieves, NoTask,
          InitialCapacity,
          MaxTasks  \* bound: how many tasks are pushed

ASSUME CapacityAssumption == InitialCapacity \in Nat \ {0} /\ MaxTasks \in Nat

Threads == {Owner} \cup Thieves

(* A task is named by its number in the order of the pushes.               *)
Tasks == 1 .. MaxTasks

VARIABLES
  arrays,   \* all the arrays there have been; mTasks is the last of them
  mBottom, mTop,
  pushed,   \* how many tasks have been pushed
  pc,       \* pc[t]: where thread t is
  bottom,   \* bottom[t]: newBottom of pop, b of push
  top,      \* top[t]: oldTop of pop and steal, t of push
  array,    \* array[t]: the array the thread has claimed
  task      \* task[t]: the task it pushes, has read, or returns

vars == <<arrays, mBottom, mTop, pushed, pc, bottom, top, array, task>>

Capacity(k) == Len(arrays[k])

(* get(i) and put(i, p): an array is circular.                             *)
At(a, i) == a[(i % Len(a)) + 1]
Put(a, i, p) == [a EXCEPT ![(i % Len(a)) + 1] = p]

Get(k, i) == At(arrays[k], i)

TypeOK ==
  /\ arrays \in Seq(Seq(Tasks \cup {NoTask}) \ {<<>>}) \ {<<>>}
  /\ mBottom \in Int /\ mTop \in Nat
  /\ pushed \in 0 .. MaxTasks
  /\ pc \in [Threads -> {"idle", "push", "put", "pushBottom", "pop", "popTop", "reset",
                         "popClaim", "popCAS", "popBottom", "steal",
                         "stealBottom", "stealClaim", "stealGet", "stealCAS", "done"}]
  /\ bottom \in [Threads -> Int] /\ top \in [Threads -> Nat]
  /\ array \in [Threads -> 0 .. Len(arrays)]
  /\ task \in [Threads -> Tasks \cup {NoTask}]

Init ==
  /\ arrays = <<[i \in 1 .. InitialCapacity |-> NoTask]>>
  /\ mBottom = 0 /\ mTop = 0
  /\ pushed = 0
  /\ pc = [t \in Threads |-> "idle"]
  /\ bottom = [t \in Threads |-> 0] /\ top = [t \in Threads |-> 0]
  /\ array = [t \in Threads |-> 0]
  /\ task = [t \in Threads |-> NoTask]

Goto(t, label) == pc' = [pc EXCEPT ![t] = label]

(* The copy of the tasks from t to b - 1 to an array of n slots.           *)
Copy(n, b, t) ==
  [i \in 1 .. n |->
     LET old == {j \in t .. b - 1 : (j % n) + 1 = i}
     IN  IF old = {} THEN NoTask ELSE Get(Len(arrays), CHOOSE j \in old : TRUE)]

(* Mutant: the copy is no larger.                                          *)
ResizedSame(b, t) == Copy(Capacity(Len(arrays)), b, t)

(* The array that resize returns.                                          *)
Resized(b, t) == Copy(2 * Capacity(Len(arrays)), b, t)

-----------------------------------------------------------------------------
(* push                                                                    *)

CallPush ==
  /\ pc[Owner] = "idle" /\ pushed < MaxTasks
  /\ pushed' = pushed + 1
  /\ task' = [task EXCEPT ![Owner] = pushed']
  /\ Goto(Owner, "push")
  /\ UNCHANGED <<arrays, mBottom, mTop, bottom, top, array>>

(* The loads of mBottom, which only the owner writes, and of mTop.         *)
PushLoad ==
  /\ pc[Owner] = "push"
  /\ bottom' = [bottom EXCEPT ![Owner] = mBottom]
  /\ top' = [top EXCEPT ![Owner] = mTop]
  /\ Goto(Owner, "put")
  /\ UNCHANGED <<arrays, mBottom, mTop, pushed, array, task>>

(* Mutant: the array is replaced a push too late.                          *)
PushPutFull ==
  /\ pc[Owner] = "put"
  /\ LET b == bottom[Owner]
         n == Len(arrays)
     IN  IF Capacity(n) < b - top[Owner]
           THEN arrays' = Append(arrays, Put(Resized(b, top[Owner]), b, task[Owner]))
           ELSE arrays' = [arrays EXCEPT ![n] = Put(@, b, task[Owner])]
  /\ Goto(Owner, "pushBottom")
  /\ UNCHANGED <<mBottom, mTop, pushed, bottom, top, array, task>>

(* A full array is replaced first; the copy is stored to mTasks before the  *)
(* task is put into it, but before that store of mBottom no thief looks     *)
(* for it.                                                                 *)
PushPut ==
  /\ pc[Owner] = "put"
  /\ LET b == bottom[Owner]
         n == Len(arrays)
     IN  IF Capacity(n) - 1 <= b - top[Owner]
           THEN arrays' = Append(arrays, Put(Resized(b, top[Owner]), b, task[Owner]))
           ELSE arrays' = [arrays EXCEPT ![n] = Put(@, b, task[Owner])]
  /\ Goto(Owner, "pushBottom")
  /\ UNCHANGED <<mBottom, mTop, pushed, bottom, top, array, task>>

PushBottom ==
  /\ pc[Owner] = "pushBottom"
  /\ mBottom' = bottom[Owner] + 1
  /\ task' = [task EXCEPT ![Owner] = NoTask]
  /\ Goto(Owner, "done")
  /\ UNCHANGED <<arrays, mTop, pushed, bottom, top, array>>

-----------------------------------------------------------------------------
(* pop                                                                     *)

CallPop ==
  /\ pc[Owner] = "idle"
  /\ Goto(Owner, "pop")
  /\ UNCHANGED <<arrays, mBottom, mTop, pushed, bottom, top, array, task>>

PopBottom ==
  /\ pc[Owner] = "pop"
  /\ mBottom' = mBottom - 1
  /\ bottom' = [bottom EXCEPT ![Owner] = mBottom']
  /\ Goto(Owner, "popTop")
  /\ UNCHANGED <<arrays, mTop, pushed, top, array, task>>

PopTop ==
  /\ pc[Owner] = "popTop"
  /\ top' = [top EXCEPT ![Owner] = mTop]
  /\ Goto(Owner, IF bottom[Owner] < mTop THEN "reset" ELSE "popClaim")
  /\ UNCHANGED <<arrays, mBottom, mTop, pushed, bottom, array, task>>

PopReset ==
  /\ pc[Owner] = "reset"
  /\ mBottom' = top[Owner]
  /\ Goto(Owner, "done")
  /\ UNCHANGED <<arrays, mTop, pushed, bottom, top, array, task>>

(* Mutant: the owner does not compete for the last task.                   *)
PopGetLast ==
  /\ pc[Owner] = "popClaim"
  /\ task' = [task EXCEPT ![Owner] = Get(Len(arrays), bottom[Owner])]
  /\ Goto(Owner, "done")
  /\ UNCHANGED <<arrays, mBottom, mTop, pushed, bottom, top, array>>

(* claimPointer and get: only the owner itself replaces or writes an array. *)
PopGet ==
  /\ pc[Owner] = "popClaim"
  /\ task' = [task EXCEPT ![Owner] = Get(Len(arrays), bottom[Owner])]
  /\ Goto(Owner, IF top[Owner] < bottom[Owner] THEN "done" ELSE "popCAS")
  /\ UNCHANGED <<arrays, mBottom, mTop, pushed, bottom, top, array>>

(* The last task: a thief may be after it as well.                         *)
PopCAS ==
  /\ pc[Owner] = "popCAS"
  /\ IF mTop = top[Owner]
       THEN mTop' = mTop + 1 /\ UNCHANGED task
       ELSE task' = [task EXCEPT ![Owner] = NoTask] /\ UNCHANGED mTop
  /\ Goto(Owner, "popBottom")
  /\ UNCHANGED <<arrays, mBottom, pushed, bottom, top, array>>

PopRestore ==
  /\ pc[Owner] = "popBottom"
  /\ mBottom' = top[Owner] + 1
  /\ Goto(Owner, "done")
  /\ UNCHANGED <<arrays, mTop, pushed, bottom, top, array, task>>

-----------------------------------------------------------------------------
(* steal                                                                   *)

CallSteal(t) ==
  /\ pc[t] = "idle"
  /\ Goto(t, "steal")
  /\ UNCHANGED <<arrays, mBottom, mTop, pushed, bottom, top, array, task>>

StealTop(t) ==
  /\ pc[t] = "steal"
  /\ top' = [top EXCEPT ![t] = mTop]
  /\ Goto(t, "stealBottom")
  /\ UNCHANGED <<arrays, mBottom, mTop, pushed, bottom, array, task>>

StealBottom(t) ==
  /\ pc[t] = "stealBottom"
  /\ Goto(t, IF mBottom <= top[t] THEN "done" ELSE "stealClaim")
  /\ UNCHANGED <<arrays, mBottom, mTop, pushed, bottom, top, array, task>>

StealClaim(t) ==
  /\ pc[t] = "stealClaim"
  /\ array' = [array EXCEPT ![t] = Len(arrays)]
  /\ Goto(t, "stealGet")
  /\ UNCHANGED <<arrays, mBottom, mTop, pushed, bottom, top, task>>

(* The array may have been replaced, and its slot may be in use again.     *)
StealGet(t) ==
  /\ pc[t] = "stealGet"
  /\ task' = [task EXCEPT ![t] = Get(array[t], top[t])]
  /\ Goto(t, "stealCAS")
  /\ UNCHANGED <<arrays, mBottom, mTop, pushed, bottom, top, array>>

StealCAS(t) ==
  /\ pc[t] = "stealCAS"
  /\ IF mTop = top[t]
       THEN mTop' = mTop + 1 /\ UNCHANGED task
       ELSE task' = [task EXCEPT ![t] = NoTask] /\ UNCHANGED mTop
  /\ Goto(t, "done")
  /\ UNCHANGED <<arrays, mBottom, pushed, bottom, top, array>>

(* The locals end with the call.                                           *)
Return(t) ==
  /\ pc[t] = "done"
  /\ task' = [task EXCEPT ![t] = NoTask]
  /\ bottom' = [bottom EXCEPT ![t] = 0]
  /\ top' = [top EXCEPT ![t] = 0]
  /\ array' = [array EXCEPT ![t] = 0]
  /\ Goto(t, "idle")
  /\ UNCHANGED <<arrays, mBottom, mTop, pushed>>

-----------------------------------------------------------------------------
Next ==
  \/ CallPush \/ PushLoad \/ PushPut \/ PushBottom
  \/ CallPop \/ PopBottom \/ PopTop \/ PopReset \/ PopGet \/ PopCAS \/ PopRestore
  \/ \E t \in Threads : \/ CallSteal(t) \/ StealTop(t) \/ StealBottom(t)
                        \/ StealClaim(t) \/ StealGet(t) \/ StealCAS(t)
                        \/ Return(t)

Spec == Init /\ [][Next]_vars

-----------------------------------------------------------------------------
(* PROPERTIES                                                              *)

(* The owner's end: until its load of mTop, and while it competes for the   *)
(* last task, pop has not taken the task mBottom points to.                *)
End == IF \/ pc[Owner] = "popTop"
          \/ pc[Owner] \in {"popClaim", "popCAS"} /\ bottom[Owner] = top[Owner]
         THEN mBottom + 1 ELSE mBottom

Contents == [i \in 1 .. (IF mTop < End THEN End - mTop ELSE 0) |->
               Get(Len(arrays), mTop + i - 1)]

(* What a caller could tell of the operation.                              *)
Operation(t) ==
  CASE pc[t] = "idle" -> [name |-> "idle", task |-> NoTask]
    [] pc[t] \in {"push", "put", "pushBottom"} -> [name |-> "push", task |-> task[t]]
    [] \/ pc[t] \in {"pop", "popTop", "popCAS"}
       \/ pc[t] = "popClaim" /\ bottom[t] = top[t] -> [name |-> "pop", task |-> NoTask]
    [] pc[t] = "popClaim" /\ bottom[t] # top[t] ->
         [name |-> "done", task |-> Get(Len(arrays), bottom[t])]
    [] pc[t] \in {"steal", "stealBottom", "stealClaim", "stealGet", "stealCAS"} ->
         [name |-> "steal", task |-> NoTask]
    [] OTHER -> [name |-> "done", task |-> task[t]]

Abstract == INSTANCE AbstractDeque WITH
  deque <- Contents, op <- [t \in Threads |-> Operation(t)]

(* The deque is linearizable: no task is lost, none is run twice, and the   *)
(* owner gets its last one first.                                          *)
Linearizable == Abstract!Spec

(* The array never holds more tasks than it has room for, and a thief whose *)
(* CAS will succeed has read, maybe from an array that was replaced since   *)
(* and maybe from a slot that was used again, the task it will have taken.  *)
NoOverwrite ==
  /\ TypeOK
  /\ \A t \in Threads :
       pc[t] = "stealCAS" /\ mTop = top[t] => task[t] = Get(Len(arrays), mTop)
  /\ mBottom - mTop <= Capacity(Len(arrays))
=============================================================================
