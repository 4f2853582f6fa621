----------------------------- MODULE ThreadPool -----------------------------
(***************************************************************************)
(* ThreadPool and its users: the quick sort of the tests, whose calls      *)
(* submit the lower part to the pool, sort the higher one themselves and   *)
(* run other tasks until the lower part is done; and a thread that submits *)
(* tasks and destroys the pool without waiting for them.  A thread may so  *)
(* have several calls of sort on its stack, each begun while the one below *)
(* waits.  The queues of the workers are those AbstractDeque describes,    *)
(* which both LocalWorkQueue (under its mutex) and LockFreeLocalWorkQueue  *)
(* implement: every operation is one step, and a steal may fail.           *)
(***************************************************************************)
EXTENDS FiniteSets, Integers, SequencesExt

CONSTANTS Main,          \* the thread that owns the pool
          NumThread,     \* the number of workers
          Values,        \* the values that are sorted, all different
          MaxSubmitted   \* bound: how many tasks are submitted without waiting

PoolAssumption ==
  NumThread \in Nat \ {0} /\ Values \subseteq Int /\ MaxSubmitted \in Nat /\ Main \notin Nat

Workers == 0 .. NumThread - 1
Threads == Workers \cup {Main}

VARIABLES
  client,   \* "sort" or "submit"
  tasks,    \* tasks[k]: the data of the k-th task, whether it has run, its result
  mGlobalWorkQueue,
  mLocalTasks,  \* mLocalTasks[i]: the queue of worker i, its own end last
  mDone,
  stack,    \* stack[t]: the calls of thread t, the innermost last
  answer    \* what Main's call of sort has returned

vars == <<client, tasks, mGlobalWorkQueue, mLocalTasks, mDone, stack, answer>>

(* A call of sort: for which task, if any, it was begun, what it has spliced *)
(* together so far, and the task it has submitted.  A worker's first call is *)
(* work, which submits nothing.                                            *)
Frame(pc, data, of) ==
  [pc |-> pc, data |-> data, of |-> of, result |-> <<>>, fut |-> 0, index |-> 0]

TypeOK ==
  /\ \A k \in DOMAIN tasks :
       tasks[k] \in [data : SUBSET Values, result : Seq(Values),
                     state : {"queued", "run", "ready", "broken"}]
  /\ \A q \in {mGlobalWorkQueue} \cup {mLocalTasks[i] : i \in Workers} :
       IsInjective(q) /\ ToSet(q) \subseteq DOMAIN tasks
  /\ mDone \in BOOLEAN

Init ==
  /\ client \in {"sort", "submit"}
  /\ tasks = <<>> /\ mGlobalWorkQueue = <<>> /\ mLocalTasks = [i \in Workers |-> <<>>]
  /\ mDone = FALSE
  /\ stack = [t \in Threads |->
       IF t # Main THEN <<Frame("test", {}, 0)>>
       ELSE IF client = "sort" THEN <<Frame("sort", Values, 0)>>
       ELSE <<>>]
  /\ answer = <<>>

Top(t) == Last(stack[t])
Calls(t, pc) == stack[t] # <<>> /\ Top(t).pc = pc
Goto(t, frame) == stack' = [stack EXCEPT ![t] = Front(@) \o <<frame>>]

-----------------------------------------------------------------------------
(* The queues.  A task that is taken is run at once.                       *)
Begin(t, k) ==
  /\ tasks' = [tasks EXCEPT ![k].state = "run"]
  /\ stack' = [stack EXCEPT ![t] = Append(@, Frame("sort", tasks[k].data, k))]

PushGlobal(k) ==
  mGlobalWorkQueue' = Append(mGlobalWorkQueue, k) /\ UNCHANGED mLocalTasks

(* Mutant: the front is not popped.                                        *)
PopGlobalKeep(t) ==
  /\ mGlobalWorkQueue # <<>>
  /\ Begin(t, Head(mGlobalWorkQueue))
  /\ UNCHANGED mGlobalWorkQueue

PopGlobal(t) ==
  /\ mGlobalWorkQueue # <<>>
  /\ Begin(t, Head(mGlobalWorkQueue))
  /\ mGlobalWorkQueue' = Tail(mGlobalWorkQueue)

(* Each worker has a queue of its own: it pushes and pops at one end, the   *)
(* others steal at the other.                                              *)
OwnQueue(t) == IF t = Main THEN <<>> ELSE mLocalTasks[t]

PushLocal(t, k) ==
  mLocalTasks' = [mLocalTasks EXCEPT ![t] = Append(@, k)] /\ UNCHANGED mGlobalWorkQueue

PopLocal(t) ==
  /\ OwnQueue(t) # <<>>
  /\ Begin(t, Last(mLocalTasks[t]))
  /\ mLocalTasks' = [mLocalTasks EXCEPT ![t] = Front(@)]

Steal(t, victim) ==
  /\ mLocalTasks[victim] # <<>>
  /\ Begin(t, Head(mLocalTasks[victim]))
  /\ mLocalTasks' = [mLocalTasks EXCEPT ![victim] = Tail(@)]

submit(t, data) ==
  /\ tasks' = Append(tasks, [data |-> data, result |-> <<>>, state |-> "queued"])
  /\ IF t = Main THEN PushGlobal(Len(tasks')) ELSE PushLocal(t, Len(tasks'))

-----------------------------------------------------------------------------
(* The quick sort.                                                         *)

(* The innermost call returns: from the packaged task it was begun for to    *)
(* the call that looks for tasks, or as the higher part of the call below, *)
(* or to the caller of Main.                                               *)
Return(t, value) ==
  LET below == Front(stack[t])
      of    == Top(t).of
      back  == [Last(below) EXCEPT !.pc = "test",
                                   !.result = IF of # 0 THEN @ ELSE @ \o value]
  IN  /\ tasks' = IF of # 0
                    THEN [tasks EXCEPT ![of].result = value, ![of].state = "ready"]
                    ELSE tasks
      /\ stack' = [stack EXCEPT ![t] =
           IF below = <<>> THEN <<>> ELSE Front(below) \o <<back>>]
      /\ answer' = IF below = <<>> THEN value ELSE answer

(* sort: the first value of the list is the pivot; the order of the list is *)
(* a choice.                                                               *)
SortEmpty(t) ==
  /\ Calls(t, "sort") /\ Top(t).data = {}
  /\ Return(t, <<>>)
  /\ UNCHANGED <<client, mGlobalWorkQueue, mLocalTasks, mDone>>

Sort(t) ==
  /\ Calls(t, "sort")
  /\ \E pivot \in Top(t).data :
       LET lower  == {x \in Top(t).data : x < pivot}
           higher == Top(t).data \ (lower \cup {pivot})
           frame  == [Top(t) EXCEPT !.pc = "higher", !.result = <<pivot>>,
                                    !.fut = Len(tasks) + 1]
       IN  /\ submit(t, lower)
           /\ stack' = [stack EXCEPT ![t] = Front(@) \o <<frame, Frame("sort", higher, 0)>>]
  /\ UNCHANGED <<client, mDone, answer>>

(* Mutant: the call does not wait for the lower part.                      *)
TestOnce(t) ==
  /\ Calls(t, "test") /\ Top(t).fut # 0
  /\ Return(t, tasks[Top(t).fut].result \o Top(t).result)
  /\ UNCHANGED <<client, mGlobalWorkQueue, mLocalTasks, mDone>>

(* Mutant: no other task is run meanwhile.                                 *)
TestOnly(t) ==
  /\ Calls(t, "test") /\ Top(t).fut # 0
  /\ IF tasks[Top(t).fut].state = "ready"
       THEN Return(t, tasks[Top(t).fut].result \o Top(t).result)
       ELSE UNCHANGED <<tasks, stack, answer>>
  /\ UNCHANGED <<client, mGlobalWorkQueue, mLocalTasks, mDone>>

(* fut.wait_for(0s), and fut.get() once it is ready.                       *)
TestFuture(t) ==
  /\ Calls(t, "test") /\ Top(t).fut # 0
  /\ IF tasks[Top(t).fut].state = "ready"
       THEN Return(t, tasks[Top(t).fut].result \o Top(t).result)
       ELSE Goto(t, [Top(t) EXCEPT !.pc = "local"]) /\ UNCHANGED <<tasks, answer>>
  /\ UNCHANGED <<client, mGlobalWorkQueue, mLocalTasks, mDone>>

(* The loop of work.                                                       *)
TestDone(t) ==
  /\ Calls(t, "test") /\ Top(t).fut = 0
  /\ IF mDone THEN stack' = [stack EXCEPT ![t] = <<>>]
              ELSE Goto(t, [Top(t) EXCEPT !.pc = "local"])
  /\ UNCHANGED <<client, tasks, mGlobalWorkQueue, mLocalTasks, mDone, answer>>

-----------------------------------------------------------------------------
(* runPendingTask: the own queue, the global one, and those of the others,   *)
(* beginning with the next worker's; sIndex of Main is 0.                  *)
GetFromLocalQueue(t) ==
  /\ Calls(t, "local")
  /\ \/ PopLocal(t)
     \/ /\ OwnQueue(t) = <<>>
        /\ Goto(t, [Top(t) EXCEPT !.pc = "global"])
        /\ UNCHANGED <<tasks, mLocalTasks>>
  /\ UNCHANGED <<client, mGlobalWorkQueue, mDone, answer>>

GetFromGlobalQueue(t) ==
  /\ Calls(t, "global")
  /\ \/ PopGlobal(t)
     \/ /\ mGlobalWorkQueue = <<>>
        /\ Goto(t, [Top(t) EXCEPT !.pc = "steal", !.index = 0])
        /\ UNCHANGED <<tasks, mGlobalWorkQueue>>
  /\ UNCHANGED <<client, mLocalTasks, mDone, answer>>

(* The last queue that is looked at is the own one; then the thread yields. *)
GetFromOtherLocalQueue(t) ==
  LET sIndex == IF t = Main THEN 0 ELSE t
      victim == (sIndex + Top(t).index + 1) % NumThread
  IN  /\ Calls(t, "steal")
      /\ \/ /\ Goto(t, IF Top(t).index + 1 < NumThread
                         THEN [Top(t) EXCEPT !.index = @ + 1]
                         ELSE [Top(t) EXCEPT !.pc = "test"])
            /\ UNCHANGED <<tasks, mLocalTasks>>
         \/ Steal(t, victim)
      /\ UNCHANGED <<client, mGlobalWorkQueue, mDone, answer>>

-----------------------------------------------------------------------------
(* The other client of the pool.                                           *)
SubmitOnly ==
  /\ client = "submit" /\ ~mDone /\ Len(tasks) < MaxSubmitted
  /\ submit(Main, {})
  /\ UNCHANGED <<client, mDone, stack, answer>>

(* ~ThreadPool: the workers are joined after its body.                     *)
Done ==
  /\ stack[Main] = <<>> /\ ~mDone
  /\ mDone' = TRUE
  /\ UNCHANGED <<client, tasks, mGlobalWorkQueue, mLocalTasks, stack, answer>>

Joined == mDone /\ \A t \in Threads : stack[t] = <<>>

(* The queues are destroyed, and with them the packaged tasks they hold.   *)
Destroy ==
  /\ Joined
  /\ mGlobalWorkQueue # <<>>
  /\ tasks' = [k \in DOMAIN tasks |->
       IF Contains(mGlobalWorkQueue, k) THEN [tasks[k] EXCEPT !.state = "broken"]
                                        ELSE tasks[k]]
  /\ mGlobalWorkQueue' = <<>>
  /\ UNCHANGED <<client, mLocalTasks, mDone, stack, answer>>

Step(t) ==
  \/ SortEmpty(t) \/ Sort(t) \/ TestFuture(t) \/ TestDone(t)
  \/ GetFromLocalQueue(t) \/ GetFromGlobalQueue(t) \/ GetFromOtherLocalQueue(t)

OwnerStep == SubmitOnly \/ Done \/ Destroy

-----------------------------------------------------------------------------
(* PROPERTIES                                                              *)

Frames == UNION {{t} \X DOMAIN stack[t] : t \in Threads}
At(f) == stack[f[1]][f[2]]

(* In how many queues the k-th task is, and in how many calls it runs.     *)
Places(k) ==
  LET inLocal  == {i \in Workers : Contains(mLocalTasks[i], k)}
      inGlobal == {q \in {mGlobalWorkQueue} : Contains(q, k)}
      running  == {f \in Frames : At(f).of = k}
  IN  Cardinality(inLocal) + Cardinality(inGlobal) + Cardinality(running)

(* Every task is in one queue or run by one thread until it is done, and     *)
(* then never again; when the workers have left, nothing is in the queues  *)
(* of the workers, whose tasks would be leaked.                            *)
RunOnce ==
  /\ \A k \in DOMAIN tasks :
       Places(k) = IF tasks[k].state \in {"queued", "run"} THEN 1 ELSE 0
  /\ Joined => \A i \in Workers : mLocalTasks[i] = <<>>

(* The task of a lower part refers to the list of the call that submitted it: *)
(* that call has not returned before the task is done.  What a task or the   *)
(* caller gets is the sorted list.                                         *)
SubmitterWaits ==
  /\ \A k \in DOMAIN tasks :
       CASE tasks[k].state \in {"queued", "run"} ->
              client = "sort" => \E f \in Frames : At(f).fut = k
         [] tasks[k].state = "ready" -> tasks[k].result = SetToSortSeq(tasks[k].data, <)
         [] OTHER -> client = "submit"
  /\ answer # <<>> => answer = SetToSortSeq(Values, <)

(* No circle of waits: the sort returns, the pool can be destroyed, and the  *)
(* futures of all tasks are ready, or broken if their task was dropped.    *)
Ended == Joined /\ \A k \in DOMAIN tasks : tasks[k].state \in {"ready", "broken"}
=============================================================================
