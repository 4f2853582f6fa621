------------------------------ MODULE Monitors ------------------------------
(***************************************************************************)
(* The small synchronisers of Misc: Barrier, Latch, Future with Promise,   *)
(* InterruptibleThread and double-checked initialization.  What a thread   *)
(* does under a mutex is one step; a wait on a condition variable ends the *)
(* step, and the thread goes on once it is notified, or without cause.     *)
(***************************************************************************)
EXTENDS FiniteSets, Naturals

CONSTANTS Threads,
          Generations,       \* how many values the barrier's counter has
          Promiser, Getter,  \* the threads of the promise and the future
          Worker, Notifier   \* InterruptibleThread, and who satisfies its predicate

BarrierAssumption == Generations \in Nat \ {0, 1}
RolesAssumption ==
  {Promiser, Getter, Worker, Notifier} \subseteq Threads /\ Promiser # Getter
    /\ Worker # Notifier

VARIABLES kind,    \* the class of the object the threads share
          shared,  \* its members
          me       \* me[t]: where thread t is, and its locals

(* The record s with the fields that r has as they are in r.               *)
Update(s, r) == [f \in DOMAIN s |-> IF f \in DOMAIN r THEN r[f] ELSE s[f]]

Becomes(t, r) == me' = [me EXCEPT ![t] = Update(me[t], r)]
Everyone(r) == me = [t \in Threads |-> r]

(* mCond.notify_one().                                                     *)
notify_one(t, r) ==
  \/ \E u \in Threads \ {t} :
       /\ me[u].pc = "asleep"
       /\ me' = [me EXCEPT ![u].pc = "woken", ![t] = Update(me[t], r)]
  \/ (\A u \in Threads \ {t} : me[u].pc # "asleep") /\ Becomes(t, r)

(* mCond.notify_all() by thread t, which becomes r.                        *)
notify_all(t, r) ==
  me' = [u \in Threads |->
           IF u = t THEN Update(me[t], r)
           ELSE IF me[u].pc = "asleep" THEN [me[u] EXCEPT !.pc = "woken"] ELSE me[u]]

(* Mutant: mCond.wait(lk).                                               *)
NoPredicate(t) == TRUE

(* What a sleeping thread waits for.                                       *)
Predicate(t) ==
  CASE kind = "barrier" -> me[t].curGen # shared.mGeneration
    [] kind = "latch"   -> shared.mCount = 0
    [] kind = "future"  -> shared.mIsReady
    [] OTHER            -> FALSE

-----------------------------------------------------------------------------
(* Barrier for as many threads as there are; the counter of generations     *)
(* wraps around.                                                           *)
BarrierInit ==
  /\ kind = "barrier"
  /\ shared = [mGeneration |-> 0, mCount |-> Cardinality(Threads)]
  /\ Everyone([pc |-> "out", curGen |-> 0])

BarrierWait(t) ==
  /\ kind = "barrier" /\ me[t].pc = "out"
  /\ IF shared.mCount = 1
       THEN /\ shared' = [mGeneration |-> (shared.mGeneration + 1) % Generations,
                          mCount |-> Cardinality(Threads)]
            /\ notify_all(t, [pc |-> "out"])
       ELSE /\ shared' = [shared EXCEPT !.mCount = @ - 1]
            /\ Becomes(t, [pc |-> "asleep", curGen |-> shared.mGeneration])

(* Latch: everyone waits once.                                             *)
LatchInit ==
  /\ kind = "latch"
  /\ shared = [mCount |-> Cardinality(Threads)]
  /\ Everyone([pc |-> "out"])

LatchWait(t) ==
  /\ kind = "latch" /\ me[t].pc = "out"
  /\ shared' = [shared EXCEPT !.mCount = @ - 1]
  /\ IF shared.mCount = 1 THEN notify_all(t, [pc |-> "passed"])
                          ELSE Becomes(t, [pc |-> "asleep"])

-----------------------------------------------------------------------------
(* Promise and Future: mData is nothing, a value, an exception, or what get  *)
(* has left of a value.                                                    *)
FutureInit ==
  /\ kind = "future"
  /\ shared = [mIsReady |-> FALSE, mData |-> "nothing"]
  /\ Everyone([pc |-> "out", call |-> "wait", got |-> "nothing"])

(* setValue and setException.  A value cannot be set after an exception:    *)
(* std::get throws.                                                        *)
SetData(t) ==
  /\ kind = "future" /\ t = Promiser
  /\ \E data \in {"value", "exception"} :
       /\ data = "value" => shared.mData # "exception"
       /\ shared' = [mIsReady |-> TRUE, mData |-> data]
  /\ notify_one(t, [pc |-> "out"])

(* get moves the value out, or rethrows the exception.                     *)
Receive(t, call) ==
  /\ Becomes(t, [pc |-> "out", got |-> IF call = "get" THEN shared.mData ELSE me[t].got])
  /\ shared' = IF call = "get" /\ shared.mData = "value"
                 THEN [shared EXCEPT !.mData = "moved"] ELSE shared

(* get and wait: whoever finds the state ready does not sleep.             *)
FutureCall(t) ==
  /\ kind = "future" /\ t = Getter /\ me[t].pc = "out"
  /\ \E call \in {"get", "wait"} :
       IF shared.mIsReady THEN Receive(t, call)
       ELSE Becomes(t, [pc |-> "asleep", call |-> call]) /\ UNCHANGED shared

(* A thread that was woken: the predicate holds, or it sleeps again.       *)
Wake(t) ==
  /\ kind \in {"barrier", "latch", "future"} /\ me[t].pc = "woken"
  /\ IF ~Predicate(t) THEN Becomes(t, [pc |-> "asleep"]) /\ UNCHANGED shared
     ELSE IF kind = "future" THEN Receive(t, me[t].call)
     ELSE /\ Becomes(t, [pc |-> IF kind = "latch" THEN "passed" ELSE "out"])
          /\ UNCHANGED shared

(* A thread wakes up without a notification.                               *)
SpuriousWakeup(t) ==
  /\ kind \in {"barrier", "latch", "future"} /\ me[t].pc = "asleep"
  /\ Becomes(t, [pc |-> "woken"])
  /\ UNCHANGED shared

-----------------------------------------------------------------------------
(* InterruptibleThread: the worker waits, again and again, in                *)
(* interruptibleWait, with a predicate or without.  The condition variable  *)
(* it registers is never unregistered.                                     *)
InterruptInit ==
  /\ kind = "interrupt"
  /\ \E hasPred \in BOOLEAN :
       shared = [mInterruptFlag |-> FALSE, mFlag |-> FALSE, mCond |-> FALSE,
                 hasPred |-> hasPred, pred |-> FALSE]
  /\ me = [t \in Threads |-> [pc |-> IF t = Worker THEN "start" ELSE "out"]]

Start(t) ==
  /\ kind = "interrupt" /\ me[t].pc = "start"
  /\ shared' = [shared EXCEPT !.mInterruptFlag = TRUE]
  /\ Becomes(t, [pc |-> "point"])

(* interruptionPoint() throws once the flag is set, which ends the thread.  *)
(* The last one returns to the caller, who waits again.                    *)
InterruptionPoint(t) ==
  /\ kind = "interrupt" /\ me[t].pc \in {"point", "registered", "last"}
  /\ Becomes(t, [pc |-> CASE shared.mFlag -> "ended"
                          [] ~shared.mFlag /\ me[t].pc = "point" -> "register"
                          [] ~shared.mFlag /\ me[t].pc = "registered" -> "test"
                          [] OTHER -> "returned"])
  /\ UNCHANGED shared

SetConditionVariable(t) ==
  /\ kind = "interrupt" /\ me[t].pc = "register"
  /\ shared' = [shared EXCEPT !.mCond = TRUE]
  /\ Becomes(t, [pc |-> "registered"])

(* The loop reads the flag, then the predicate, and waits for a millisecond *)
(* at most.                                                                *)
TestFlag(t) ==
  /\ kind = "interrupt" /\ me[t].pc \in {"test", "woken"}
  /\ Becomes(t, [pc |-> IF shared.mFlag THEN "last" ELSE "pred"])
  /\ UNCHANGED shared

WaitFor(t) ==
  /\ kind = "interrupt" /\ me[t].pc = "pred"
  /\ Becomes(t, [pc |-> IF shared.hasPred /\ shared.pred THEN "last" ELSE "asleep"])
  /\ UNCHANGED shared

(* Mutant: wait in place of wait_for.                                      *)
NoTimeout(t) == FALSE /\ UNCHANGED <<shared, me>>

Timeout(t) ==
  /\ kind = "interrupt" /\ me[t].pc = "asleep"
  /\ Becomes(t, [pc |-> "woken"])
  /\ UNCHANGED shared

WaitAgain(t) ==
  /\ kind = "interrupt" /\ me[t].pc = "returned"
  /\ Becomes(t, [pc |-> "point"])
  /\ UNCHANGED shared

(* interrupt(), of a thread that has started and not ended; set() stores    *)
(* the flag, then notifies.                                                *)
Interrupt(t) ==
  /\ kind = "interrupt" /\ me[t].pc = "out"
  /\ shared.mInterruptFlag /\ me[Worker].pc # "ended"
  /\ shared' = [shared EXCEPT !.mFlag = TRUE]
  /\ Becomes(t, [pc |-> "notify"])

Notify(t) ==
  /\ kind = "interrupt" /\ me[t].pc = "notify"
  /\ IF shared.mCond THEN notify_all(t, [pc |-> "out"]) ELSE Becomes(t, [pc |-> "out"])
  /\ UNCHANGED shared

Satisfy(t) ==
  /\ kind = "interrupt" /\ t = Notifier /\ me[t].pc = "out"
  /\ shared' = [shared EXCEPT !.pred = TRUE]
  /\ notify_all(t, [pc |-> "out"])

-----------------------------------------------------------------------------
(* Double-checked initialization.  synchronized says of a thread that the    *)
(* making of gData happened before what it does, and of gLock that the last  *)
(* unlock passes that on.                                                  *)
InitializationInit ==
  /\ kind = "initialization"
  /\ shared = [gInitFlag |-> FALSE, made |-> 0, holder |-> {}, synchronized |-> FALSE]
  /\ Everyone([pc |-> "out", synchronized |-> FALSE])

(* Mutant: memory_order_relaxed.                                           *)
FirstCheckRelaxed(t) ==
  /\ kind = "initialization" /\ me[t].pc = "out"
  /\ Becomes(t, [pc |-> IF shared.gInitFlag THEN "process" ELSE "lock"])
  /\ UNCHANGED shared

(* gInitFlag.load(std::memory_order_acquire)                               *)
FirstCheck(t) ==
  /\ kind = "initialization" /\ me[t].pc = "out"
  /\ Becomes(t, IF shared.gInitFlag THEN [pc |-> "process", synchronized |-> TRUE]
                ELSE [pc |-> "lock"])
  /\ UNCHANGED shared

LockGuard(t) ==
  /\ kind = "initialization" /\ me[t].pc = "lock" /\ shared.holder = {}
  /\ shared' = [shared EXCEPT !.holder = {t}]
  /\ Becomes(t, [pc |-> "check",
                 synchronized |-> me[t].synchronized \/ shared.synchronized])

SecondCheck(t) ==
  /\ kind = "initialization" /\ me[t].pc = "check"
  /\ Becomes(t, [pc |-> IF shared.gInitFlag THEN "unlock" ELSE "make"])
  /\ UNCHANGED shared

Make(t) ==
  /\ kind = "initialization" /\ me[t].pc = "make"
  /\ shared' = [shared EXCEPT !.made = @ + 1]
  /\ Becomes(t, [pc |-> "publish", synchronized |-> TRUE])

Publish(t) ==
  /\ kind = "initialization" /\ me[t].pc = "publish"
  /\ shared' = [shared EXCEPT !.gInitFlag = TRUE]
  /\ Becomes(t, [pc |-> "unlock"])

Unlock(t) ==
  /\ kind = "initialization" /\ me[t].pc = "unlock"
  /\ shared' = [shared EXCEPT !.holder = {}, !.synchronized = me[t].synchronized]
  /\ Becomes(t, [pc |-> "process"])

Process(t) ==
  /\ kind = "initialization" /\ me[t].pc = "process"
  /\ Becomes(t, [pc |-> "out"])
  /\ UNCHANGED shared

-----------------------------------------------------------------------------
Init == BarrierInit \/ LatchInit \/ FutureInit \/ InterruptInit \/ InitializationInit

(* Calls, and what happens without cause, need not happen.                 *)
Call(t) ==
  \/ BarrierWait(t) \/ LatchWait(t) \/ SetData(t) \/ FutureCall(t) \/ SpuriousWakeup(t)
  \/ Interrupt(t) \/ Satisfy(t) \/ FirstCheck(t)

Step(t) ==
  \/ Wake(t)
  \/ Start(t) \/ InterruptionPoint(t) \/ SetConditionVariable(t) \/ TestFlag(t)
  \/ WaitFor(t) \/ Timeout(t) \/ WaitAgain(t) \/ Notify(t)
  \/ LockGuard(t) \/ SecondCheck(t) \/ Make(t) \/ Publish(t) \/ Unlock(t) \/ Process(t)

-----------------------------------------------------------------------------
(* PROPERTIES                                                              *)

(* mCount is the number of the threads that have not arrived in this         *)
(* generation of the barrier, some of which may still be asleep in the last  *)
(* one: whoever finds 1 is the last.  Nobody passes the latch before all     *)
(* have arrived, and no worker returns before its predicate holds.         *)
Waiting(t) == me[t].pc \in {"asleep", "woken"}
CanSleep == kind \in {"barrier", "latch", "future"}

NobodyEarly ==
  /\ kind = "barrier" =>
       /\ shared.mCount = Cardinality({t \in Threads : Waiting(t) => Predicate(t)})
       /\ shared.mCount > 0
  /\ kind = "latch" =>
       \A t \in Threads : me[t].pc = "passed" => \A u \in Threads : me[u].pc # "out"
  /\ kind = "interrupt" =>
       (me[Worker].pc = "returned" => shared.hasPred /\ shared.pred)

(* What a thread waits for has not happened while it sleeps without a       *)
(* notification on its way.                                                *)
NoSleeperForgotten ==
  CanSleep => \A t \in Threads : me[t].pc = "asleep" => ~Predicate(t)

(* The data is made once, and before what any thread does with it.         *)
InitializedOnce ==
  kind = "initialization" =>
    /\ shared.made <= 1
    /\ \A t \in Threads : me[t].pc = "process" => shared.made = 1 /\ me[t].synchronized

(* Who may go on and has not: a thread whose wait is over, an interrupted    *)
(* one that has not ended, one that is on its way to the data.  That must    *)
(* not last.                                                               *)
HeldUp(t) ==
  \/ CanSleep /\ Waiting(t) /\ Predicate(t)
  \/ kind = "interrupt" /\ t = Worker /\ shared.mFlag /\ me[t].pc # "ended"
  \/ kind = "initialization" /\ me[t].pc # "out"
=============================================================================
