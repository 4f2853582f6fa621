--------------------------- MODULE ArrayQueueLock ---------------------------
(***************************************************************************)
(* ArrayQueueLock: a thread draws a slot of a ring of flags from mTail and *)
(* spins on its flag, which the holder of the slot before sets when it     *)
(* unlocks.  The own flag is reset by a relaxed store, and a TODO in the   *)
(* code asks whether that is enough; so this is a model of the memory of   *)
(* C++ with views: a location is the list of the values stored to it, a    *)
(* thread's view says which store to each location it must at least see, a *)
(* load may return any store from there on, a release store carries the    *)
(* view of its thread, and an acquire load takes over what it carries.     *)
(***************************************************************************)
EXTENDS Naturals, Sequences, FiniteSets

CONSTANTS Threads,
          Capacity,   \* sCapacity, the number of slots
          MaxTickets  \* bound: how many slots are drawn

(* The TODO is about fewer threads than slots; as many do no harm.         *)
EnoughSlots ==
  IsFiniteSet(Threads) /\ Capacity \in Nat /\ Cardinality(Threads) <= Capacity

Slots == 0 .. Capacity - 1

(* What the lock protects is one more location, not an atomic one.         *)
Data == Capacity
Views == [Slots \cup {Data} -> Nat]
Join(v, w) == [l \in DOMAIN v |-> IF v[l] > w[l] THEN v[l] ELSE w[l]]

VARIABLES
  mTail,     \* the next ticket
  tailView,  \* what the last fetch_add of mTail carries
  mFlag,     \* mFlag[s]: the stores to the flag of slot s, each with its view
  written,   \* how often the protected data have been written
  view,      \* view[t]: the view of thread t
  sIndex,    \* sIndex[t]: thread_local
  pc,        \* pc[t]: "out", "spin", "in", "reset", "grant"
  queue      \* history: the threads in the order of their tickets

vars == <<mTail, tailView, mFlag, written, view, sIndex, pc, queue>>

TypeOK ==
  /\ mTail \in Nat /\ written \in Nat
  /\ tailView \in Views
  /\ mFlag \in [Slots -> Seq([flag : BOOLEAN, view : Views])]
  /\ view \in [Threads -> Views]
  /\ sIndex \in [Threads -> Slots]
  /\ pc \in [Threads -> {"out", "spin", "in", "reset", "grant"}]
  /\ queue \in Seq(Threads)

(* A view that knows the first store to each flag and nothing of the data. *)
First == [l \in Slots \cup {Data} |-> IF l = Data THEN 0 ELSE 1]

(* The lock is constructed before the threads use it.                      *)
Init ==
  /\ mTail = 0 /\ tailView = First
  /\ mFlag = [s \in Slots |-> <<[flag |-> s = 0, view |-> First]>>]
  /\ written = 0
  /\ view = [t \in Threads |-> First]
  /\ sIndex = [t \in Threads |-> 0]
  /\ pc = [t \in Threads |-> "out"]
  /\ queue = <<>>

Goto(t, label) == pc' = [pc EXCEPT ![t] = label]

(* A store to the flag of slot s, which is the latest in its location.     *)
Store(t, s, b, order) ==
  LET time == Len(mFlag[s]) + 1
      seen == [view[t] EXCEPT ![s] = time]
      sent == IF order = "release" THEN seen ELSE [First EXCEPT ![s] = time]
  IN  /\ mFlag' = [mFlag EXCEPT ![s] = Append(@, [flag |-> b, view |-> sent])]
      /\ view' = [view EXCEPT ![t] = seen]

-----------------------------------------------------------------------------
(* Mutant: fetch_add is relaxed.                                           *)
LockRelaxed(t) ==
  /\ pc[t] = "out" /\ mTail < MaxTickets
  /\ sIndex' = [sIndex EXCEPT ![t] = mTail % Capacity]
  /\ mTail' = mTail + 1
  /\ queue' = Append(queue, t)
  /\ Goto(t, "spin")
  /\ UNCHANGED <<tailView, view, mFlag, written>>

(* sIndex = mTail.fetch_add(1, acq_rel) % sCapacity.  The counter wraps at  *)
(* 2^32, a multiple of sCapacity, so that only the remainder matters.      *)
Lock(t) ==
  /\ pc[t] = "out" /\ mTail < MaxTickets
  /\ sIndex' = [sIndex EXCEPT ![t] = mTail % Capacity]
  /\ mTail' = mTail + 1
  /\ tailView' = Join(view[t], tailView)
  /\ view' = [view EXCEPT ![t] = tailView']
  /\ queue' = Append(queue, t)
  /\ Goto(t, "spin")
  /\ UNCHANGED <<mFlag, written>>

(* An acquire load of the flag returns true.  (That earlier ones returned   *)
(* false only takes choices away.)                                         *)
Acquire(t) ==
  /\ pc[t] = "spin"
  /\ \E time \in view[t][sIndex[t]] .. Len(mFlag[sIndex[t]]) :
       LET m == mFlag[sIndex[t]][time]
       IN  /\ m.flag
           /\ view' = [view EXCEPT ![t] = Join([@ EXCEPT ![sIndex[t]] = time], m.view)]
  /\ Goto(t, "in")
  /\ UNCHANGED <<mTail, tailView, mFlag, written, sIndex, queue>>

(* External: the caller writes the data, once in its critical section.     *)
Write(t) ==
  /\ pc[t] = "in"
  /\ written' = written + 1
  /\ view' = [view EXCEPT ![t][Data] = written']
  /\ Goto(t, "reset")
  /\ UNCHANGED <<mTail, tailView, mFlag, sIndex, queue>>

(* unlock resets the own flag                                              *)
Unlock(t) ==
  /\ pc[t] = "reset"
  /\ Store(t, sIndex[t], FALSE, "relaxed")
  /\ Goto(t, "grant")
  /\ UNCHANGED <<mTail, tailView, written, sIndex, queue>>

(* Mutant: the next flag is set by a relaxed store.                        *)
GrantRelaxed(t) ==
  /\ pc[t] = "grant"
  /\ Store(t, (sIndex[t] + 1) % Capacity, TRUE, "relaxed")
  /\ queue' = Tail(queue)
  /\ Goto(t, "out")
  /\ UNCHANGED <<mTail, tailView, written, sIndex>>

(* and sets the flag of the next slot.                                     *)
Grant(t) ==
  /\ pc[t] = "grant"
  /\ Store(t, (sIndex[t] + 1) % Capacity, TRUE, "release")
  /\ queue' = Tail(queue)
  /\ Goto(t, "out")
  /\ UNCHANGED <<mTail, tailView, written, sIndex>>

Step(t) == Acquire(t) \/ Write(t) \/ Unlock(t) \/ Grant(t)

Next == \E t \in Threads : Lock(t) \/ Step(t)

Spec == Init /\ [][Next]_vars

-----------------------------------------------------------------------------
(* PROPERTIES                                                              *)

Inside == {t \in Threads : pc[t] \in {"in", "reset", "grant"}}

(* One thread at a time, in the order of the tickets: no thread can take a   *)
(* flag for set that was set a round ago and reset by the relaxed store.   *)
Fifo == INSTANCE FifoLock WITH inside <- Inside
ImplementsFifoLock == Fifo!Spec

(* There is no data race on what the lock protects: the holder sees what     *)
(* earlier holders have written.  Nor do two stores to a flag race: the     *)
(* thread that stores has seen the latest one.                             *)
NoRace ==
  \A t \in Inside :
    LET s == IF pc[t] = "grant" THEN (sIndex[t] + 1) % Capacity ELSE sIndex[t]
    IN  view[t][Data] = written /\ view[t][s] = Len(mFlag[s])
=============================================================================
