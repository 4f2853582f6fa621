----------------------------- MODULE TicketLock -----------------------------
(***************************************************************************)
(* TicketLock: two 32-bit counters in one 64-bit word.  lock takes the     *)
(* number next with a fetch_add on the upper half and waits until owner,   *)
(* the lower half, shows that number; unlock adds 1 to the whole word, so  *)
(* that when owner overflows the carry goes into next.  Limit stands for   *)
(* 2^32.                                                                   *)
(***************************************************************************)
EXTENDS Naturals, Sequences

CONSTANTS Threads,
          Limit,       \* the number of values of a 32-bit counter
          MaxTickets   \* bound: how many times the lock is taken, at most

LimitAssumption == Limit \in Nat \ {0} /\ MaxTickets \in Nat

VARIABLES
  owner, next,  \* the two halves of mData
  pc,           \* pc[t]: "out", "wait" in the loop of lock, "in"
  ticket,       \* ticket[t]: the local next of lock
  taken,        \* how many tickets were taken, for the bound
  queue         \* history: the threads in the order of their fetch_add

vars == <<owner, next, pc, ticket, taken, queue>>

TypeOK ==
  /\ owner \in 0 .. Limit - 1
  /\ next \in 0 .. Limit - 1
  /\ pc \in [Threads -> {"out", "wait", "in"}]
  /\ ticket \in [Threads -> 0 .. Limit - 1]
  /\ taken \in 0 .. MaxTickets
  /\ queue \in Seq(Threads)

Init ==
  /\ owner = 0
  /\ next = 0
  /\ pc = [t \in Threads |-> "out"]
  /\ ticket = [t \in Threads |-> 0]
  /\ taken = 0
  /\ queue = <<>>

Succ(n) == IF n = Limit - 1 THEN 0 ELSE n + 1

(* mData.fetch_add(sNextIncr): a carry out of next leaves the word.        *)
Lock(t) ==
  /\ pc[t] = "out"
  /\ taken < MaxTickets
  /\ taken' = taken + 1
  /\ ticket' = [ticket EXCEPT ![t] = next]
  /\ next' = Succ(next)
  /\ pc' = [pc EXCEPT ![t] = IF owner = next THEN "in" ELSE "wait"]
  /\ queue' = Append(queue, t)
  /\ UNCHANGED owner

(* The loop of lock sees its number.                                       *)
Acquire(t) ==
  /\ pc[t] = "wait"
  /\ owner = ticket[t]
  /\ pc' = [pc EXCEPT ![t] = "in"]
  /\ UNCHANGED <<owner, next, ticket, taken, queue>>

(* mData.fetch_add(sOwnerIncr): a carry out of owner goes into next.       *)
Unlock(t) ==
  /\ pc[t] = "in"
  /\ owner' = Succ(owner)
  /\ next' = IF owner' = 0 THEN Succ(next) ELSE next
  /\ pc' = [pc EXCEPT ![t] = "out"]
  /\ queue' = Tail(queue)
  /\ UNCHANGED <<ticket, taken>>

Step(t) == Acquire(t) \/ Unlock(t)

Next == \E t \in Threads : Lock(t) \/ Step(t)

Spec == Init /\ [][Next]_vars

-----------------------------------------------------------------------------
(* PROPERTIES                                                              *)

Inside == {t \in Threads : pc[t] = "in"}

(* One thread at a time, in the order in which they drew their tickets.     *)
Fifo == INSTANCE FifoLock WITH inside <- Inside
ImplementsFifoLock == Fifo!Spec

(* As long as owner has not overflowed, the tickets in the queue are the     *)
(* numbers from owner to next - 1, in order.                               *)
TicketInv ==
  /\ next = owner + Len(queue)
  /\ \A i \in 1 .. Len(queue) : ticket[queue[i]] = owner + i - 1

=============================================================================
