------------------------- MODULE ParallelAlgorithm -------------------------
(***************************************************************************)
(* parallel_for_each, parallel_find and parallel_partial_sum.  The first   *)
(* two halve the range: the upper half goes to std::async, which starts a  *)
(* thread or defers the call until get, the lower half is done by the      *)
(* caller.  The third gives each thread a block; a chain of promises hands *)
(* the last sum of a block to the next one.  What is called on an element  *)
(* may throw, and so may the additions of partial_sum.                     *)
(***************************************************************************)
EXTENDS FiniteSetsExt, Integers, SequencesExt

CONSTANTS MinPerThreads,  \* the values minPerThread is taken to have
          MaxMore,        \* bound: by how much a range is longer than twice that
          MaxLength,      \* bound: how long a range of partial_sum is
          Hardware,       \* what hardware_concurrency may return
          None

LengthAssumption ==
  /\ MinPerThreads \subseteq Nat \ {0} /\ Hardware \subseteq Nat
  /\ MaxMore \in Nat /\ MaxLength \in Nat

Lengths(least) == 0 .. 2 * least + MaxMore

VARIABLES
  algorithm,     \* which of the three is called
  minPerThread,
  data,      \* the elements: what find sees there, which ones throw, the sums
  done,      \* find: the flag all calls share
  calls      \* the calls, named by their ranges, or the threads of partial_sum

vars == <<algorithm, minPerThread, data, done, calls>>

Exception == -1
Value == 1   \* find: what it looks for; the others are 0
Ready(c) == calls[c].pc = "done"
Becomes(c, r) == calls' = [calls EXCEPT ![c] = r]
Call(pc) == [pc |-> pc, at |-> 0, result |-> 0]

-----------------------------------------------------------------------------
(* for_each and find: the range [first, last).                             *)
Root == <<0, Len(data)>>
Dist(c) == c[2] - c[1]
Mid(c) == c[1] + Dist(c) \div 2
Lower(c) == <<c[1], Mid(c)>>
Upper(c) == <<Mid(c), c[2]>>

DivideInit ==
  /\ algorithm \in {"for_each", "find"}
  /\ minPerThread \in MinPerThreads
  /\ \E l \in Lengths(minPerThread) :
       /\ data \in [1 .. l ->
            {0, Exception} \cup (IF algorithm = "find" THEN {Value} ELSE {})]
       /\ calls = [c \in {<<f, t>> \in (0 .. l) \X (0 .. l) : f <= t} |->
            Call(IF c = <<0, l>> THEN "enter" ELSE "none")]
  /\ done = FALSE

(* std::async starts a thread or defers.                                   *)
Enter(c) ==
  /\ calls[c].pc = "enter"
  /\ IF Dist(c) < 2 * minPerThread
       THEN Becomes(c, [calls[c] EXCEPT !.pc = "loop", !.at = c[1]])
       ELSE \E policy \in {"enter", "deferred"} :
              calls' = [calls EXCEPT ![c].pc = "lower", ![Lower(c)] = Call("enter"),
                                     ![Upper(c)] = Call(policy)]
  /\ UNCHANGED <<algorithm, minPerThread, data, done>>

Finish(c, result) == Becomes(c, [calls[c] EXCEPT !.pc = "done", !.result = result])

(* std::for_each; the element counts its calls.                            *)
ForEach(c) ==
  /\ algorithm = "for_each" /\ calls[c].pc = "loop"
  /\ LET at == calls[c].at
     IN  IF at = c[2] THEN Finish(c, c[2]) /\ UNCHANGED data
         ELSE IF data[at + 1] = Exception THEN Finish(c, Exception) /\ UNCHANGED data
         ELSE /\ data' = [data EXCEPT ![at + 1] = @ + 1]
              /\ Becomes(c, [calls[c] EXCEPT !.at = at + 1])
  /\ UNCHANGED <<algorithm, minPerThread, done>>

(* The loop of find: the flag is loaded before each comparison.            *)
LoadDone(c) ==
  /\ algorithm = "find" /\ calls[c].pc = "loop"
  /\ IF calls[c].at = c[2] \/ done THEN Finish(c, c[2])
                                   ELSE Becomes(c, [calls[c] EXCEPT !.pc = "compare"])
  /\ UNCHANGED <<algorithm, minPerThread, data, done>>

Compare(c) ==
  /\ calls[c].pc = "compare"
  /\ CASE data[calls[c].at + 1] = Value ->
            Becomes(c, [calls[c] EXCEPT !.pc = "exchange"]) /\ UNCHANGED done
       [] data[calls[c].at + 1] = 0 ->
            Becomes(c, [calls[c] EXCEPT !.pc = "loop", !.at = @ + 1]) /\ UNCHANGED done
       [] OTHER -> Finish(c, Exception) /\ done' = TRUE
  /\ UNCHANGED <<algorithm, minPerThread, data>>

(* Mutant: who loses the exchange tries again, as if it were a spin lock.   *)
ExchangeAgain(c) ==
  /\ calls[c].pc = "exchange"
  /\ IF done THEN UNCHANGED calls ELSE Finish(c, calls[c].at)
  /\ done' = TRUE
  /\ UNCHANGED <<algorithm, minPerThread, data>>

(* done.exchange(true): only one thread returns the element it has found.  *)
Exchange(c) ==
  /\ calls[c].pc = "exchange"
  /\ IF done THEN Becomes(c, [calls[c] EXCEPT !.pc = "loop", !.at = @ + 1])
             ELSE Finish(c, calls[c].at)
  /\ done' = TRUE
  /\ UNCHANGED <<algorithm, minPerThread, data>>

(* Mutant: the iterator is compared with last.                             *)
LowerDoneLast(c) ==
  /\ calls[c].pc = "lower" /\ Ready(Lower(c))
  /\ LET it == calls[Lower(c)].result
     IN  Becomes(c, [calls[c] EXCEPT !.pc = IF it = c[2] THEN "get" ELSE "destroy",
                                     !.result = it])
  /\ UNCHANGED <<algorithm, minPerThread, data, done>>

(* The lower half is done.  If it has found the element or has thrown, the   *)
(* result of the upper half is not asked for.                              *)
LowerDone(c) ==
  /\ calls[c].pc = "lower" /\ Ready(Lower(c))
  /\ LET it == calls[Lower(c)].result
     IN  Becomes(c, [calls[c] EXCEPT !.pc = IF it = Mid(c) THEN "get" ELSE "destroy",
                                     !.result = it])
  /\ UNCHANGED <<algorithm, minPerThread, data, done>>

(* fut.get(): a deferred call is made now.                                 *)
Get(c) ==
  /\ calls[c].pc = "get"
  /\ \/ /\ calls[Upper(c)].pc = "deferred"
        /\ calls' = [calls EXCEPT ![Upper(c)] = Call("enter")]
     \/ Ready(Upper(c)) /\ Finish(c, calls[Upper(c)].result)
  /\ UNCHANGED <<algorithm, minPerThread, data, done>>

(* Mutant: the thread is detached.                                         *)
DestroyDetached(c) ==
  /\ calls[c].pc = "destroy"
  /\ Finish(c, calls[c].result)
  /\ UNCHANGED <<algorithm, minPerThread, data, done>>

(* The future's destructor waits for the thread; a deferred call is never   *)
(* made.  An exception sets the flag, which it has set further down.       *)
Destroy(c) ==
  /\ calls[c].pc = "destroy"
  /\ Ready(Upper(c)) \/ calls[Upper(c)].pc = "deferred"
  /\ Finish(c, calls[c].result)
  /\ done' = (done \/ (algorithm = "find" /\ calls[c].result = Exception))
  /\ UNCHANGED <<algorithm, minPerThread, data>>

-----------------------------------------------------------------------------
(* partial_sum.                                                            *)
NumThreads(dist, least, hardware) ==
  LET wanted == (dist + least - 1) \div least
      limit  == IF hardware = 0 THEN 2 ELSE hardware
  IN  IF wanted < limit THEN wanted ELSE limit

(* The i-th of n blocks of the range; the last one takes the rest.         *)
Block(i, dist, n) ==
  ((i - 1) * (dist \div n) + 1) .. (IF i < n THEN i * (dist \div n) ELSE dist)

(* The addition that throws: one of the own sums, the one to the last sum    *)
(* of the block, or one of the rest; a short block has not all of them.      *)
Throwing(i, block) ==
  {"never"} \cup (IF Cardinality(block) > 1 THEN {"sum"} ELSE {})
            \cup (IF i > 1 THEN {"last"} ELSE {})
            \cup (IF i > 1 /\ Cardinality(block) > 1 THEN {"rest"} ELSE {})

SumInit ==
  /\ algorithm = "partial_sum" /\ done = FALSE
  /\ minPerThread \in MinPerThreads
  /\ \E l \in 1 .. MaxLength, hardware \in Hardware :
       LET n == NumThreads(l, minPerThread, hardware)
       IN  /\ data = [k \in 1 .. l |-> 2 ^ k]
           /\ \E throws \in [1 .. n -> {"never", "sum", "last", "rest"}] :
                /\ \A i \in 1 .. n : throws[i] \in Throwing(i, Block(i, l, n))
                /\ calls = [i \in 1 .. n |->
                     [pc |-> "sum", promise |-> None, throws |-> throws[i]]]

(* The caller's block is the last one.  It has no promise: its result takes   *)
(* the place of one.  When the caller leaves, by an exception or not, the     *)
(* promises, the futures and the threads are destroyed, in this order.       *)
NumBlocks == Cardinality(DOMAIN calls)
Mine(i) == Block(i, Len(data), NumBlocks)
LastOf(i) == Max(Mine(i))
Prev(i) == calls[i - 1].promise
PromisesGone == calls[NumBlocks].pc \in {"futures", "threads", "done"}
FuturesGone == calls[NumBlocks].pc \in {"threads", "done"}
Leave(i) == IF i = NumBlocks THEN "promises" ELSE "done"
UseDestroyed(i) == Becomes(i, [calls[i] EXCEPT !.pc = "undefined"])

(* next->set_exception, or throw in the caller's block.  A promise that has  *)
(* its value already throws, out of the thread's function.                   *)
Throw(i) ==
  CASE i < NumBlocks /\ PromisesGone -> UseDestroyed(i)
    [] i < NumBlocks /\ ~PromisesGone /\ calls[i].promise # None ->
         Becomes(i, [calls[i] EXCEPT !.pc = "terminate"])
    [] OTHER -> Becomes(i, [calls[i] EXCEPT !.pc = Leave(i), !.promise = Exception])

(* The sums within the block, which nobody else reads or writes.           *)
SumBlock(i) ==
  /\ calls[i].pc = "sum"
  /\ IF calls[i].throws = "sum" THEN Throw(i) /\ UNCHANGED data
     ELSE /\ data' = [k \in DOMAIN data |->
               IF k \in Mine(i)
                 THEN MapThenSumSet(LAMBDA j : data[j], {j \in Mine(i) : j <= k})
                 ELSE data[k]]
          /\ Becomes(i, [calls[i] EXCEPT !.pc = IF i = 1 THEN "set" ELSE "prev"])
  /\ UNCHANGED <<algorithm, minPerThread, done>>

(* prev->get(), which throws what the block before has thrown.             *)
GetPrev(i) ==
  /\ calls[i].pc = "prev" /\ Prev(i) # None
  /\ CASE FuturesGone -> UseDestroyed(i) /\ UNCHANGED data
       [] ~FuturesGone /\ (Prev(i) = Exception \/ calls[i].throws = "last") ->
            Throw(i) /\ UNCHANGED data
       [] OTHER -> /\ data' = [data EXCEPT ![LastOf(i)] = @ + Prev(i)]
                   /\ Becomes(i, [calls[i] EXCEPT !.pc = "set"])
  /\ UNCHANGED <<algorithm, minPerThread, done>>

(* next->set_value, before the rest of the block is done.                  *)
SetNext(i) ==
  /\ calls[i].pc = "set"
  /\ IF i < NumBlocks /\ PromisesGone THEN UseDestroyed(i)
     ELSE Becomes(i, [calls[i] EXCEPT !.pc = IF i = 1 THEN Leave(i) ELSE "rest",
                        !.promise = IF i < NumBlocks THEN data[LastOf(i)] ELSE @])
  /\ UNCHANGED <<algorithm, minPerThread, data, done>>

(* Mutant: up to and with the last element, which has its sum already.     *)
AddPrevLast(i) ==
  /\ calls[i].pc = "rest"
  /\ IF calls[i].throws = "rest" THEN Throw(i) /\ UNCHANGED data
     ELSE /\ data' = [k \in DOMAIN data |->
               IF k \in Mine(i) THEN data[k] + Prev(i) ELSE data[k]]
          /\ Becomes(i, [calls[i] EXCEPT !.pc = Leave(i)])
  /\ UNCHANGED <<algorithm, minPerThread, done>>

(* The value from prev, which is a copy, is added to the rest.             *)
AddPrev(i) ==
  /\ calls[i].pc = "rest"
  /\ IF calls[i].throws = "rest" THEN Throw(i) /\ UNCHANGED data
     ELSE /\ data' = [k \in DOMAIN data |->
               IF k \in Mine(i) \ {LastOf(i)} THEN data[k] + Prev(i) ELSE data[k]]
          /\ Becomes(i, [calls[i] EXCEPT !.pc = Leave(i)])
  /\ UNCHANGED <<algorithm, minPerThread, done>>

(* A promise without a value leaves broken_promise to its future.          *)
DestroyPromises(i) ==
  /\ calls[i].pc = "promises"
  /\ calls' = [j \in DOMAIN calls |->
       IF j = i THEN [calls[i] EXCEPT !.pc = "futures"]
       ELSE IF calls[j].promise = None THEN [calls[j] EXCEPT !.promise = Exception]
       ELSE calls[j]]
  /\ UNCHANGED <<algorithm, minPerThread, data, done>>

DestroyFutures(i) ==
  /\ calls[i].pc = "futures"
  /\ Becomes(i, [calls[i] EXCEPT !.pc = "threads"])
  /\ UNCHANGED <<algorithm, minPerThread, data, done>>

(* jthread joins.                                                          *)
DestroyThreads(i) ==
  /\ calls[i].pc = "threads"
  /\ \A j \in DOMAIN calls \ {i} : Ready(j)
  /\ Becomes(i, [calls[i] EXCEPT !.pc = "done"])
  /\ UNCHANGED <<algorithm, minPerThread, data, done>>

-----------------------------------------------------------------------------
Init == DivideInit \/ SumInit

Step(c) ==
  IF algorithm = "partial_sum"
    THEN \/ SumBlock(c) \/ GetPrev(c) \/ SetNext(c) \/ AddPrev(c)
         \/ DestroyPromises(c) \/ DestroyFutures(c) \/ DestroyThreads(c)
    ELSE \/ Enter(c) \/ ForEach(c) \/ LoadDone(c) \/ Compare(c) \/ Exchange(c)
         \/ LowerDone(c) \/ Get(c) \/ Destroy(c)

-----------------------------------------------------------------------------
(* PROPERTIES                                                              *)

(* The caller is back.                                                     *)
Returned == Ready(IF algorithm = "partial_sum" THEN NumBlocks ELSE Root)

(* Nothing is known of the program any more: partial_sum has used a promise   *)
(* or a future that was destroyed, or std::terminate was called.             *)
Lost == /\ algorithm = "partial_sum"
        /\ \E i \in DOMAIN calls : calls[i].pc \in {"undefined", "terminate"}

(* for_each calls the function on every element once; find returns an       *)
(* element with the value, and none only if there is none.  Whoever throws,  *)
(* the caller learns of it, unless find had found the value before; and     *)
(* no other thread runs any more.                                          *)
DivideRight(result) ==
  /\ result = Exception => \E k \in DOMAIN data : data[k] = Exception
  /\ algorithm = "for_each" /\ result # Exception => \A k \in DOMAIN data : data[k] = 1
  /\ algorithm = "find" /\ result # Exception =>
       IF result = Len(data) THEN \A k \in DOMAIN data : data[k] = 0
                             ELSE data[result + 1] = Value
  /\ \A c \in DOMAIN calls : calls[c].pc \in {"none", "deferred", "done"}

(* The program is lost only if one of two things happens.  A block other     *)
(* than the first one throws while it sums up its own elements: the           *)
(* exception may reach the caller, or be its own, and the caller destroy the  *)
(* promises and futures before earlier blocks have used them.  Or a thread    *)
(* throws when it has handed its sum on.  Otherwise the chain is sound: the   *)
(* caller comes back when all threads have ended, with an exception if an     *)
(* addition has thrown, and with the right sums if not.                      *)
SumRight ==
  /\ Lost => \E i \in 2 .. NumBlocks :
               calls[i].throws = "sum" \/ (i < NumBlocks /\ calls[i].throws = "rest")
  /\ Returned /\ ~Lost =>
       /\ \A i \in DOMAIN calls : Ready(i)
       /\ IF \E i \in DOMAIN calls : calls[i].throws # "never"
            THEN calls[NumBlocks].promise = Exception
            ELSE \A k \in DOMAIN data : data[k] = 2 ^ (k + 1) - 2
=============================================================================
