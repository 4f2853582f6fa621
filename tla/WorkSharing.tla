----------------------------- MODULE WorkSharing ----------------------------
(***************************************************************************)
(* What shares work among threads: a work-stealing deque, a thread pool on *)
(* such deques with its users, or one of the parallel algorithms; job says *)
(* which of them runs.                                                     *)
(***************************************************************************)
EXTENDS LockFreeLocalWorkQueue

CONSTANTS Main, NumThread, Values, MaxSubmitted,      \* ThreadPool
          MinPerThreads, MaxMore, MaxLength, Hardware, Null  \* ParallelAlgorithm

VARIABLES
  job,
  client, tasks, mGlobalWorkQueue, mLocalTasks, mDone, stack, answer,  \* ThreadPool
  algorithm, minPerThread, data, done, calls                     \* ParallelAlgorithm

Pool == INSTANCE ThreadPool
Algorithm == INSTANCE ParallelAlgorithm WITH None <- Null

poolVars == <<client, tasks, mGlobalWorkQueue, mLocalTasks, mDone, stack, answer>>
algorithmVars == <<algorithm, minPerThread, data, done, calls>>
sharingVars == <<job, vars, poolVars, algorithmVars>>

ASSUME SharingAssumption == Pool!PoolAssumption /\ Algorithm!LengthAssumption

NoPool ==
  /\ client = Null /\ tasks = Null /\ mGlobalWorkQueue = Null /\ mLocalTasks = Null
  /\ mDone = Null /\ stack = Null /\ answer = Null

NoAlgorithm ==
  algorithm = Null /\ minPerThread = Null /\ data = Null /\ done = Null /\ calls = Null

SharingInit ==
  /\ Init
  /\ \/ job = "deque" /\ NoPool /\ NoAlgorithm
     \/ job = "pool" /\ Pool!Init /\ NoAlgorithm
     \/ job = "algorithm" /\ NoPool /\ Algorithm!Init

DequeNext == job = "deque" /\ Next /\ UNCHANGED <<job, poolVars, algorithmVars>>

PoolNext(t) ==
  /\ job = "pool"
  /\ Pool!Step(t) \/ (t = Main /\ Pool!OwnerStep)
  /\ UNCHANGED <<job, vars, algorithmVars>>

AlgorithmNext ==
  /\ job = "algorithm"
  /\ \E c \in DOMAIN calls : Algorithm!Step(c)
  /\ UNCHANGED <<job, vars, poolVars>>

Ended ==
  CASE job = "deque" -> FALSE
    [] job = "pool" -> Pool!Ended
    [] OTHER -> Algorithm!Returned

Lost == job = "algorithm" /\ Algorithm!Lost

(* What has ended stays as it is.                                          *)
Stay == (Ended \/ Lost) /\ UNCHANGED sharingVars

SharingNext ==
  DequeNext \/ (\E t \in Pool!Threads : PoolNext(t)) \/ AlgorithmNext \/ Stay

(* The threads of the pool and of the algorithms keep running.             *)
SharingSpec ==
  /\ SharingInit /\ [][SharingNext]_sharingVars
  /\ \A t \in Pool!Threads : WF_sharingVars(PoolNext(t))
  /\ WF_sharingVars(AlgorithmNext)

-----------------------------------------------------------------------------
(* PROPERTIES.  Those of the deque itself are checked as they are.         *)

(* The pool: every task is run once, and nothing is leaked.                *)
RunOnce == job = "pool" => Pool!TypeOK /\ Pool!RunOnce

(* The quick sort: the lists a task refers to outlive it, and it sorts.    *)
SubmitterWaits == job = "pool" => Pool!SubmitterWaits

(* The parallel algorithms: what the caller gets is right, whoever throws,   *)
(* and no thread is left running.  partial_sum may use what it has            *)
(* destroyed, but only in the cases that SumRight names.                     *)
ResultRight ==
  job = "algorithm" =>
    IF algorithm = "partial_sum" THEN Algorithm!SumRight
    ELSE Algorithm!Returned => Algorithm!DivideRight(calls[Algorithm!Root].result)

(* Calls of sort that wait for each other's tasks, and blocks that wait for  *)
(* the one before, all come to an end, and so does the pool.                *)
EveryJobEnds == job # "deque" ~> (Ended \/ Lost)
=============================================================================
