----------------------------- MODULE LocksProofs -----------------------------
(***************************************************************************)
(* The locks of Locks and the synchronisers of Misc, each for any number   *)
(* of threads.                                                             *)
(***************************************************************************)
EXTENDS Locks, FiniteSetTheorems, SequenceTheorems, WellFoundedInduction, TLAPS

(* A leaf may take a prover half a minute.                                 *)
USE SMTT(30), ZenonT(30)

-----------------------------------------------------------------------------
(* What the threads do is a step of the lock that the program uses.        *)
MonitorKinds == {"barrier", "latch", "future", "interrupt", "initialization"}

LEMMA LockKinds ==
  LockInit => \/ lock = "peterson" /\ Init
              \/ lock = "ticket" /\ Ticket!Init
              \/ lock = "clh" /\ CLH!Init
              \/ lock = "mcs" /\ MCS!Init
              \/ lock = "array" /\ Array!Init
              \/ lock = "shared" /\ Shared!Init
              \/ lock = "clusters" /\ Clusters!Init
              \/ lock = "mutexes" /\ Mutex!Init
              \/ lock \in MonitorKinds /\ Monitor!Init
BY DEF LockInit, MonitorKinds, Monitor!Init, Monitor!BarrierInit, Monitor!LatchInit,
  Monitor!FutureInit, Monitor!InterruptInit, Monitor!InitializationInit

LEMMA MonitorKind ==
  ASSUME NEW t \in QueueThreads, Monitor!Step(t) \/ Monitor!Call(t)
  PROVE  lock \in MonitorKinds
BY DEF MonitorKinds, Monitor!Step, Monitor!Call, Monitor!Wake, Monitor!Start,
  Monitor!InterruptionPoint, Monitor!SetConditionVariable, Monitor!TestFlag, Monitor!WaitFor,
  Monitor!Timeout, Monitor!WaitAgain, Monitor!Notify, Monitor!LockGuard, Monitor!SecondCheck,
  Monitor!Make, Monitor!Publish, Monitor!Unlock, Monitor!Process, Monitor!BarrierWait,
  Monitor!LatchWait, Monitor!SetData, Monitor!FutureCall, Monitor!SpuriousWakeup,
  Monitor!Interrupt, Monitor!Satisfy, Monitor!FirstCheck

MonitorNext == \E t \in QueueThreads : Monitor!Step(t) \/ Monitor!Call(t)

QueueLocks == {"ticket", "clh", "mcs", "array", "clusters"}

LEMMA LockSteps ==
  ASSUME LockNext
  PROVE  /\ lock' = lock
         /\ lock # "peterson" => UNCHANGED vars
         /\ lock \notin QueueLocks => UNCHANGED queue
         /\ \/ lock = "peterson" /\ Next
            \/ \E t \in QueueThreads :
                 \/ lock = "ticket" /\ (Ticket!Step(t) \/ Ticket!Lock(t))
                 \/ lock = "clh" /\ (CLH!Step(t) \/ CLH!Lock(t))
                 \/ lock = "mcs" /\ (MCS!Step(t) \/ MCS!Lock(t))
                 \/ lock = "array" /\ (Array!Step(t) \/ Array!Lock(t))
                 \/ lock = "shared" /\ (Shared!Step(t) \/ Shared!Lock(t) \/ Shared!SpuriousWakeup(t))
                 \/ lock = "clusters" /\ (Clusters!Step(t) \/ Clusters!Lock(t))
                 \/ lock = "mutexes" /\ (Mutex!Step(t) \/ Mutex!Call(t))
            \/ lock \in MonitorKinds /\ MonitorNext
BY MonitorKind DEF LockNext, ThreadNext, PetersonNext, TicketNext, CLHNext, MCSNext, ArrayNext, SharedNext,
  ClustersNext, OthersNext, Next, MonitorNext, MonitorKinds, QueueLocks

(* The definitions of FiniteSets are the same in the instances.            *)
LEMMA SameFiniteSets ==
  ASSUME NEW S
  PROVE  /\ Monitor!Cardinality(S) = Cardinality(S)
         /\ Shared!Cardinality(S) = Cardinality(S)
         /\ Array!Cardinality(S) = Cardinality(S)
         /\ Array!IsFiniteSet(S) <=> IsFiniteSet(S)
BY DEF Monitor!Cardinality, Cardinality, Shared!Cardinality, Array!Cardinality,
  Array!IsFiniteSet, IsFiniteSet

LEMMA ThreadsFinite ==
  /\ IsFiniteSet(QueueThreads)
  /\ Cardinality(QueueThreads) \in Nat \ {0}
<1>1. IsFiniteSet(QueueThreads)
  BY ONLY LockAssumptions, SameFiniteSets DEF Array!EnoughSlots
<1>2. QueueThreads # {}
  BY ONLY LockAssumptions DEF Monitor!RolesAssumption
<1> QED BY ONLY <1>1, <1>2, FS_EmptySet, FS_CardinalityType

(* One of a finite set less.                                               *)
LEMMA OneLess ==
  ASSUME NEW S, IsFiniteSet(S), NEW x \in S
  PROVE  /\ Cardinality(S) \in Nat \ {0}
         /\ Cardinality(S \ {x}) = Cardinality(S) - 1
         /\ Cardinality(S) = 1 => S = {x}
<1>1. Cardinality(S) \in Nat /\ Cardinality(S \ {x}) = Cardinality(S) - 1
  BY FS_CardinalityType, FS_RemoveElement
<1>2. Cardinality(S) # 0
  BY FS_EmptySet
<1>3. Cardinality(S) = 1 => S = {x}
  <2> SUFFICES ASSUME Cardinality(S) = 1 PROVE S \ {x} = {}
    OBVIOUS
  <2> QED BY <1>1, FS_RemoveElement, FS_EmptySet, SMTT(30)
<1> QED BY ONLY <1>1, <1>2, <1>3

-----------------------------------------------------------------------------
(* PetersonLock: the indices stay in range, the threads exclude each other, *)
(* and a waiting thread is passed at most once.                            *)
Waiting == {"readFlag", "readVictim"}

(* The flag of a thread is set from the store in lock to the one in unlock. *)
FlagInv ==
  \A t \in Threads :
    id[t] # NoId => (mFlags[id[t]] <=> pc[t] \notin {"out", "flag"})

(* The flag nobody has an index for is clear.                              *)
ClearInv == \A i \in {0, 1} : mFlags[i] => \E t \in Threads : id[t] = i

(* Whoever waits while another thread holds the lock is the victim.        *)
VictimInv ==
  \A t, u \in Threads :
    t # u /\ pc[t] = "in" /\ pc[u] \in Waiting \cup {"in"} => mVictim = id[u]

(* Once a waiting thread has been passed, the other one is the victim when  *)
(* it waits again.                                                         *)
PassedInv ==
  /\ \A t \in Threads : pc[t] \in Waiting => passed[t] \in {0, 1}
  /\ \A t, u \in Threads :
       t # u /\ pc[t] \in Waiting /\ pc[u] \in Waiting /\ passed[t] # 0 =>
         mVictim = id[u]

PetersonIInv == TypeOK /\ IdInv /\ FlagInv /\ ClearInv /\ VictimInv /\ PassedInv

(* Two threads that have an index have different ones.                     *)
LEMMA OtherId ==
  ASSUME TypeOK, IdInv, NEW t \in Threads, NEW u \in Threads, t # u,
         id[t] # NoId, id[u] # NoId
  PROVE  id[u] = 1 - id[t]
  BY DEF TypeOK, IdInv, NoId

(* The initial state satisfies the invariant.                              *)
LEMMA InitPeterson == Init => PetersonIInv
  BY DEF Init, PetersonIInv, TypeOK, IdInv, FlagInv, ClearInv, VictimInv, PassedInv, NoId, Waiting

(* A thread without an index finds one left: the counter is below 2.       *)
LEMMA IdLeft ==
  ASSUME TwoThreads, TypeOK, IdInv, NEW t \in Threads, id[t] = NoId
  PROVE  sIDCount \in {0, 1}
<1>1. SUFFICES ASSUME sIDCount = 2 PROVE FALSE
  BY DEF TypeOK
<1>2. PICK u \in Threads : id[u] = 0
  BY <1>1 DEF IdInv
<1>3. PICK v \in Threads : id[v] = 1
  BY <1>1 DEF IdInv
<1> QED BY <1>2, <1>3, TwoThreads DEF TwoThreads, NoId

(* Every step of a thread preserves it.                                    *)
LEMMA NextPeterson ==
  ASSUME TwoThreads PROVE PetersonIInv /\ [Next]_vars => PetersonIInv'
<1> SUFFICES ASSUME PetersonIInv, [Next]_vars PROVE PetersonIInv'
  OBVIOUS
<1> USE DEF PetersonIInv, Waiting
<1>1. ASSUME NEW t \in Threads, Lock(t) PROVE PetersonIInv'
  <2>1. CASE id[t] = NoId
    <3>1. sIDCount \in {0, 1}
      BY <2>1, TwoThreads, IdLeft
    <3>2. /\ id' = [id EXCEPT ![t] = sIDCount]
          /\ sIDCount' = sIDCount + 1
          /\ pc' = [pc EXCEPT ![t] = "flag"]
          /\ pc[t] = "out"
          /\ UNCHANGED <<mFlags, mVictim, passed>>
      BY ONLY <1>1, <2>1 DEF Lock, Goto
    <3>3. TypeOK'
      BY <3>1, <3>2 DEF TypeOK, NoId
    <3>4. IdInv'
      BY <3>1, <3>2, <2>1 DEF TypeOK, IdInv, NoId
    <3>5. FlagInv'
      BY <3>1, <3>2, <2>1 DEF TypeOK, IdInv, FlagInv, ClearInv, NoId
    <3>7. ClearInv'
      BY <3>1, <3>2, <2>1 DEF TypeOK, IdInv, ClearInv, NoId
    <3>6. VictimInv' /\ PassedInv'
      BY <3>2 DEF TypeOK, VictimInv, PassedInv
    <3> QED BY ONLY <3>3, <3>4, <3>5, <3>6, <3>7
  <2>2. CASE id[t] # NoId
    <3>1. /\ UNCHANGED <<sIDCount, id, mFlags, mVictim, passed>>
          /\ pc' = [pc EXCEPT ![t] = "flag"]
          /\ pc[t] = "out"
      BY ONLY <1>1, <2>2 DEF Lock, Goto
    <3> QED
      BY <3>1, <2>2 DEF TypeOK, IdInv, FlagInv, ClearInv, VictimInv, PassedInv
  <2> QED BY ONLY <2>1, <2>2
<1>2. ASSUME NEW t \in Threads, SetFlag(t) PROVE PetersonIInv'
  <2>1. TypeOK' /\ IdInv'
    BY <1>2 DEF SetFlag, Goto, TypeOK, IdInv
  <2>2. FlagInv' /\ ClearInv'
    BY <1>2 DEF SetFlag, Goto, TypeOK, IdInv, FlagInv, ClearInv, NoId
  <2>3. VictimInv' /\ PassedInv'
    BY <1>2 DEF SetFlag, Goto, TypeOK, VictimInv, PassedInv
  <2> QED BY ONLY <2>1, <2>2, <2>3
<1>3. ASSUME NEW t \in Threads, SetVictim(t) PROVE PetersonIInv'
  <2>1. TypeOK' /\ IdInv' /\ FlagInv' /\ ClearInv'
    BY <1>3 DEF SetVictim, Goto, TypeOK, IdInv, FlagInv, ClearInv, NoId
  <2>2. VictimInv'
    BY ONLY <1>3, TwoThreads DEF TwoThreads, SetVictim, Goto, TypeOK, VictimInv
  <2>3. PassedInv'
    BY <1>3, TwoThreads DEF TwoThreads, SetVictim, Goto, TypeOK, PassedInv
  <2> QED BY ONLY <2>1, <2>2, <2>3
<1>4. ASSUME NEW t \in Threads, ReadFlag(t) \/ ReadVictim(t), Enter(t) PROVE PetersonIInv'
  <2>1. /\ pc[t] \in Waiting
        /\ pc' = [pc EXCEPT ![t] = "in"]
        /\ UNCHANGED <<sIDCount, id, mFlags, mVictim>>
    BY ONLY <1>4 DEF ReadFlag, ReadVictim, Enter, Goto
  <2>2. TypeOK' /\ IdInv' /\ FlagInv' /\ ClearInv'
    BY <1>4, <2>1 DEF Enter, TypeOK, IdInv, FlagInv, ClearInv
  <2>3. ASSUME NEW u \in Threads, u # t, pc[u] \in Waiting \cup {"in"}
        PROVE  mVictim = id[u] /\ id[u] # id[t]
    <3>1. id[u] = 1 - id[t] /\ id[u] # NoId /\ id[t] \in {0, 1}
      BY <2>1, <2>3, OtherId DEF TypeOK, NoId
    <3>2. mFlags[1 - id[t]]
      BY <2>3, <3>1 DEF FlagInv
    <3>3. pc'[t] = "in"
      BY <2>1 DEF TypeOK
    <3>4. mVictim # id[t]
      BY <1>4, <3>2, <3>3 DEF ReadFlag, ReadVictim, Goto, TypeOK
    <3> QED BY <3>1, <3>4 DEF TypeOK
  <2>4. VictimInv'
    BY <2>1, <2>3 DEF TypeOK, VictimInv
  <2>5. ASSUME NEW a \in Threads, pc'[a] \in Waiting
        PROVE  /\ a # t /\ passed'[a] = 1
               /\ \A b \in Threads : a # b => b = t
    <3>1. a # t /\ pc[a] \in Waiting
      BY <2>1, <2>5 DEF TypeOK
    <3>2. passed[a] = 0
      BY <2>1, <2>3, <3>1 DEF PassedInv
    <3> QED BY ONLY <1>4, <3>1, <3>2, TwoThreads DEF TwoThreads, Enter
  <2>6. PassedInv'
    BY ONLY <2>1, <2>5 DEF PassedInv, TypeOK
  <2> QED BY ONLY <2>2, <2>4, <2>6
<1>5. ASSUME NEW t \in Threads, ReadFlag(t) \/ ReadVictim(t), ~Enter(t) PROVE PetersonIInv'
  <2>1. PICK label \in Waiting : pc' = [pc EXCEPT ![t] = label]
    BY ONLY <1>5 DEF ReadFlag, ReadVictim, Goto
  <2>2. pc[t] \in Waiting /\ UNCHANGED <<sIDCount, id, mFlags, mVictim, passed>>
    BY ONLY <1>5 DEF ReadFlag, ReadVictim
  <2> QED
    BY <2>1, <2>2 DEF TypeOK, IdInv, FlagInv, ClearInv, VictimInv, PassedInv
<1>6. ASSUME NEW t \in Threads, Unlock(t) PROVE PetersonIInv'
  <2>1. TypeOK' /\ IdInv'
    BY <1>6 DEF Unlock, Goto, TypeOK, IdInv
  <2>2. FlagInv' /\ ClearInv'
    BY <1>6 DEF Unlock, Goto, TypeOK, IdInv, FlagInv, ClearInv, NoId
  <2>3. VictimInv' /\ PassedInv'
    BY <1>6 DEF Unlock, Goto, TypeOK, VictimInv, PassedInv
  <2> QED BY ONLY <2>1, <2>2, <2>3
<1>7. CASE UNCHANGED vars
  BY <1>7 DEF vars, TypeOK, IdInv, FlagInv, ClearInv, VictimInv, PassedInv
<1> QED BY <1>1, <1>2, <1>3, <1>4, <1>5, <1>6, <1>7 DEF Next, Step

-----------------------------------------------------------------------------
(* Queues of threads, and the steps of FifoLock.                           *)
Distinct(q) == \A i, j \in 1 .. Len(q) : q[i] = q[j] => i = j

LEMMA JoinQueue ==
  ASSUME NEW S, NEW q \in Seq(S), NEW x \in S
  PROVE  /\ Append(q, x) \in Seq(S) /\ Len(q) \in Nat
         /\ Len(Append(q, x)) = Len(q) + 1 /\ Append(q, x) # <<>>
         /\ Len(q) < Len(Append(q, x))
         /\ \A i \in 1 .. Len(q) : Append(q, x)[i] = q[i]
         /\ Append(q, x)[Len(q) + 1] = x
         /\ SubSeq(Append(q, x), 1, Len(q)) = q
         /\ \A y : Contains(Append(q, x), y) <=> y = x \/ Contains(q, y)
         /\ Distinct(q) /\ ~Contains(q, x) => Distinct(Append(q, x))
<1> DEFINE r == Append(q, x)
           n == Len(q)
<1>1. /\ r \in Seq(S) /\ n \in Nat /\ Len(r) = n + 1 /\ r # <<>> /\ r[n + 1] = x
      /\ \A i \in 1 .. n : r[i] = q[i]
  BY ONLY AppendProperties
<1>2. SubSeq(r, 1, n) = q
  <2>1. \A i \in 1 .. n : r[i] \in S
    BY ONLY <1>1
  <2>2. /\ SubSeq(r, 1, n) \in Seq(S) /\ Len(SubSeq(r, 1, n)) = n
        /\ \A i \in 1 .. n : SubSeq(r, 1, n)[i] = q[i]
    <3> HIDE DEF r
    <3>1. /\ SubSeq(r, 1, n) \in Seq(S)
          /\ Len(SubSeq(r, 1, n)) = IF 1 <= n THEN n - 1 + 1 ELSE 0
          /\ \A i \in 1 .. n - 1 + 1 : SubSeq(r, 1, n)[i] = r[1 + i - 1]
      BY ONLY <1>1, <2>1, SubSeqProperties
    <3> HIDE DEF n
    <3> QED BY ONLY <1>1, <3>1
  <2> HIDE DEF r
  <2> QED BY ONLY <2>2, SeqEqual
<1> HIDE DEF r, n
<1>3. \A y : Contains(r, y) <=> y = x \/ Contains(q, y)
  BY ONLY <1>1 DEF Contains, n
<1>4. Distinct(q) /\ ~Contains(q, x) => Distinct(r)
  BY ONLY <1>1 DEF Contains, Distinct, n
<1> QED BY ONLY <1>1, <1>2, <1>3, <1>4 DEF r, n

LEMMA LeaveQueue ==
  ASSUME NEW S, NEW q \in Seq(S), q # <<>>
  PROVE  /\ Tail(q) \in Seq(S) /\ Len(q) \in Nat \ {0}
         /\ Head(q) = q[1] /\ q[1] \in S /\ Contains(q, q[1])
         /\ Len(Tail(q)) = Len(q) - 1
         /\ \A i \in 1 .. Len(q) - 1 : Tail(q)[i] = q[i + 1]
         /\ Distinct(q) => /\ Distinct(Tail(q))
                           /\ \A y : Contains(Tail(q), y) <=> Contains(q, y) /\ y # q[1]
<1> DEFINE r == Tail(q)
           n == Len(q)
<1>1. /\ r \in Seq(S) /\ n \in Nat \ {0} /\ Head(q) = q[1] /\ q[1] \in S
      /\ Len(r) = n - 1
      /\ \A i \in 1 .. n - 1 : r[i] = q[i + 1]
  BY HeadTailProperties
<1> HIDE DEF r, n
<1>2. Contains(q, q[1])
  BY ONLY <1>1 DEF Contains, n
<1>3. Distinct(q) => Distinct(r)
  <2> SUFFICES ASSUME Distinct(q), NEW i \in 1 .. n - 1, NEW j \in 1 .. n - 1, r[i] = r[j]
               PROVE  i = j
    BY <1>1 DEF Distinct
  <2>1. i + 1 \in 1 .. n /\ j + 1 \in 1 .. n /\ q[i + 1] = q[j + 1]
    BY <1>1
  <2> QED BY <2>1 DEF Distinct, n
<1>4. ASSUME Distinct(q), NEW y
      PROVE  Contains(r, y) <=> Contains(q, y) /\ y # q[1]
  <2>1. ASSUME NEW i \in 1 .. n - 1, r[i] = y PROVE Contains(q, y) /\ y # q[1]
    <3>1. i + 1 \in 1 .. n /\ 1 \in 1 .. n /\ i + 1 # 1 /\ q[i + 1] = y
      BY ONLY <1>1, <2>1
    <3> QED BY ONLY <1>4, <3>1 DEF Distinct, Contains, n
  <2>2. ASSUME NEW i \in 1 .. n, q[i] = y, y # q[1] PROVE Contains(r, y)
    <3>1. i - 1 \in 1 .. n - 1 /\ r[i - 1] = y
      BY ONLY <1>1, <2>2
    <3> QED BY ONLY <1>1, <3>1 DEF Contains
  <2> QED BY ONLY <1>1, <2>1, <2>2 DEF Contains, n
<1> QED BY ONLY <1>1, <1>2, <1>3, <1>4 DEF r, n

LEMMA FifoStep ==
  ASSUME NEW t \in QueueThreads, queue \in Seq(QueueThreads), Distinct(queue),
         \/ ~Contains(queue, t) /\ queue' = Append(queue, t) /\ Inside' = Inside
         \/ queue = <<>> /\ queue' = Append(queue, t) /\ Inside' = Inside \cup {t}
         \/ /\ queue # <<>> /\ queue[1] = t /\ t \notin Inside
            /\ queue' = queue /\ Inside' = Inside \cup {t}
         \/ t \in Inside /\ queue' = Tail(queue) /\ Inside' = Inside \ {t}
         \/ queue' = queue /\ Inside' = Inside
  PROVE  [Fifo!Next]_<<queue, Inside>>
<1>1. CASE ~Contains(queue, t) /\ queue' = Append(queue, t) /\ Inside' = Inside
  <2>1. /\ Len(queue) \in Nat /\ Len(queue') = Len(queue) + 1 /\ Len(queue) < Len(queue')
        /\ SubSeq(queue', 1, Len(queue)) = queue /\ Distinct(queue')
    BY <1>1, JoinQueue, SMTT(30)
  <2>2. \A i, j \in 1 .. Len(queue') : queue'[i] = queue'[j] => i = j
    BY ONLY <2>1 DEF Distinct
  <2>3. Fifo!Join
    BY ONLY <1>1, <2>1, <2>2, Zenon DEF Fifo!Join
  <2> QED BY ONLY <2>3 DEF Fifo!Next
<1>2. CASE queue = <<>> /\ queue' = Append(queue, t) /\ Inside' = Inside \cup {t}
  <2>1. queue' = <<t>>
    BY ONLY <1>2
  <2> QED BY ONLY <1>2, <2>1 DEF Fifo!Next, Fifo!JoinAndEnter
<1>3. CASE /\ queue # <<>> /\ queue[1] = t /\ t \notin Inside
           /\ queue' = queue /\ Inside' = Inside \cup {t}
  <2>1. Head(queue) = t
    BY ONLY <1>3, LeaveQueue
  <2> QED BY ONLY <1>3, <2>1 DEF Fifo!Next, Fifo!Enter
<1>4. CASE t \in Inside /\ queue' = Tail(queue) /\ Inside' = Inside \ {t}
  BY ONLY <1>4 DEF Fifo!Next, Fifo!Leave
<1>5. CASE queue' = queue /\ Inside' = Inside
  BY ONLY <1>5
<1> QED BY <1>1, <1>2, <1>3, <1>4, <1>5

(* The threads in the queue are those past their first step of lock, and     *)
(* whoever is inside is the first.                                         *)
InQueue(outside) ==
  /\ queue \in Seq(QueueThreads) /\ Distinct(queue)
  /\ \A t \in QueueThreads : Contains(queue, t) <=> queuePc[t] \notin outside
  /\ \A t \in Inside : queue # <<>> /\ queue[1] = t

LEMMA InitQueue ==
  ASSUME NEW outside, queue = <<>>, Inside = {},
         \A t \in QueueThreads : queuePc[t] \in outside
  PROVE  InQueue(outside)
BY DEF InQueue, Distinct, Contains

(* The thread t joins the queue, and may enter at once when it is empty.    *)
LEMMA Joins ==
  ASSUME NEW outside, InQueue(outside), NEW t \in QueueThreads,
         queuePc[t] \in outside, queuePc'[t] \notin outside,
         \A u \in QueueThreads \ {t} : queuePc'[u] = queuePc[u],
         queue' = Append(queue, t),
         Inside' = Inside \/ (queue = <<>> /\ Inside' = Inside \cup {t})
  PROVE  /\ InQueue(outside)' /\ [Fifo!Next]_<<queue, Inside>>
         /\ queue' \in Seq(QueueThreads) /\ queue' # <<>>
         /\ Len(queue) \in Nat /\ Len(queue') = Len(queue) + 1
         /\ queue'[Len(queue')] = t /\ queue'[1] = (IF queue = <<>> THEN t ELSE queue[1])
         /\ queue = <<>> <=> Len(queue) = 0
         /\ \A i \in 1 .. Len(queue) : queue'[i] = queue[i] /\ queue[i] \in QueueThreads \ {t}
<1>1. queue \in Seq(QueueThreads) /\ Distinct(queue) /\ ~Contains(queue, t)
  BY DEF InQueue
<1>2. /\ queue' \in Seq(QueueThreads) /\ Len(queue) \in Nat /\ Len(queue') = Len(queue) + 1
      /\ queue' # <<>> /\ queue'[Len(queue) + 1] = t /\ Distinct(queue')
      /\ \A i \in 1 .. Len(queue) : queue'[i] = queue[i]
      /\ \A u : Contains(queue', u) <=> u = t \/ Contains(queue, u)
  BY <1>1, JoinQueue
<1>3. \A i \in 1 .. Len(queue) : queue[i] \in QueueThreads \ {t}
  BY ONLY <1>1 DEF Contains
<1>4. queue = <<>> <=> Len(queue) = 0
  BY ONLY <1>1, EmptySeq
<1>5. queue'[1] = IF queue = <<>> THEN t ELSE queue[1]
  BY ONLY <1>2, <1>4
<1>6. \A u \in QueueThreads : Contains(queue', u) <=> queuePc'[u] \notin outside
  BY <1>2 DEF InQueue
<1>7. \A u \in Inside' : queue'[1] = u
  BY <1>5 DEF InQueue
<1>8. InQueue(outside)'
  BY ONLY <1>2, <1>6, <1>7 DEF InQueue
<1>9. [Fifo!Next]_<<queue, Inside>>
  BY <1>1, FifoStep, SMTT(30)
<1> QED BY ONLY <1>2, <1>3, <1>4, <1>5, <1>8, <1>9

(* The thread t leaves from inside.                                        *)
LEMMA Leaves ==
  ASSUME NEW outside, InQueue(outside), NEW t \in Inside, t \in QueueThreads,
         queuePc'[t] \in outside, \A u \in QueueThreads \ {t} : queuePc'[u] = queuePc[u],
         queue' = Tail(queue), Inside' = Inside \ {t}
  PROVE  /\ InQueue(outside)' /\ [Fifo!Next]_<<queue, Inside>>
         /\ queue' \in Seq(QueueThreads) /\ queue # <<>> /\ queue[1] = t
         /\ Len(queue) \in Nat \ {0} /\ Len(queue') = Len(queue) - 1
         /\ queue' = <<>> <=> Len(queue') = 0
         /\ \A i \in 1 .. Len(queue') : queue'[i] = queue[i + 1] /\ queue[i + 1] \in QueueThreads \ {t}
<1>1. queue \in Seq(QueueThreads) /\ Distinct(queue) /\ queue # <<>> /\ queue[1] = t
  BY DEF InQueue
<1>2. /\ queue' \in Seq(QueueThreads) /\ Distinct(queue') /\ Len(queue) \in Nat \ {0}
      /\ Len(queue') = Len(queue) - 1
      /\ \A i \in 1 .. Len(queue) - 1 : queue'[i] = queue[i + 1]
      /\ \A u : Contains(queue', u) <=> Contains(queue, u) /\ u # t
  BY <1>1, LeaveQueue
<1>3. \A i \in 1 .. Len(queue') : queue'[i] = queue[i + 1] /\ queue[i + 1] \in QueueThreads \ {t}
  <2> SUFFICES ASSUME NEW i \in 1 .. Len(queue')
               PROVE  queue'[i] = queue[i + 1] /\ queue[i + 1] \in QueueThreads \ {t}
    OBVIOUS
  <2>1. i + 1 \in 1 .. Len(queue) /\ 1 \in 1 .. Len(queue) /\ i + 1 # 1 /\ queue'[i] = queue[i + 1]
    BY ONLY <1>2
  <2> QED BY ONLY <1>1, <2>1 DEF Distinct
<1>4. queue' = <<>> <=> Len(queue') = 0
  BY ONLY <1>2, EmptySeq
<1>5. \A u \in QueueThreads : Contains(queue', u) <=> queuePc'[u] \notin outside
  BY <1>2 DEF InQueue
<1>6. Inside' = {}
  BY DEF InQueue
<1>7. InQueue(outside)'
  BY ONLY <1>2, <1>5, <1>6 DEF InQueue
<1>8. [Fifo!Next]_<<queue, Inside>>
  BY <1>1, FifoStep
<1> QED BY ONLY <1>1, <1>2, <1>3, <1>4, <1>7, <1>8, ZenonT(30)

(* The queue stays as it is, and t may enter if it is the first.           *)
LEMMA Stays ==
  ASSUME NEW outside, InQueue(outside), NEW t \in QueueThreads,
         queuePc'[t] \in outside <=> queuePc[t] \in outside,
         \A u \in QueueThreads \ {t} : queuePc'[u] = queuePc[u],
         queue' = queue,
         \/ Inside' = Inside
         \/ queue # <<>> /\ queue[1] = t /\ t \notin Inside /\ Inside' = Inside \cup {t}
  PROVE  InQueue(outside)' /\ [Fifo!Next]_<<queue, Inside>>
<1>1. queue \in Seq(QueueThreads) /\ Distinct(queue)
  BY DEF InQueue
<1>2. \A u \in QueueThreads : Contains(queue, u) <=> queuePc'[u] \notin outside
  BY DEF InQueue
<1>3. InQueue(outside)'
  BY <1>2 DEF InQueue
<1>4. [Fifo!Next]_<<queue, Inside>>
  BY <1>1, FifoStep
<1> QED BY ONLY <1>3, <1>4

-----------------------------------------------------------------------------
(* TicketLock, as long as owner does not overflow.                         *)
TicketsSuffice == MaxTickets < Limit

TicketIInv ==
  /\ Ticket!TypeOK /\ Ticket!TicketInv /\ InQueue({"out"}) /\ next = taken

LEMMA InitTicket == lock = "ticket" /\ Ticket!Init => TicketIInv /\ Inside = {}
<1> SUFFICES ASSUME lock = "ticket", Ticket!Init PROVE TicketIInv /\ Inside = {}
  OBVIOUS
<1>1. Ticket!TypeOK /\ Ticket!TicketInv /\ next = taken /\ Inside = {}
  BY LockAssumptions DEF Ticket!LimitAssumption, Ticket!Init, Ticket!TypeOK,
    Ticket!TicketInv, Inside, Ticket!Inside
<1> QED BY <1>1, InitQueue DEF Ticket!Init, TicketIInv

LEMMA NextTicket ==
  ASSUME TicketsSuffice, lock = "ticket", TicketIInv, lock' = lock,
         NEW t \in QueueThreads, Ticket!Step(t) \/ Ticket!Lock(t)
  PROVE  TicketIInv' /\ [Fifo!Next]_<<queue, Inside>>
<1> USE DEF TicketIInv, Ticket!TypeOK
<1>0. /\ Limit \in Nat \ {0} /\ MaxTickets \in Nat /\ MaxTickets < Limit
      /\ Inside = Ticket!Inside /\ Inside' = Ticket!Inside'
      /\ queue \in Seq(QueueThreads) /\ Len(queue) \in Nat /\ (queue = <<>> <=> Len(queue) = 0)
  BY LockAssumptions, EmptySeq DEF Ticket!LimitAssumption, TicketsSuffice, Inside
<1>1. CASE Ticket!Lock(t)
  <2>1. /\ queuePc[t] = "out" /\ queue' = Append(queue, t)
        /\ next' = next + 1 /\ next' <= Limit - 1 /\ taken' = taken + 1 /\ owner' = owner
        /\ ticket' = [ticket EXCEPT ![t] = next]
        /\ queuePc' = [queuePc EXCEPT ![t] = IF owner = next THEN "in" ELSE "wait"]
    BY <1>0, <1>1 DEF Ticket!Lock, Ticket!Succ
  <2>2. Inside' = Inside \/ (queue = <<>> /\ Inside' = Inside \cup {t})
    BY <1>0, <2>1 DEF Ticket!Inside, Ticket!TicketInv
  <2>3. /\ InQueue({"out"})' /\ [Fifo!Next]_<<queue, Inside>> /\ queue' \in Seq(QueueThreads)
        /\ Len(queue') = Len(queue) + 1 /\ queue'[Len(queue')] = t
        /\ \A i \in 1 .. Len(queue) : queue'[i] = queue[i] /\ queue[i] \in QueueThreads \ {t}
    BY <2>1, <2>2, Joins
  <2>4. Ticket!TypeOK' /\ next' = taken'
    BY <1>0, <1>1, <2>1, <2>3 DEF Ticket!Lock
  <2>5. Ticket!TicketInv'
    BY <1>0, <2>1, <2>3, SMTT(30) DEF Ticket!TicketInv
  <2> QED BY ONLY <2>3, <2>4, <2>5
<1>2. CASE Ticket!Acquire(t)
  <2>1. /\ queuePc[t] = "wait" /\ owner = ticket[t] /\ queuePc' = [queuePc EXCEPT ![t] = "in"]
        /\ UNCHANGED <<owner, next, ticket, taken, queue>>
    BY ONLY <1>2 DEF Ticket!Acquire
  <2>2. PICK i \in 1 .. Len(queue) : queue[i] = t
    BY <2>1 DEF InQueue, Contains
  <2>3. queue # <<>> /\ queue[1] = t
    BY <1>0, <2>1, <2>2, SMTT(30) DEF Ticket!TicketInv
  <2>4. Inside' = Inside \cup {t} /\ t \notin Inside
    BY <1>0, <2>1 DEF Ticket!Inside
  <2>5. Ticket!TypeOK' /\ Ticket!TicketInv' /\ next' = taken'
    BY <2>1 DEF Ticket!TicketInv
  <2>6. InQueue({"out"})' /\ [Fifo!Next]_<<queue, Inside>>
    BY <2>1, <2>3, <2>4, Stays
  <2> QED BY ONLY <2>5, <2>6
<1>3. CASE Ticket!Unlock(t)
  <2>1. /\ queuePc[t] = "in" /\ queuePc' = [queuePc EXCEPT ![t] = "out"]
        /\ queue' = Tail(queue) /\ UNCHANGED <<ticket, taken>>
        /\ owner' = Ticket!Succ(owner)
        /\ next' = IF owner' = 0 THEN Ticket!Succ(next) ELSE next
    BY ONLY <1>3 DEF Ticket!Unlock
  <2>2. t \in Inside /\ Inside' = Inside \ {t}
    BY <1>0, <2>1 DEF Ticket!Inside
  <2>3. /\ InQueue({"out"})' /\ [Fifo!Next]_<<queue, Inside>> /\ queue' \in Seq(QueueThreads)
        /\ Len(queue) \in Nat \ {0} /\ Len(queue') = Len(queue) - 1
        /\ \A i \in 1 .. Len(queue') : queue'[i] = queue[i + 1]
    BY <2>1, <2>2, Leaves
  <2>4. Len(queue) \in Nat \ {0} /\ queue' \in Seq(QueueThreads)
    BY ONLY <2>3
  <2>5. owner' = owner + 1 /\ next' = next /\ owner' <= Limit - 1
    BY <1>0, <2>1, <2>4 DEF Ticket!Succ, Ticket!TicketInv
  <2>6. Ticket!TypeOK' /\ next' = taken'
    BY <1>0, <2>1, <2>4, <2>5
  <2>7. Ticket!TicketInv'
    <3>1. next' = owner' + Len(queue')
      <4>1. Len(queue') = Len(queue) - 1
        BY ONLY <2>3
      <4>2. next = owner + Len(queue) /\ owner \in Nat
        BY <1>0 DEF Ticket!TicketInv
      <4> HIDE DEF TicketIInv
      <4> QED BY ONLY <2>4, <2>5, <4>1, <4>2
    <3>2. ASSUME NEW i \in 1 .. Len(queue') PROVE ticket'[queue'[i]] = owner' + i - 1
      <4>1. i + 1 \in 1 .. Len(queue) /\ queue'[i] = queue[i + 1] /\ i \in Nat
        BY ONLY <2>3, <3>2
      <4> QED BY <1>0, <2>1, <2>5, <4>1 DEF Ticket!TicketInv
    <3> QED BY ONLY <3>1, <3>2 DEF Ticket!TicketInv
  <2> QED BY ONLY <2>3, <2>6, <2>7
<1> QED BY <1>1, <1>2, <1>3 DEF Ticket!Step

-----------------------------------------------------------------------------
(* CLHQueueLock.                                                           *)
CLHIInv == CLH!TypeOK /\ CLH!NodeInv /\ InQueue({"out", "swap"})

LEMMA InitCLH == lock = "clh" /\ CLH!Init => CLHIInv /\ Inside = {}
<1> SUFFICES ASSUME lock = "clh", CLH!Init PROVE CLHIInv /\ Inside = {}
  OBVIOUS
<1>1. Inside = {}
  BY DEF CLH!Init, Inside, CLH!Inside
<1>2. CLH!TypeOK
  BY LockAssumptions DEF CLH!NodeAssumption, CLH!Init, CLH!TypeOK, CLH!Nodes
<1>3. CLH!NodeInv
  <2>1. FirstNode \in CLH!Nodes /\ \A t \in QueueThreads : OwnNode[t] \in CLH!Nodes \ {FirstNode}
    BY ONLY LockAssumptions DEF CLH!NodeAssumption, CLH!Nodes
  <2>2. queue = <<>> /\ clhTail = FirstNode /\ ~clhLocked[clhTail]
    BY <2>1 DEF CLH!Init
  <2>3. \A t \in QueueThreads : queuePc[t] = "out" /\ sMyNode[t] # clhTail
    BY <2>1 DEF CLH!Init
  <2> QED BY ONLY <2>2, <2>3 DEF CLH!NodeInv
<1> QED BY <1>1, <1>2, <1>3, InitQueue DEF CLH!Init, CLHIInv

LEMMA NextCLH ==
  ASSUME lock = "clh", CLHIInv, lock' = lock,
         NEW t \in QueueThreads, CLH!Step(t) \/ CLH!Lock(t)
  PROVE  CLHIInv' /\ [Fifo!Next]_<<queue, Inside>>
<1> DEFINE spare == IF queue = <<>> THEN clhTail ELSE sPredNode[queue[1]]
<1>1. /\ Inside = CLH!Inside /\ Inside' = CLH!Inside'
      /\ queue \in Seq(QueueThreads) /\ Len(queue) \in Nat /\ (queue = <<>> <=> Len(queue) = 0)
  BY EmptySeq DEF CLHIInv, CLH!TypeOK, Inside
<1>2. /\ clhTail \in CLH!Nodes /\ clhLocked \in [CLH!Nodes -> BOOLEAN]
      /\ sMyNode \in [QueueThreads -> CLH!Nodes] /\ sPredNode \in [QueueThreads -> CLH!Nodes]
      /\ queuePc \in [QueueThreads -> {"out", "swap", "spin", "in"}]
  BY DEF CLHIInv, CLH!TypeOK
<1>3. \A u, v \in QueueThreads : sMyNode[u] = sMyNode[v] => u = v
  BY DEF CLHIInv, CLH!TypeOK
<1>4. InQueue({"out", "swap"})
  BY DEF CLHIInv
<1>5. \A i \in 2 .. Len(queue) : /\ sPredNode[queue[i]] = sMyNode[queue[i - 1]]
                                 /\ queuePc[queue[i]] = "spin"
  BY DEF CLHIInv, CLH!NodeInv
<1>6. /\ ~clhLocked[spare] /\ \A u \in QueueThreads : sMyNode[u] # spare
      /\ queue # <<>> => clhTail = sMyNode[queue[Len(queue)]]
  BY DEF CLHIInv, CLH!NodeInv
<1>7. \A u \in QueueThreads : queuePc[u] \in {"swap", "spin", "in"} => clhLocked[sMyNode[u]]
  BY DEF CLHIInv, CLH!NodeInv
<1>8. \A i \in 1 .. Len(queue) : queue[i] \in QueueThreads /\ queuePc[queue[i]] \in {"spin", "in"}
  BY ONLY <1>2, <1>4, ElementOfSeq DEF InQueue, Contains
<1>9. spare \in CLH!Nodes
  BY ONLY <1>1, <1>2, <1>8
<1> HIDE DEF spare
<1> SUFFICES /\ CLH!TypeOK' /\ InQueue({"out", "swap"})' /\ [Fifo!Next]_<<queue, Inside>>
             /\ \A i \in 2 .. Len(queue') : /\ sPredNode'[queue'[i]] = sMyNode'[queue'[i - 1]]
                                            /\ queuePc'[queue'[i]] = "spin"
             /\ \E n \in CLH!Nodes :
                  /\ n = IF queue' = <<>> THEN clhTail' ELSE sPredNode'[queue'[1]]
                  /\ ~clhLocked'[n] /\ \A u \in QueueThreads : sMyNode'[u] # n
             /\ queue' # <<>> => clhTail' = sMyNode'[queue'[Len(queue')]]
             /\ \A u \in QueueThreads :
                  queuePc'[u] \in {"swap", "spin", "in"} => clhLocked'[sMyNode'[u]]
  <2>1. ASSUME CLH!TypeOK', InQueue({"out", "swap"})'
        PROVE  /\ \A u \in QueueThreads : (\E i \in 1 .. Len(queue') : queue'[i] = u)
                                          <=> queuePc'[u] \in {"spin", "in"}
               /\ \A i, j \in 1 .. Len(queue') : queue'[i] = queue'[j] => i = j
    BY ONLY <2>1 DEF InQueue, Contains, Distinct, CLH!TypeOK
  <2> QED BY <2>1 DEF CLHIInv, CLH!NodeInv
<1>a. CASE CLH!Lock(t)
  <2>1. /\ queuePc[t] = "out" /\ queuePc' = [queuePc EXCEPT ![t] = "swap"]
        /\ clhLocked' = [clhLocked EXCEPT ![sMyNode[t]] = TRUE]
        /\ UNCHANGED <<clhTail, sMyNode, sPredNode, queue>>
    BY ONLY <1>a DEF CLH!Lock
  <2>2. Inside' = Inside
    BY ONLY <1>1, <1>2, <2>1 DEF CLH!Inside
  <2>3. InQueue({"out", "swap"})' /\ [Fifo!Next]_<<queue, Inside>>
    BY ONLY <1>2, <1>4, <2>1, <2>2, Stays
  <2>4. CLH!TypeOK'
    BY ONLY <1>1, <1>2, <1>3, <2>1 DEF CLH!TypeOK
  <2>5. ~clhLocked'[spare] /\ \A u \in QueueThreads : sMyNode'[u] # spare
    BY ONLY <1>2, <1>6, <1>9, <2>1
  <2>6. \A i \in 2 .. Len(queue) : queuePc'[queue[i]] = "spin"
    BY ONLY <1>1, <1>2, <1>5, <1>8, <2>1
  <2>7. \A u \in QueueThreads : queuePc'[u] \in {"swap", "spin", "in"} => clhLocked'[sMyNode'[u]]
    BY ONLY <1>2, <1>7, <2>1
  <2> QED BY ONLY <1>5, <1>6, <1>9, <2>1, <2>3, <2>4, <2>5, <2>6, <2>7 DEF spare
<1>b. CASE CLH!Swap(t)
  <2>1. /\ queuePc[t] = "swap" /\ queuePc' = [queuePc EXCEPT ![t] = "spin"]
        /\ sPredNode' = [sPredNode EXCEPT ![t] = clhTail] /\ clhTail' = sMyNode[t]
        /\ queue' = Append(queue, t) /\ UNCHANGED <<clhLocked, sMyNode>>
    BY ONLY <1>b DEF CLH!Swap
  <2>2. Inside' = Inside
    BY ONLY <1>1, <1>2, <2>1 DEF CLH!Inside
  <2>3. /\ InQueue({"out", "swap"})' /\ [Fifo!Next]_<<queue, Inside>>
        /\ queue' \in Seq(QueueThreads) /\ queue' # <<>>
        /\ Len(queue') = Len(queue) + 1 /\ queue'[Len(queue')] = t
        /\ queue'[1] = IF queue = <<>> THEN t ELSE queue[1]
        /\ \A i \in 1 .. Len(queue) : queue'[i] = queue[i] /\ queue[i] \in QueueThreads \ {t}
    BY <1>2, <1>4, <2>1, <2>2, Joins
  <2>4. CLH!TypeOK'
    BY ONLY <1>2, <1>3, <2>1, <2>3 DEF CLH!TypeOK
  <2>5. ASSUME NEW i \in 2 .. Len(queue')
        PROVE  sPredNode'[queue'[i]] = sMyNode'[queue'[i - 1]] /\ queuePc'[queue'[i]] = "spin"
    <3>1. CASE i = Len(queue')
      <4>1. queue # <<>> /\ i - 1 = Len(queue) /\ i - 1 \in 1 .. Len(queue)
        BY ONLY <1>1, <2>3, <3>1
      <4>2. queue'[i] = t /\ queue'[i - 1] = queue[Len(queue)] /\ queue[Len(queue)] \in QueueThreads
        BY ONLY <2>3, <3>1, <4>1
      <4> QED BY ONLY <1>2, <1>6, <2>1, <4>1, <4>2
    <3>2. CASE i # Len(queue')
      <4>1. i \in 2 .. Len(queue) /\ i \in 1 .. Len(queue) /\ i - 1 \in 1 .. Len(queue)
        BY ONLY <1>1, <2>3, <3>2
      <4>2. /\ queue'[i] = queue[i] /\ queue'[i - 1] = queue[i - 1]
            /\ queue[i] \in QueueThreads \ {t} /\ queue[i - 1] \in QueueThreads \ {t}
        BY ONLY <2>3, <4>1
      <4> QED BY ONLY <1>2, <1>5, <2>1, <4>1, <4>2
    <3> QED BY ONLY <3>1, <3>2
  <2>6. sPredNode'[queue'[1]] = spare
    <3>1. CASE queue = <<>>
      BY ONLY <1>2, <2>1, <2>3, <3>1 DEF spare
    <3>2. CASE queue # <<>>
      <4>1. 1 \in 1 .. Len(queue)
        BY ONLY <1>1, <3>2
      <4>2. queue'[1] = queue[1] /\ queue[1] \in QueueThreads \ {t}
        BY ONLY <2>3, <4>1
      <4> QED BY ONLY <1>2, <2>1, <3>2, <4>2 DEF spare
    <3> QED BY ONLY <3>1, <3>2
  <2>7. ~clhLocked'[spare] /\ \A u \in QueueThreads : sMyNode'[u] # spare
    BY ONLY <1>6, <2>1
  <2>8. \A u \in QueueThreads : queuePc'[u] \in {"swap", "spin", "in"} => clhLocked'[sMyNode'[u]]
    BY ONLY <1>2, <1>7, <2>1
  <2>9. clhTail' = sMyNode'[queue'[Len(queue')]]
    BY ONLY <2>1, <2>3
  <2> QED BY ONLY <1>9, <2>3, <2>4, <2>5, <2>6, <2>7, <2>8, <2>9
<1>c. CASE CLH!Acquire(t)
  <2>1. /\ queuePc[t] = "spin" /\ queuePc' = [queuePc EXCEPT ![t] = "in"]
        /\ ~clhLocked[sPredNode[t]]
        /\ UNCHANGED <<clhTail, clhLocked, sMyNode, sPredNode, queue>>
    BY ONLY <1>c DEF CLH!Acquire
  <2>2. PICK i \in 1 .. Len(queue) : queue[i] = t
    BY ONLY <1>4, <2>1 DEF InQueue, Contains
  <2>3. i = 1
    <3> SUFFICES ASSUME i # 1 PROVE FALSE
      OBVIOUS
    <3>1. i \in 2 .. Len(queue) /\ i - 1 \in 1 .. Len(queue)
      BY <1>1
    <3>2. sPredNode[t] = sMyNode[queue[i - 1]]
      BY ONLY <1>5, <2>2, <3>1
    <3>3. clhLocked[sMyNode[queue[i - 1]]]
      BY ONLY <1>7, <1>8, <3>1
    <3> QED BY ONLY <2>1, <3>2, <3>3
  <2>4. queue # <<>> /\ queue[1] = t
    BY ONLY <1>1, <2>2, <2>3
  <2>5. Inside' = Inside \cup {t} /\ t \notin Inside
    BY ONLY <1>1, <1>2, <2>1 DEF CLH!Inside
  <2>6. InQueue({"out", "swap"})' /\ [Fifo!Next]_<<queue, Inside>>
    BY ONLY <1>2, <1>4, <2>1, <2>4, <2>5, Stays
  <2>7. CLH!TypeOK'
    BY ONLY <1>1, <1>2, <1>3, <2>1 DEF CLH!TypeOK
  <2>8. ASSUME NEW j \in 2 .. Len(queue) PROVE queuePc'[queue[j]] = "spin"
    <3>1. j \in 1 .. Len(queue) /\ 1 \in 1 .. Len(queue) /\ j # 1
      BY ONLY <1>1
    <3>2. queue[j] \in QueueThreads \ {t}
      BY ONLY <1>4, <1>8, <2>4, <3>1 DEF InQueue, Distinct
    <3> QED BY ONLY <1>2, <1>5, <2>1, <3>2
  <2>9. \A u \in QueueThreads : queuePc'[u] \in {"swap", "spin", "in"} => clhLocked'[sMyNode'[u]]
    BY ONLY <1>2, <1>7, <2>1
  <2> QED BY ONLY <1>5, <1>6, <1>9, <2>1, <2>6, <2>7, <2>8, <2>9 DEF spare
<1>d. CASE CLH!Unlock(t)
  <2>1. /\ queuePc[t] = "in" /\ queuePc' = [queuePc EXCEPT ![t] = "out"]
        /\ sMyNode' = [sMyNode EXCEPT ![t] = sPredNode[t]]
        /\ clhLocked' = [clhLocked EXCEPT ![sMyNode[t]] = FALSE]
        /\ queue' = Tail(queue) /\ UNCHANGED <<clhTail, sPredNode>>
    BY ONLY <1>d DEF CLH!Unlock
  <2>2. t \in Inside /\ Inside' = Inside \ {t}
    BY ONLY <1>1, <1>2, <2>1 DEF CLH!Inside
  <2>3. /\ InQueue({"out", "swap"})' /\ [Fifo!Next]_<<queue, Inside>>
        /\ queue' \in Seq(QueueThreads) /\ queue # <<>> /\ queue[1] = t
        /\ Len(queue) \in Nat \ {0} /\ Len(queue') = Len(queue) - 1
        /\ queue' = <<>> <=> Len(queue') = 0
        /\ \A i \in 1 .. Len(queue') : queue'[i] = queue[i + 1] /\ queue[i + 1] \in QueueThreads \ {t}
    BY ONLY <1>2, <1>4, <2>1, <2>2, Leaves
  <2>4. sPredNode[t] = spare /\ sMyNode'[t] = spare /\ sMyNode[t] # spare
    <3>1. queue # <<>> /\ queue[1] = t
      BY ONLY <2>3
    <3>2. sPredNode[t] = spare
      BY ONLY <3>1 DEF spare
    <3> QED BY ONLY <1>2, <1>6, <2>1, <3>2
  <2>5. \A u \in QueueThreads \ {t} : sMyNode'[u] = sMyNode[u] /\ sMyNode[u] # sMyNode[t]
    BY ONLY <1>2, <1>3, <2>1
  <2>6. CLH!TypeOK'
    <3>1. \A u, v \in QueueThreads : sMyNode'[u] = sMyNode'[v] => u = v
      BY ONLY <1>3, <1>6, <2>4, <2>5
    <3>2. sMyNode' \in [QueueThreads -> CLH!Nodes] /\ clhLocked' \in [CLH!Nodes -> BOOLEAN]
      BY ONLY <1>2, <2>1
    <3>3. queuePc' \in [QueueThreads -> {"out", "swap", "spin", "in"}]
      BY ONLY <1>2, <2>1
    <3>4. queue' \in Seq(QueueThreads)
      BY ONLY <2>3
    <3>5. clhTail' \in CLH!Nodes /\ sPredNode' \in [QueueThreads -> CLH!Nodes]
      BY ONLY <1>2, <2>1
    <3> QED BY ONLY <3>1, <3>2, <3>3, <3>4, <3>5 DEF CLH!TypeOK
  <2>7. ASSUME NEW i \in 2 .. Len(queue')
        PROVE  sPredNode'[queue'[i]] = sMyNode'[queue'[i - 1]] /\ queuePc'[queue'[i]] = "spin"
    <3>1. /\ i \in 1 .. Len(queue') /\ i - 1 \in 1 .. Len(queue') /\ i + 1 \in 2 .. Len(queue)
          /\ i - 1 + 1 = i /\ i + 1 - 1 = i
      BY ONLY <2>3
    <3>2. /\ queue'[i] = queue[i + 1] /\ queue'[i - 1] = queue[i]
          /\ queue[i + 1] \in QueueThreads \ {t} /\ queue[i] \in QueueThreads \ {t}
      BY ONLY <2>3, <3>1
    <3>3. sPredNode[queue[i + 1]] = sMyNode[queue[i]] /\ queuePc[queue[i + 1]] = "spin"
      BY ONLY <1>5, <3>1
    <3> QED BY ONLY <1>2, <2>1, <2>5, <3>2, <3>3
  <2>8. (IF queue' = <<>> THEN clhTail' ELSE sPredNode'[queue'[1]]) = sMyNode[t]
    <3>1. CASE Len(queue) = 1
      BY ONLY <1>6, <2>1, <2>3, <3>1
    <3>2. CASE Len(queue) # 1
      <4>1. 2 \in 2 .. Len(queue) /\ 1 \in 1 .. Len(queue') /\ queue' # <<>> /\ 1 + 1 = 2 /\ 2 - 1 = 1
        BY ONLY <2>3, <3>2
      <4>2. queue'[1] = queue[2] /\ sPredNode[queue[2]] = sMyNode[queue[1]]
        BY ONLY <1>5, <2>3, <4>1
      <4>3. sPredNode'[queue'[1]] = sMyNode[t]
        <5>1. queue[1] = t
          BY ONLY <2>3
        <5> QED BY ONLY <2>1, <4>2, <5>1
      <4> QED BY ONLY <4>1, <4>3
    <3> QED BY ONLY <3>1, <3>2
  <2>9. ASSUME queue' # <<>> PROVE clhTail' = sMyNode'[queue'[Len(queue')]]
    <3>1. Len(queue') \in 1 .. Len(queue') /\ Len(queue') + 1 = Len(queue)
      BY ONLY <2>3, <2>9
    <3>2. queue'[Len(queue')] = queue[Len(queue)] /\ queue[Len(queue)] \in QueueThreads \ {t}
      BY ONLY <2>3, <3>1
    <3>3. clhTail = sMyNode[queue[Len(queue)]]
      BY ONLY <1>6, <2>3
    <3> QED BY ONLY <2>1, <2>5, <3>2, <3>3
  <2>10. /\ sMyNode[t] \in CLH!Nodes
         /\ ~clhLocked'[sMyNode[t]] /\ \A u \in QueueThreads : sMyNode'[u] # sMyNode[t]
    BY ONLY <1>2, <2>1, <2>4, <2>5
  <2>11. \A u \in QueueThreads : queuePc'[u] \in {"swap", "spin", "in"} => clhLocked'[sMyNode'[u]]
    BY ONLY <1>2, <1>7, <2>1, <2>5
  <2> QED BY ONLY <2>3, <2>6, <2>7, <2>8, <2>9, <2>10, <2>11
<1> QED BY <1>a, <1>b, <1>c, <1>d DEF CLH!Step

-----------------------------------------------------------------------------
(* MCSQueueLock.  The threads after the first one wait, each for the thread *)
(* before it; the first one may enter as soon as it looks at its flag.     *)
MCSWaiting ==
  /\ \A t \in QueueThreads : queuePc[t] = "swap" => mcsLocked[t] /\ mNext[t] = NoThread
  /\ \A i \in 2 .. Len(queue) : /\ queuePc[queue[i]] \in {"link", "spin"}
                                /\ pred[queue[i]] = queue[i - 1] /\ mcsLocked[queue[i]]
  /\ queue # <<>> => /\ queuePc[queue[1]] # "link"
                     /\ queuePc[queue[1]] = "spin" => ~mcsLocked[queue[1]]

(* The links follow the queue.                                             *)
MCSLinks ==
  \A i \in 1 .. Len(queue) :
    mNext[queue[i]] = IF i < Len(queue) /\ queuePc[queue[i + 1]] # "link"
                      THEN queue[i + 1] ELSE NoThread

MCSIInv ==
  MCS!TypeOK /\ MCS!LinkInv /\ InQueue({"out", "swap", "reset"}) /\ MCSWaiting

LEMMA InitMCS == lock = "mcs" /\ MCS!Init => MCSIInv /\ Inside = {}
<1> SUFFICES ASSUME lock = "mcs", MCS!Init PROVE MCSIInv /\ Inside = {}
  OBVIOUS
<1>1. MCS!TypeOK /\ MCS!LinkInv /\ MCSWaiting /\ Inside = {}
  BY DEF MCS!Init, MCS!TypeOK, MCS!LinkInv, MCSWaiting, Inside, MCS!Inside
<1> QED BY <1>1, InitQueue DEF MCS!Init, MCSIInv

LEMMA NextMCS ==
  ASSUME lock = "mcs", MCSIInv, lock' = lock,
         NEW t \in QueueThreads, MCS!Step(t) \/ MCS!Lock(t)
  PROVE  MCSIInv' /\ [Fifo!Next]_<<queue, Inside>>
<1> DEFINE outside == {"out", "swap", "reset"}
           labels == {"out", "swap", "link", "spin", "in", "cas", "await", "grant", "reset"}
<1>1. /\ Inside = MCS!Inside /\ Inside' = MCS!Inside'
      /\ queue \in Seq(QueueThreads) /\ Len(queue) \in Nat /\ (queue = <<>> <=> Len(queue) = 0)
      /\ NoThread \notin QueueThreads
  BY EmptySeq, LockAssumptions DEF MCS!NoThreadAssumption, MCSIInv, MCS!TypeOK, Inside
<1>2. /\ mcsTail \in QueueThreads \cup {NoThread}
      /\ mNext \in [QueueThreads -> QueueThreads \cup {NoThread}]
      /\ mcsLocked \in [QueueThreads -> BOOLEAN]
      /\ queuePc \in [QueueThreads -> labels]
      /\ pred \in [QueueThreads -> QueueThreads \cup {NoThread}]
  BY DEF MCSIInv, MCS!TypeOK
<1>3. \A u \in QueueThreads : queuePc[u] = "grant" => mNext[u] # NoThread
  BY DEF MCSIInv, MCS!TypeOK
<1>4. InQueue({"out", "swap", "reset"})
  BY DEF MCSIInv
<1>5. mcsTail = IF queue = <<>> THEN NoThread ELSE queue[Len(queue)]
  BY DEF MCSIInv, MCS!LinkInv
<1>6. MCSLinks
  BY DEF MCSIInv, MCS!LinkInv, MCSLinks
<1>7. \A i \in 1 .. Len(queue) : queue[i] \in QueueThreads /\ queuePc[queue[i]] \notin outside
  <2> SUFFICES ASSUME NEW i \in 1 .. Len(queue)
               PROVE  queue[i] \in QueueThreads /\ queuePc[queue[i]] \notin outside
    OBVIOUS
  <2>1. queue[i] \in QueueThreads
    BY ONLY <1>1, ElementOfSeq
  <2>2. Contains(queue, queue[i])
    BY DEF Contains
  <2> QED BY ONLY <1>4, <2>1, <2>2 DEF InQueue
<1>8. \A i, j \in 1 .. Len(queue) : queue[i] = queue[j] => i = j
  BY ONLY <1>4 DEF InQueue, Distinct
<1>9. MCSWaiting
  BY DEF MCSIInv
<1>10. \A u \in QueueThreads :
         queuePc[u] \in {"in", "cas", "await", "grant"} => queue # <<>> /\ queue[1] = u
  BY ONLY <1>1, <1>4 DEF InQueue, MCS!Inside
<1>11. ASSUME MCS!TypeOK', InQueue(outside)', MCSLinks', MCSWaiting',
              mcsTail' = IF queue' = <<>> THEN NoThread ELSE queue'[Len(queue')]
       PROVE  MCSIInv'
  <2>1. \A u \in QueueThreads : queuePc'[u] = "grant" => mcsLocked'[mNext'[u]]
    <3> SUFFICES ASSUME NEW u \in QueueThreads, queuePc'[u] = "grant"
                 PROVE  mcsLocked'[mNext'[u]]
      OBVIOUS
    <3>1. u \in Inside' /\ mNext'[u] # NoThread
      BY <1>1, <1>11 DEF MCS!Inside, MCS!TypeOK
    <3>2. queue' # <<>> /\ queue'[1] = u /\ queue' \in Seq(QueueThreads)
      BY ONLY <1>11, <3>1 DEF InQueue
    <3>3. Len(queue') \in Nat \ {0} /\ 1 \in 1 .. Len(queue') /\ 1 + 1 = 2
      BY ONLY <3>2, EmptySeq
    <3>4. 1 < Len(queue') /\ mNext'[u] = queue'[2]
      BY ONLY <1>11, <3>1, <3>2, <3>3 DEF MCSLinks
    <3>5. 2 \in 2 .. Len(queue')
      BY ONLY <3>3, <3>4
    <3> QED BY ONLY <1>11, <3>4, <3>5 DEF MCSWaiting
  <2>2. MCS!LinkInv'
    BY ONLY <1>11, <2>1 DEF MCS!LinkInv, MCSLinks
  <2> QED BY ONLY <1>11, <2>2 DEF MCSIInv
<1> HIDE DEF outside, labels

<1>12. ASSUME queuePc[t] \in outside
       PROVE  \A i \in 1 .. Len(queue) : queue[i] \in QueueThreads \ {t}
  BY ONLY <1>7, <1>12
(* A step outside the queue, and a step of the first one in it.            *)
<1>13. ASSUME queuePc[t] \in outside, queuePc'[t] \in outside, UNCHANGED <<mcsTail, pred, queue>>,
              \A u \in QueueThreads \ {t} : /\ queuePc'[u] = queuePc[u]
                                            /\ mNext'[u] = mNext[u] /\ mcsLocked'[u] = mcsLocked[u],
              queuePc'[t] = "swap" => mcsLocked'[t] /\ mNext'[t] = NoThread,
              MCS!TypeOK'
       PROVE  MCSIInv' /\ [Fifo!Next]_<<queue, Inside>>
  <2>1. Inside' = Inside
    BY ONLY <1>1, <1>13 DEF MCS!Inside, outside
  <2>2. InQueue(outside)' /\ [Fifo!Next]_<<queue, Inside>>
    BY ONLY <1>4, <1>13, <2>1, Stays DEF outside
  <2>3. ASSUME NEW i \in 1 .. Len(queue)
        PROVE  mNext'[queue[i]] = IF i < Len(queue) /\ queuePc'[queue[i + 1]] # "link"
                                  THEN queue[i + 1] ELSE NoThread
    <3>1. mNext'[queue[i]] = mNext[queue[i]]
      BY ONLY <1>12, <1>13
    <3>2. CASE i < Len(queue)
      <4>1. i + 1 \in 1 .. Len(queue)
        BY ONLY <1>1, <3>2
      <4>2. queuePc'[queue[i + 1]] = queuePc[queue[i + 1]]
        BY ONLY <1>12, <1>13, <4>1
      <4> QED BY ONLY <1>6, <3>1, <4>2 DEF MCSLinks
    <3>3. CASE ~(i < Len(queue))
      BY ONLY <1>6, <3>1, <3>3 DEF MCSLinks
    <3> QED BY ONLY <3>2, <3>3
  <2>4. MCSLinks'
    BY ONLY <1>13, <2>3 DEF MCSLinks
  <2>5. \A i \in 1 .. Len(queue) : /\ queuePc'[queue[i]] = queuePc[queue[i]]
                                   /\ mcsLocked'[queue[i]] = mcsLocked[queue[i]]
    BY ONLY <1>12, <1>13
  <2>6. \A i \in 2 .. Len(queue) : i \in 1 .. Len(queue)
    BY ONLY <1>1
  <2>7. queue # <<>> => 1 \in 1 .. Len(queue)
    BY ONLY <1>1
  <2>8. \A u \in QueueThreads : queuePc'[u] = "swap" => mcsLocked'[u] /\ mNext'[u] = NoThread
    BY ONLY <1>9, <1>13 DEF MCSWaiting
  <2>9. MCSWaiting'
    BY ONLY <1>9, <1>13, <2>5, <2>6, <2>7, <2>8 DEF MCSWaiting
  <2> QED BY ONLY <1>5, <1>11, <1>13, <2>2, <2>4, <2>9
<1>14. ASSUME queue # <<>>, queue[1] = t, UNCHANGED <<mcsTail, mNext, mcsLocked, pred, queue>>,
              NEW l \in {"in", "cas", "await", "grant"}, queuePc' = [queuePc EXCEPT ![t] = l],
              l = "grant" => mNext[t] # NoThread,
              queuePc[t] \in {"spin", "in", "cas", "await"}
       PROVE  MCSIInv' /\ [Fifo!Next]_<<queue, Inside>>
  <2>1. \/ Inside' = Inside
        \/ t \notin Inside /\ Inside' = Inside \cup {t}
    BY ONLY <1>1, <1>2, <1>14 DEF MCS!Inside
  <2>2. InQueue(outside)' /\ [Fifo!Next]_<<queue, Inside>>
    BY ONLY <1>2, <1>4, <1>14, <2>1, Stays DEF outside
  <2>3. MCS!TypeOK'
    BY ONLY <1>1, <1>2, <1>3, <1>14 DEF MCS!TypeOK, labels
  <2>4. ASSUME NEW i \in 2 .. Len(queue)
        PROVE  queue[i] \in QueueThreads \ {t} /\ queuePc'[queue[i]] = queuePc[queue[i]]
    <3>1. i \in 1 .. Len(queue) /\ 1 \in 1 .. Len(queue) /\ i # 1
      BY ONLY <1>1
    <3>2. queue[i] \in QueueThreads \ {t}
      BY ONLY <1>7, <1>8, <1>14, <3>1
    <3> QED BY ONLY <1>2, <1>14, <3>2
  <2>5. ASSUME NEW i \in 1 .. Len(queue)
        PROVE  mNext[queue[i]] = IF i < Len(queue) /\ queuePc'[queue[i + 1]] # "link"
                                 THEN queue[i + 1] ELSE NoThread
    <3>1. CASE i < Len(queue)
      <4>1. i + 1 \in 2 .. Len(queue)
        BY ONLY <1>1, <3>1
      <4>2. queuePc'[queue[i + 1]] = queuePc[queue[i + 1]]
        BY ONLY <2>4, <4>1
      <4> QED BY ONLY <1>6, <4>2 DEF MCSLinks
    <3>2. CASE ~(i < Len(queue))
      BY ONLY <1>6, <3>2 DEF MCSLinks
    <3> QED BY ONLY <3>1, <3>2
  <2>6. MCSLinks'
    BY ONLY <1>14, <2>5 DEF MCSLinks
  <2>7. \A u \in QueueThreads : queuePc'[u] = "swap" => mcsLocked'[u] /\ mNext'[u] = NoThread
    BY ONLY <1>2, <1>9, <1>14 DEF MCSWaiting
  <2>8. queuePc'[t] \notin {"link", "spin"}
    BY ONLY <1>2, <1>14
  <2>9. \A i \in 2 .. Len(queue) : /\ queuePc'[queue[i]] \in {"link", "spin"}
                                   /\ pred[queue[i]] = queue[i - 1] /\ mcsLocked[queue[i]]
    BY ONLY <1>9, <2>4 DEF MCSWaiting
  <2>10. MCSWaiting'
    BY ONLY <1>14, <2>7, <2>8, <2>9 DEF MCSWaiting
  <2> QED BY ONLY <1>5, <1>11, <1>14, <2>2, <2>3, <2>6, <2>10
<1>a. CASE MCS!Lock(t)
  <2>1. /\ queuePc[t] = "out" /\ queuePc' = [queuePc EXCEPT ![t] = "swap"]
        /\ mcsLocked' = [mcsLocked EXCEPT ![t] = TRUE]
        /\ mNext' = [mNext EXCEPT ![t] = NoThread] /\ UNCHANGED <<mcsTail, pred, queue>>
    BY ONLY <1>a DEF MCS!Lock, MCS!Goto
  <2>2. MCS!TypeOK'
    BY ONLY <1>1, <1>2, <1>3, <2>1 DEF MCS!TypeOK, labels
  <2> QED BY ONLY <1>2, <1>13, <2>1, <2>2 DEF outside
<1>b. CASE MCS!Swap(t)
  <2>1. /\ queuePc[t] = "swap"
        /\ queuePc' = [queuePc EXCEPT ![t] = IF mcsTail = NoThread THEN "in" ELSE "link"]
        /\ pred' = [pred EXCEPT ![t] = mcsTail] /\ mcsTail' = t
        /\ queue' = Append(queue, t) /\ UNCHANGED <<mNext, mcsLocked>>
    BY ONLY <1>b DEF MCS!Swap, MCS!Goto
  <2>2. queue = <<>> <=> mcsTail = NoThread
    <3>1. queue # <<>> => Len(queue) \in 1 .. Len(queue)
      BY ONLY <1>1
    <3> QED BY ONLY <1>1, <1>5, <1>7, <3>1
  <2>3. Inside' = Inside \/ (queue = <<>> /\ Inside' = Inside \cup {t})
    BY ONLY <1>1, <1>2, <2>1, <2>2 DEF MCS!Inside
  <2>4. /\ InQueue(outside)' /\ [Fifo!Next]_<<queue, Inside>>
        /\ queue' \in Seq(QueueThreads) /\ queue' # <<>>
        /\ Len(queue') = Len(queue) + 1 /\ queue'[Len(queue')] = t
        /\ queue'[1] = IF queue = <<>> THEN t ELSE queue[1]
        /\ \A i \in 1 .. Len(queue) : queue'[i] = queue[i] /\ queue[i] \in QueueThreads \ {t}
    BY ONLY <1>2, <1>4, <2>1, <2>3, Joins DEF outside
  <2>5. MCS!TypeOK'
    <3>1. queue' \in Seq(QueueThreads)
      BY ONLY <2>4
    <3> QED BY ONLY <1>2, <1>3, <2>1, <3>1 DEF MCS!TypeOK, labels
  <2>6. ASSUME NEW i \in 1 .. Len(queue')
        PROVE  mNext'[queue'[i]] = IF i < Len(queue') /\ queuePc'[queue'[i + 1]] # "link"
                                   THEN queue'[i + 1] ELSE NoThread
    <3>1. CASE i = Len(queue')
      <4>1. queue'[i] = t /\ ~(i < Len(queue'))
        BY ONLY <1>1, <2>4, <3>1
      <4>2. mNext[t] = NoThread
        BY ONLY <1>9, <2>1 DEF MCSWaiting
      <4> QED BY ONLY <2>1, <4>1, <4>2
    <3>2. CASE i = Len(queue)
      <4>1. i \in 1 .. Len(queue) /\ i + 1 = Len(queue') /\ ~(i < Len(queue)) /\ queue # <<>>
        BY ONLY <1>1, <2>4, <3>2
      <4>2. mNext[queue[i]] = NoThread /\ queue'[i] = queue[i] /\ queue'[i + 1] = t
        BY ONLY <1>6, <2>4, <4>1 DEF MCSLinks
      <4>3. queuePc'[t] = "link"
        BY ONLY <1>2, <2>1, <2>2, <4>1
      <4> QED BY ONLY <2>1, <4>2, <4>3
    <3>3. CASE i < Len(queue)
      <4>1. i \in 1 .. Len(queue) /\ i + 1 \in 1 .. Len(queue) /\ i < Len(queue')
        BY ONLY <1>1, <2>4, <3>3
      <4>2. /\ queue'[i] = queue[i] /\ queue'[i + 1] = queue[i + 1]
            /\ queue[i + 1] \in QueueThreads \ {t}
        BY ONLY <2>4, <4>1
      <4>3. queuePc'[queue[i + 1]] = queuePc[queue[i + 1]]
        BY ONLY <1>2, <2>1, <4>2
      <4> QED BY ONLY <1>6, <2>1, <3>3, <4>1, <4>2, <4>3 DEF MCSLinks
    <3>4. i = Len(queue') \/ i = Len(queue) \/ i < Len(queue)
      BY ONLY <1>1, <2>4
    <3> QED BY ONLY <3>1, <3>2, <3>3, <3>4
  <2>7. ASSUME NEW i \in 2 .. Len(queue')
        PROVE  /\ queuePc'[queue'[i]] \in {"link", "spin"}
               /\ pred'[queue'[i]] = queue'[i - 1] /\ mcsLocked'[queue'[i]]
    <3>1. CASE i = Len(queue')
      <4>1. i - 1 = Len(queue) /\ i - 1 \in 1 .. Len(queue) /\ queue # <<>>
        BY ONLY <1>1, <2>4, <3>1
      <4>2. queue'[i] = t /\ queue'[i - 1] = mcsTail
        BY ONLY <1>5, <2>4, <3>1, <4>1
      <4> QED BY ONLY <1>2, <1>9, <2>1, <2>2, <4>1, <4>2 DEF MCSWaiting
    <3>2. CASE i # Len(queue')
      <4>1. i \in 2 .. Len(queue) /\ i \in 1 .. Len(queue) /\ i - 1 \in 1 .. Len(queue)
        BY ONLY <1>1, <2>4, <3>2
      <4>2. queue'[i] = queue[i] /\ queue'[i - 1] = queue[i - 1] /\ queue[i] \in QueueThreads \ {t}
        BY ONLY <2>4, <4>1
      <4> QED BY ONLY <1>2, <1>9, <2>1, <4>1, <4>2 DEF MCSWaiting
    <3> QED BY ONLY <3>1, <3>2
  <2>8. /\ queuePc'[queue'[1]] # "link"
        /\ queuePc'[queue'[1]] = "spin" => ~mcsLocked'[queue'[1]]
    <3>1. CASE queue = <<>>
      BY ONLY <1>2, <2>1, <2>2, <2>4, <3>1
    <3>2. CASE queue # <<>>
      <4>1. queue'[1] = queue[1] /\ queue[1] \in QueueThreads \ {t}
        <5>1. 1 \in 1 .. Len(queue)
          BY ONLY <1>1, <3>2
        <5> QED BY ONLY <2>4, <5>1
      <4> QED BY ONLY <1>2, <1>9, <2>1, <3>2, <4>1 DEF MCSWaiting
    <3> QED BY ONLY <3>1, <3>2
  <2>9. \A u \in QueueThreads : queuePc'[u] = "swap" => mcsLocked'[u] /\ mNext'[u] = NoThread
    BY ONLY <1>2, <1>9, <2>1 DEF MCSWaiting
  <2>10. MCSLinks' /\ MCSWaiting'
    BY ONLY <2>6, <2>7, <2>8, <2>9 DEF MCSLinks, MCSWaiting
  <2>11. mcsTail' = IF queue' = <<>> THEN NoThread ELSE queue'[Len(queue')]
    BY ONLY <2>1, <2>4
  <2> QED BY ONLY <1>11, <2>4, <2>5, <2>10, <2>11
<1>c. CASE MCS!Link(t)
  <2>1. /\ queuePc[t] = "link" /\ queuePc' = [queuePc EXCEPT ![t] = "spin"]
        /\ mNext' = [mNext EXCEPT ![pred[t]] = t] /\ UNCHANGED <<mcsTail, mcsLocked, pred, queue>>
    BY ONLY <1>c DEF MCS!Link, MCS!Goto
  <2>2. PICK k \in 1 .. Len(queue) : queue[k] = t
    BY ONLY <1>4, <2>1 DEF InQueue, Contains
  <2>3. k \in 2 .. Len(queue) /\ k - 1 \in 1 .. Len(queue) /\ pred[t] = queue[k - 1]
    <3>1. queue # <<>> /\ k # 1
      BY ONLY <1>1, <1>9, <2>1, <2>2 DEF MCSWaiting
    <3>2. k \in 2 .. Len(queue) /\ k - 1 \in 1 .. Len(queue)
      BY ONLY <1>1, <3>1
    <3> QED BY ONLY <1>9, <2>2, <3>2 DEF MCSWaiting
  <2>4. Inside' = Inside
    BY ONLY <1>1, <1>2, <2>1 DEF MCS!Inside
  <2>5. InQueue(outside)' /\ [Fifo!Next]_<<queue, Inside>>
    BY ONLY <1>2, <1>4, <2>1, <2>4, Stays DEF outside
  <2>6. pred[t] \in QueueThreads /\ queuePc[pred[t]] \notin outside
    BY ONLY <1>7, <2>3
  <2>7. MCS!TypeOK'
    BY ONLY <1>1, <1>2, <1>3, <2>1, <2>6 DEF MCS!TypeOK, labels
  <2>8. ASSUME NEW i \in 1 .. Len(queue)
        PROVE  mNext'[queue[i]] = IF i < Len(queue) /\ queuePc'[queue[i + 1]] # "link"
                                  THEN queue[i + 1] ELSE NoThread
    <3>1. CASE i = k - 1
      <4>1. i < Len(queue) /\ i + 1 = k
        BY ONLY <1>1, <2>3, <3>1
      <4>2. queuePc'[t] # "link" /\ mNext'[queue[i]] = t
        BY ONLY <1>2, <2>1, <2>3, <2>6, <3>1
      <4> QED BY ONLY <2>2, <4>1, <4>2
    <3>2. CASE i # k - 1
      <4>1. mNext'[queue[i]] = mNext[queue[i]]
        BY ONLY <1>2, <1>7, <1>8, <2>1, <2>3, <3>2
      <4>2. CASE i < Len(queue)
        <5>1. i + 1 \in 1 .. Len(queue) /\ i + 1 # k
          BY ONLY <1>1, <3>2, <4>2
        <5>2. queue[i + 1] \in QueueThreads \ {t}
          BY ONLY <1>7, <1>8, <2>2, <5>1
        <5>3. queuePc'[queue[i + 1]] = queuePc[queue[i + 1]]
          BY ONLY <1>2, <2>1, <5>2
        <5> QED BY ONLY <1>6, <4>1, <5>3 DEF MCSLinks
      <4>3. CASE ~(i < Len(queue))
        BY ONLY <1>6, <4>1, <4>3 DEF MCSLinks
      <4> QED BY ONLY <4>2, <4>3
    <3> QED BY ONLY <3>1, <3>2
  <2>9. \A i \in 2 .. Len(queue) : /\ queuePc'[queue[i]] \in {"link", "spin"}
                                   /\ pred[queue[i]] = queue[i - 1] /\ mcsLocked[queue[i]]
    <3>1. \A i \in 2 .. Len(queue) : i \in 1 .. Len(queue)
      BY ONLY <1>1
    <3> QED BY ONLY <1>2, <1>7, <1>9, <2>1, <3>1 DEF MCSWaiting
  <2>10. queue[1] \in QueueThreads \ {t} /\ queuePc'[queue[1]] = queuePc[queue[1]] /\ queue # <<>>
    <3>1. 1 \in 1 .. Len(queue) /\ k # 1 /\ queue # <<>>
      BY ONLY <1>1, <2>3
    <3>2. queue[1] \in QueueThreads \ {t}
      BY ONLY <1>7, <1>8, <2>2, <3>1
    <3> QED BY ONLY <1>2, <2>1, <3>1, <3>2
  <2>11. \A u \in QueueThreads : queuePc'[u] = "swap" => mcsLocked'[u] /\ mNext'[u] = NoThread
    BY ONLY <1>2, <1>9, <2>1, <2>6 DEF MCSWaiting, outside
  <2>12. MCSLinks' /\ MCSWaiting'
    BY ONLY <1>9, <2>1, <2>8, <2>9, <2>10, <2>11 DEF MCSLinks, MCSWaiting
  <2> QED BY ONLY <1>5, <1>11, <2>1, <2>5, <2>7, <2>12
<1>d. CASE MCS!Acquire(t)
  <2>1. /\ queuePc[t] = "spin" /\ queuePc' = [queuePc EXCEPT ![t] = "in"] /\ ~mcsLocked[t]
        /\ UNCHANGED <<mcsTail, mNext, mcsLocked, pred, queue>>
    BY ONLY <1>d DEF MCS!Acquire, MCS!Goto
  <2>2. PICK k \in 1 .. Len(queue) : queue[k] = t
    BY ONLY <1>4, <2>1 DEF InQueue, Contains
  <2>3. k \notin 2 .. Len(queue)
    BY ONLY <1>9, <2>1, <2>2 DEF MCSWaiting
  <2>4. queue # <<>> /\ queue[1] = t
    BY ONLY <1>1, <2>2, <2>3
  <2> QED BY ONLY <1>14, <2>1, <2>4
<1>e. CASE MCS!Unlock(t)
  <2>1. /\ queuePc[t] = "in" /\ UNCHANGED <<mcsTail, mNext, mcsLocked, pred, queue>>
        /\ queuePc' = [queuePc EXCEPT ![t] = IF mNext[t] = NoThread THEN "cas" ELSE "grant"]
    BY ONLY <1>e DEF MCS!Unlock, MCS!Goto
  <2> QED BY ONLY <1>10, <1>14, <2>1
<1>f. CASE MCS!EmptyQueue(t) /\ mcsTail # t
  <2>1. /\ queuePc[t] = "cas" /\ UNCHANGED <<mcsTail, mNext, mcsLocked, pred, queue>>
        /\ queuePc' = [queuePc EXCEPT ![t] = "await"]
    BY ONLY <1>f DEF MCS!EmptyQueue, MCS!Goto
  <2> QED BY ONLY <1>10, <1>14, <2>1
<1>g. CASE MCS!EmptyQueue(t) /\ mcsTail = t
  <2>1. /\ queuePc[t] = "cas" /\ queuePc' = [queuePc EXCEPT ![t] = "out"]
        /\ mcsTail' = NoThread /\ queue' = Tail(queue) /\ UNCHANGED <<mNext, mcsLocked, pred>>
    BY ONLY <1>g DEF MCS!EmptyQueue, MCS!Goto
  <2>2. t \in Inside /\ Inside' = Inside \ {t}
    BY ONLY <1>1, <1>2, <2>1 DEF MCS!Inside
  <2>3. /\ InQueue(outside)' /\ [Fifo!Next]_<<queue, Inside>> /\ queue' \in Seq(QueueThreads)
        /\ Len(queue') = Len(queue) - 1 /\ (queue' = <<>> <=> Len(queue') = 0)
    BY ONLY <1>2, <1>4, <2>1, <2>2, Leaves DEF outside
  <2>4. Len(queue) = 1
    <3>1. queue # <<>> /\ queue[1] = t /\ queue[Len(queue)] = t
      BY ONLY <1>5, <1>10, <1>g, <1>1, <2>1
    <3>2. Len(queue) \in 1 .. Len(queue) /\ 1 \in 1 .. Len(queue)
      BY ONLY <1>1, <3>1
    <3> QED BY ONLY <1>8, <3>1, <3>2
  <2>5. queue' = <<>> /\ Len(queue') = 0
    BY ONLY <2>3, <2>4
  <2>6. MCS!TypeOK'
    <3>1. queue' \in Seq(QueueThreads)
      BY ONLY <2>3
    <3> QED BY ONLY <1>2, <1>3, <2>1, <3>1 DEF MCS!TypeOK, labels
  <2>7. \A u \in QueueThreads : queuePc'[u] = "swap" => mcsLocked'[u] /\ mNext'[u] = NoThread
    BY ONLY <1>2, <1>9, <2>1 DEF MCSWaiting
  <2>8. MCSLinks' /\ MCSWaiting'
    BY ONLY <2>5, <2>7 DEF MCSLinks, MCSWaiting
  <2>9. mcsTail' = IF queue' = <<>> THEN NoThread ELSE queue'[Len(queue')]
    BY ONLY <2>1, <2>5
  <2> QED BY ONLY <1>11, <2>3, <2>6, <2>8, <2>9
<1>h. CASE MCS!AwaitLink(t)
  <2>1. /\ queuePc[t] = "await" /\ mNext[t] # NoThread
        /\ queuePc' = [queuePc EXCEPT ![t] = "grant"]
        /\ UNCHANGED <<mcsTail, mNext, mcsLocked, pred, queue>>
    BY ONLY <1>h DEF MCS!AwaitLink, MCS!Goto
  <2> QED BY ONLY <1>10, <1>14, <2>1
<1>i. CASE MCS!Grant(t)
  <2>1. /\ queuePc[t] = "grant" /\ queuePc' = [queuePc EXCEPT ![t] = "reset"]
        /\ mcsLocked' = [mcsLocked EXCEPT ![mNext[t]] = FALSE]
        /\ queue' = Tail(queue) /\ UNCHANGED <<mcsTail, mNext, pred>>
    BY ONLY <1>i DEF MCS!Grant, MCS!Goto
  <2>2. t \in Inside /\ Inside' = Inside \ {t}
    BY ONLY <1>1, <1>2, <2>1 DEF MCS!Inside
  <2>3. /\ InQueue(outside)' /\ [Fifo!Next]_<<queue, Inside>>
        /\ queue' \in Seq(QueueThreads) /\ queue # <<>> /\ queue[1] = t
        /\ Len(queue) \in Nat \ {0} /\ Len(queue') = Len(queue) - 1
        /\ queue' = <<>> <=> Len(queue') = 0
        /\ \A i \in 1 .. Len(queue') : queue'[i] = queue[i + 1] /\ queue[i + 1] \in QueueThreads \ {t}
    BY ONLY <1>2, <1>4, <2>1, <2>2, Leaves DEF outside
  <2>4. /\ 2 \in 2 .. Len(queue) /\ 2 \in 1 .. Len(queue) /\ 1 \in 1 .. Len(queue')
        /\ mNext[t] = queue[2] /\ queuePc[queue[2]] = "spin" /\ queue[2] \in QueueThreads \ {t}
        /\ queue'[1] = queue[2]
    <3>0. queue[1] = t /\ Len(queue) \in Nat \ {0} /\ Len(queue') = Len(queue) - 1
      BY ONLY <2>3
    <3>1. 1 \in 1 .. Len(queue) /\ 1 + 1 = 2 /\ queue[1] = t /\ mNext[t] # NoThread
      BY ONLY <1>3, <2>1, <3>0
    <3>2. 1 < Len(queue) /\ queuePc[queue[2]] # "link" /\ mNext[t] = queue[2]
      BY ONLY <1>6, <3>1 DEF MCSLinks
    <3>3. 2 \in 2 .. Len(queue) /\ 2 \in 1 .. Len(queue) /\ 1 \in 1 .. Len(queue')
      BY ONLY <3>0, <3>2
    <3> QED BY ONLY <1>9, <2>3, <3>1, <3>2, <3>3 DEF MCSWaiting
  <2>5. MCS!TypeOK'
    <3>1. queue' \in Seq(QueueThreads)
      BY ONLY <2>3
    <3> QED BY ONLY <1>2, <1>3, <2>1, <3>1 DEF MCS!TypeOK, labels
  <2>6. ASSUME NEW i \in 1 .. Len(queue')
        PROVE  mNext'[queue'[i]] = IF i < Len(queue') /\ queuePc'[queue'[i + 1]] # "link"
                                   THEN queue'[i + 1] ELSE NoThread
    <3>1. i + 1 \in 1 .. Len(queue) /\ queue'[i] = queue[i + 1] /\ (i < Len(queue') <=> i + 1 < Len(queue))
      BY ONLY <2>3
    <3>2. CASE i < Len(queue')
      <4>1. i + 1 \in 1 .. Len(queue') /\ i + 1 + 1 \in 1 .. Len(queue)
        BY ONLY <2>3, <3>2
      <4>2. queue'[i + 1] = queue[i + 1 + 1] /\ queue[i + 1 + 1] \in QueueThreads \ {t}
        BY ONLY <2>3, <4>1
      <4>3. queuePc'[queue'[i + 1]] = queuePc[queue[i + 1 + 1]]
        BY ONLY <1>2, <2>1, <4>2
      <4> QED BY ONLY <1>6, <2>1, <3>1, <3>2, <4>2, <4>3 DEF MCSLinks
    <3>3. CASE ~(i < Len(queue'))
      BY ONLY <1>6, <2>1, <3>1, <3>3 DEF MCSLinks
    <3> QED BY ONLY <3>2, <3>3
  <2>7. ASSUME NEW i \in 2 .. Len(queue')
        PROVE  /\ queuePc'[queue'[i]] \in {"link", "spin"}
               /\ pred'[queue'[i]] = queue'[i - 1] /\ mcsLocked'[queue'[i]]
    <3>1. /\ i \in 1 .. Len(queue') /\ i - 1 \in 1 .. Len(queue') /\ i + 1 \in 2 .. Len(queue)
          /\ i + 1 \in 1 .. Len(queue) /\ i - 1 + 1 = i /\ i + 1 - 1 = i /\ i + 1 # 2
      BY ONLY <2>3
    <3>2. /\ queue'[i] = queue[i + 1] /\ queue'[i - 1] = queue[i]
          /\ queue[i + 1] \in QueueThreads \ {t}
      BY ONLY <2>3, <3>1
    <3>3. queue[i + 1] # queue[2]
      BY ONLY <1>8, <2>4, <3>1
    <3>4. /\ queuePc[queue[i + 1]] \in {"link", "spin"}
          /\ pred[queue[i + 1]] = queue[i] /\ mcsLocked[queue[i + 1]]
      BY ONLY <1>9, <3>1 DEF MCSWaiting
    <3> QED BY ONLY <1>2, <2>1, <2>4, <3>2, <3>3, <3>4
  <2>8. queuePc'[queue'[1]] = "spin" /\ ~mcsLocked'[queue'[1]]
    BY ONLY <1>2, <2>1, <2>4
  <2>9. \A u \in QueueThreads : queuePc'[u] = "swap" => mcsLocked'[u] /\ mNext'[u] = NoThread
    BY ONLY <1>2, <1>9, <2>1, <2>4 DEF MCSWaiting
  <2>10. MCSLinks' /\ MCSWaiting'
    BY ONLY <2>6, <2>7, <2>8, <2>9 DEF MCSLinks, MCSWaiting
  <2>11. mcsTail' = IF queue' = <<>> THEN NoThread ELSE queue'[Len(queue')]
    <3>1. queue' # <<>> /\ Len(queue') \in 1 .. Len(queue') /\ Len(queue') + 1 = Len(queue)
      BY ONLY <2>3, <2>4
    <3>2. queue'[Len(queue')] = queue[Len(queue)] /\ queue # <<>>
      BY ONLY <2>3, <3>1
    <3> QED BY ONLY <1>5, <2>1, <3>1, <3>2
  <2> QED BY ONLY <1>11, <2>3, <2>5, <2>10, <2>11
<1>j. CASE MCS!Reset(t)
  <2>1. /\ queuePc[t] = "reset" /\ queuePc' = [queuePc EXCEPT ![t] = "out"]
        /\ mNext' = [mNext EXCEPT ![t] = NoThread]
        /\ UNCHANGED <<mcsTail, mcsLocked, pred, queue>>
    BY ONLY <1>j DEF MCS!Reset, MCS!Goto
  <2>2. MCS!TypeOK'
    BY ONLY <1>1, <1>2, <1>3, <2>1 DEF MCS!TypeOK, labels
  <2> QED BY ONLY <1>2, <1>13, <2>1, <2>2 DEF outside
<1> QED BY <1>a, <1>b, <1>c, <1>d, <1>e, <1>f, <1>g, <1>h, <1>i, <1>j DEF MCS!Step

-----------------------------------------------------------------------------
(* SharedLock: at most one writer has announced itself.                    *)
Reading == Shared!In("read")
Writing == Shared!In("write") \cup Shared!In("drain") \cup Shared!In("drainWait")

SharedIInv ==
  /\ Shared!TypeOK
  /\ mReader = Cardinality(Reading)
  /\ mWriter <=> Writing # {}
  /\ \A t, u \in Writing : t = u
  /\ Shared!In("write") # {} => Reading = {}

LEMMA SharedInvariant == SharedIInv => Shared!SharedInv
<1> SUFFICES ASSUME SharedIInv PROVE Shared!SharedInv
  OBVIOUS
<1>1. mReader = Shared!Cardinality(Shared!In("read"))
  BY SameFiniteSets DEF SharedIInv, Reading
<1>2. Cardinality(Writing) = IF mWriter THEN 1 ELSE 0
  <2>1. CASE Writing = {}
    BY <2>1, FS_EmptySet DEF SharedIInv
  <2>2. CASE Writing # {}
    <3>1. PICK t \in Writing : TRUE
      BY ONLY <2>2
    <3>2. Writing = {t}
      BY <3>1 DEF SharedIInv
    <3> QED BY <2>2, <3>2, FS_Singleton DEF SharedIInv
  <2> QED BY ONLY <2>1, <2>2
<1>3. Shared!Cardinality(Writing) = IF mWriter THEN 1 ELSE 0
  BY ONLY <1>2, SameFiniteSets
<1> QED BY <1>1, <1>3 DEF Shared!SharedInv, SharedIInv, Writing, Reading

LEMMA InitShared == lock = "shared" /\ Shared!Init => SharedIInv
<1> SUFFICES ASSUME Shared!Init PROVE SharedIInv
  OBVIOUS
<1>1. Reading = {} /\ Writing = {} /\ Shared!In("write") = {}
  BY DEF Shared!Init, Reading, Writing, Shared!In
<1> QED BY <1>1, FS_EmptySet DEF Shared!Init, SharedIInv, Shared!TypeOK

LEMMA NextShared ==
  ASSUME SharedIInv, NEW t \in QueueThreads,
         Shared!Step(t) \/ Shared!Lock(t) \/ Shared!SpuriousWakeup(t)
  PROVE  SharedIInv'
<1> DEFINE labels == {"idle", "lock", "lockWait", "drain", "drainWait", "write",
                      "lock_shared", "sharedWait", "read"}
           drains == {"write", "drain", "drainWait"}
<1>1. mReader \in Nat /\ mWriter \in BOOLEAN /\ sharedPc \in [QueueThreads -> labels]
  BY DEF SharedIInv, Shared!TypeOK
<1>2. /\ mReader = Cardinality(Reading) /\ (mWriter <=> Writing # {})
      /\ \A u, v \in Writing : u = v
      /\ Shared!In("write") # {} => Reading = {}
  BY DEF SharedIInv
<1>3. IsFiniteSet(Reading)
  BY ONLY ThreadsFinite, FS_Subset DEF Reading, Shared!In
<1>4. Writing = {u \in QueueThreads : sharedPc[u] \in drains}
  BY DEF Writing, Shared!In
<1>5. Writing' = {u \in QueueThreads : sharedPc'[u] \in drains}
  BY DEF Writing, Shared!In
<1>6. \A u \in QueueThreads :
        /\ Shared!Awake(sharedPc[u]) \in labels
        /\ Shared!Awake(sharedPc[u]) \in drains <=> sharedPc[u] \in drains
        /\ \A l \in {"write", "read"} : Shared!Awake(sharedPc[u]) = l <=> sharedPc[u] = l
  BY ONLY <1>1 DEF Shared!Awake
<1>7. ASSUME sharedPc' \in [QueueThreads -> labels], UNCHANGED <<mReader, mWriter>>,
             \A u \in QueueThreads : /\ sharedPc'[u] \in drains <=> sharedPc[u] \in drains
                                     /\ sharedPc'[u] = "read" <=> sharedPc[u] = "read"
                                     /\ sharedPc'[u] = "write" =>
                                          sharedPc[u] = "write" \/ mReader = 0
      PROVE  SharedIInv'
  <2>1. Writing' = Writing /\ Reading' = Reading
    BY ONLY <1>4, <1>5, <1>7 DEF Reading, Shared!In
  <2>2. mReader = 0 => Reading = {}
    BY ONLY <1>2, <1>3, FS_EmptySet
  <2>3. Shared!In("write")' # {} => Reading = {}
    BY ONLY <1>2, <1>7, <2>2 DEF Shared!In
  <2> QED BY ONLY <1>1, <1>2, <1>7, <2>1, <2>3 DEF SharedIInv, Shared!TypeOK
<1>8. ASSUME Shared!notify_all(t), sharedPc[t] \in {"read", "write"}
      PROVE  /\ sharedPc' \in [QueueThreads -> labels] /\ sharedPc'[t] = "idle"
             /\ \A u \in QueueThreads \ {t} :
                  /\ sharedPc'[u] \in drains <=> sharedPc[u] \in drains
                  /\ \A l \in {"write", "read"} : sharedPc'[u] = l <=> sharedPc[u] = l
  BY ONLY <1>1, <1>6, <1>8 DEF Shared!notify_all
<1>a. CASE Shared!Lock(t)
  BY ONLY <1>1, <1>7, <1>a DEF Shared!Lock, Shared!Goto
<1>b. CASE Shared!announce(t) /\ mWriter
  BY ONLY <1>1, <1>7, <1>b DEF Shared!announce, Shared!Goto
<1>c. CASE Shared!announce(t) /\ ~mWriter
  <2>1. /\ sharedPc[t] = "lock" /\ mWriter' = TRUE /\ mReader' = mReader
        /\ sharedPc' = [sharedPc EXCEPT ![t] = IF mReader = 0 THEN "write" ELSE "drainWait"]
    BY ONLY <1>c DEF Shared!announce, Shared!Goto
  <2>2. Writing = {} /\ Writing' = {t} /\ Reading' = Reading
    BY ONLY <1>1, <1>2, <1>4, <1>5, <1>c, <2>1 DEF Reading, Shared!In
  <2>3. mReader = 0 => Reading = {}
    BY ONLY <1>2, <1>3, FS_EmptySet
  <2>4. Shared!In("write")' # {} => mReader = 0
    BY ONLY <1>1, <1>4, <2>1, <2>2 DEF Shared!In
  <2>5. Shared!TypeOK'
    BY ONLY <1>1, <2>1 DEF Shared!TypeOK
  <2> QED BY ONLY <1>2, <2>1, <2>2, <2>3, <2>4, <2>5 DEF SharedIInv
<1>d. CASE Shared!drain(t)
  BY ONLY <1>1, <1>7, <1>d DEF Shared!drain, Shared!Goto
<1>e. CASE Shared!lock_shared(t) /\ mWriter
  BY ONLY <1>1, <1>7, <1>e DEF Shared!lock_shared, Shared!Goto
<1>f. CASE Shared!lock_shared(t) /\ ~mWriter
  <2>1. /\ sharedPc[t] = "lock_shared" /\ mWriter' = mWriter /\ mReader' = mReader + 1
        /\ sharedPc' = [sharedPc EXCEPT ![t] = "read"]
    BY ONLY <1>f DEF Shared!lock_shared, Shared!Goto
  <2>2. Writing = {} /\ Writing' = {}
    BY ONLY <1>1, <1>2, <1>4, <1>5, <1>f, <2>1
  <2>3. Reading' = Reading \cup {t} /\ t \notin Reading
    BY ONLY <1>1, <2>1 DEF Reading, Shared!In
  <2>4. Cardinality(Reading') = Cardinality(Reading) + 1
    BY ONLY <1>3, <2>3, FS_AddElement
  <2>5. Shared!In("write")' = {}
    BY ONLY <2>2 DEF Writing
  <2>6. Shared!TypeOK'
    BY ONLY <1>1, <2>1 DEF Shared!TypeOK
  <2> QED BY ONLY <1>2, <2>1, <2>2, <2>4, <2>5, <2>6 DEF SharedIInv
<1>g. CASE Shared!unlock(t)
  <2>1. /\ sharedPc[t] = "write" /\ mWriter' = FALSE /\ mReader' = mReader
        /\ Shared!notify_all(t)
    BY ONLY <1>g DEF Shared!unlock
  <2>2. Writing = {t}
    BY ONLY <1>2, <1>4, <2>1
  <2>3. Writing' = {} /\ Reading' = Reading
    BY ONLY <1>4, <1>5, <1>8, <2>1, <2>2 DEF Reading, Shared!In
  <2>4. Shared!In("write")' = {}
    BY ONLY <2>3 DEF Writing
  <2>5. Shared!TypeOK'
    BY ONLY <1>1, <1>8, <2>1 DEF Shared!TypeOK
  <2> QED BY ONLY <1>2, <2>1, <2>3, <2>4, <2>5 DEF SharedIInv
<1>h. CASE Shared!unlock_shared(t)
  <2>1. /\ sharedPc[t] = "read" /\ mReader' = mReader - 1 /\ mWriter' = mWriter
        /\ Shared!notify_all(t)
    BY ONLY <1>h DEF Shared!unlock_shared
  <2>2. t \in Reading /\ t \notin Writing
    BY ONLY <1>4, <2>1 DEF Reading, Shared!In
  <2>3. Writing' = Writing /\ Reading' = Reading \ {t}
    BY ONLY <1>4, <1>5, <1>8, <2>1, <2>2 DEF Reading, Shared!In
  <2>4. Cardinality(Reading') = Cardinality(Reading) - 1 /\ Cardinality(Reading) \in Nat \ {0}
    BY ONLY <1>3, <2>2, <2>3, OneLess
  <2>5. Shared!In("write")' # {} => Shared!In("write") # {}
    BY ONLY <1>8, <2>1 DEF Shared!In
  <2>6. Shared!TypeOK'
    BY ONLY <1>1, <1>2, <1>8, <2>1, <2>4 DEF Shared!TypeOK
  <2> QED BY ONLY <1>2, <2>1, <2>2, <2>3, <2>4, <2>5, <2>6 DEF SharedIInv
<1>i. CASE Shared!SpuriousWakeup(t)
  <2>1. sharedPc' = [sharedPc EXCEPT ![t] = Shared!Awake(sharedPc[t])]
        /\ UNCHANGED <<mReader, mWriter>>
    BY ONLY <1>i DEF Shared!SpuriousWakeup, Shared!Goto
  <2> QED BY ONLY <1>1, <1>6, <1>7, <2>1
<1> QED BY <1>1, <1>a, <1>b, <1>c, <1>d, <1>e, <1>f, <1>g, <1>h, <1>i DEF Shared!Step

-----------------------------------------------------------------------------
(* Tickets and the slots of a ring.                                        *)
LEMMA Remainder ==
  ASSUME NEW n \in Nat \ {0}, NEW k \in Int
  PROVE  /\ k % n \in 0 .. n - 1
         /\ \E q \in Int : k = n * q + (k % n)
<1> DEFINE p == k \div n
<1>1. k = n * p + (k % n) /\ p \in Int
  OBVIOUS
<1>2. k % n \in 0 .. n - 1
  OBVIOUS
<1> HIDE DEF p
<1> QED BY ONLY <1>1, <1>2

LEMMA RemainderOf ==
  ASSUME NEW n \in Nat \ {0}, NEW q \in Int, NEW r \in 0 .. n - 1, NEW k \in Int, k = n * q + r
  PROVE  k % n = r
BY Z3T(30)

(* Tickets Capacity apart share a slot, and those less apart do not.       *)
LEMMA SlotOfTicket ==
  ASSUME NEW n \in Nat \ {0}, NEW k \in Int
  PROVE  /\ k % n \in 0 .. n - 1
         /\ (k - n) % n = k % n
         /\ ((k % n) + 1) % n = (k + 1) % n
<1>1. PICK q \in Int : k = n * q + (k % n)
  BY ONLY Remainder
<1>2. k % n \in 0 .. n - 1
  BY ONLY Remainder
<1> DEFINE r == k % n
<1>3. r \in 0 .. n - 1 /\ k = n * q + r
  BY ONLY <1>1, <1>2
<1> HIDE DEF r
<1>4. k - n = n * (q - 1) + r /\ k - n \in Int /\ q - 1 \in Int
  BY ONLY <1>3
<1>5. (k - n) % n = r
  BY ONLY <1>3, <1>4, RemainderOf
<1>6. ASSUME NEW x \in Int, x = k + 1, NEW s \in 0 .. n, s = r + 1
      PROVE  s % n = x % n
  <2>1. CASE s # n
    <3>1. s \in 0 .. n - 1 /\ x = n * q + s
      BY ONLY <1>3, <1>6, <2>1
    <3>2. x % n = s
      BY ONLY <3>1, RemainderOf
    <3>3. s % n = s
      BY ONLY <3>1
    <3> QED BY ONLY <3>2, <3>3
  <2>2. CASE s = n
    <3> DEFINE p == q + 1
    <3>1. n * p = n * q + n
      OBVIOUS
    <3>2. p \in Int /\ x = n * p + 0 /\ 0 \in 0 .. n - 1
      BY ONLY <1>3, <1>6, <2>2, <3>1
    <3> HIDE DEF p
    <3>3. x % n = 0
      BY ONLY <3>2, RemainderOf
    <3>4. s % n = 0
      BY ONLY <2>2
    <3> QED BY ONLY <3>3, <3>4
  <2> QED BY ONLY <2>1, <2>2
<1>7. (r + 1) % n = (k + 1) % n
  BY ONLY <1>3, <1>6
<1> QED BY ONLY <1>2, <1>5, <1>7 DEF r

LEMMA SlotsApart ==
  ASSUME NEW n \in Nat \ {0}, NEW j \in Int, NEW k \in Int, j < k, k < j + n
  PROVE  j % n # k % n
<1> SUFFICES ASSUME j % n = k % n PROVE FALSE
  OBVIOUS
<1>1. PICK p \in Int : j = n * p + (j % n)
  BY ONLY Remainder
<1>2. PICK q \in Int : k = n * q + (j % n)
  BY Remainder
<1>3. k - j = n * q - n * p
  BY ONLY <1>1, <1>2, Remainder
<1>4. CASE q <= p
  BY <1>3, <1>4
<1>5. CASE q >= p + 1
  <2>1. n * q >= n * p + n
    BY ONLY <1>5
  <2> QED BY <1>3, <2>1
<1> QED BY ONLY <1>4, <1>5

-----------------------------------------------------------------------------
(* ArrayQueueLock.  The tickets below served are done with.  The flags that  *)
(* were reset last are those of the Capacity tickets below resets.  The last *)
(* store of a flag is a reset, or else the one before it.                  *)
served == arrayTail - Len(queue)
Granting == queue # <<>> /\ queuePc[queue[1]] = "grant"
resets == IF Granting THEN served + 1 ELSE served
LastReset(stores) == IF Last(stores).flag THEN Len(stores) - 1 ELSE Len(stores)
SeesAll(v) == v[Array!Data] = written /\ \A s \in Array!Slots : v[s] = Len(mFlag[s])

(* The threads that know of the last reset of a flag, or wait for the lock;  *)
(* as long as the next ticket does not carry that reset, they are as many   *)
(* as the tickets drawn since.                                             *)
Knowing(s) == {t \in QueueThreads : view[t][s] >= LastReset(mFlag[s]) \/ queuePc[t] # "out"}

ResetKnown ==
  \A k \in resets - Capacity .. resets - 1 :
    LET s == k % Capacity
    IN  tailView[s] >= LastReset(mFlag[s]) \/ arrayTail - k <= Cardinality(Knowing(s))

ArrayViews ==
  /\ \A t \in QueueThreads, s \in Array!Slots : view[t][s] \in 1 .. Len(mFlag[s])
  /\ \A t \in QueueThreads : view[t][Array!Data] <= written
  /\ \A s \in Array!Slots : tailView[s] \in 1 .. Len(mFlag[s])
  /\ tailView[Array!Data] <= written

ArrayFlags ==
  /\ \A s \in Array!Slots : /\ Len(mFlag[s]) > 0
                            /\ Last(mFlag[s]).flag <=> ~Granting /\ s = served % Capacity
                            /\ Last(mFlag[s]).flag /\ Len(mFlag[s]) > 1 =>
                                 ~mFlag[s][Len(mFlag[s]) - 1].flag
  /\ \A i \in 1 .. Len(queue) : sIndex[queue[i]] = (served + i - 1) % Capacity
  /\ served >= 0

(* Who spins has seen the last reset of its flag.  Whoever is inside sees    *)
(* everything; as long as nobody is, the store that lets the next thread in *)
(* carries all that.                                                       *)
ArraySeen ==
  /\ \A t \in QueueThreads : queuePc[t] = "spin" => view[t][sIndex[t]] >= LastReset(mFlag[sIndex[t]])
  /\ \A t \in Array!Inside : SeesAll(view[t])
  /\ Array!Inside = {} => SeesAll(Last(mFlag[served % Capacity]).view)

ArrayIInv ==
  /\ Array!TypeOK /\ InQueue({"out"})
  /\ ArrayFlags /\ ArrayViews /\ ArraySeen /\ ResetKnown

(* As many threads as a queue is long.                                     *)
LEMMA QueueSize ==
  ASSUME NEW q \in Seq(QueueThreads), Distinct(q), NEW S \in SUBSET QueueThreads,
         \A i \in 1 .. Len(q) : q[i] \in S
  PROVE  /\ IsFiniteSet(S) /\ Cardinality(S) \in Nat /\ Cardinality(S) <= Cardinality(QueueThreads)
         /\ Len(q) \in Nat /\ Len(q) <= Cardinality(S)
<1>1. IsFiniteSet(S) /\ Cardinality(S) \in Nat /\ Cardinality(S) <= Cardinality(QueueThreads)
  BY ONLY ThreadsFinite, FS_Subset, FS_CardinalityType
<1>2. Len(q) \in Nat /\ q \in [1 .. Len(q) -> QueueThreads]
  BY ONLY LenProperties
<1>3. q \in Injection(1 .. Len(q), S)
  BY <1>2 DEF Injection, IsInjective, Distinct
<1>4. Cardinality(1 .. Len(q)) = Len(q)
  <2> DEFINE n == Len(q)
  <2>1. n \in Int /\ n \in Nat
    BY ONLY <1>2
  <2> HIDE DEF n
  <2>2. Cardinality(1 .. n) = IF 1 > n THEN 0 ELSE n - 1 + 1
    BY ONLY <2>1, FS_Interval
  <2> QED BY ONLY <2>1, <2>2 DEF n
<1>5. Cardinality(1 .. Len(q)) <= Cardinality(S)
  BY ONLY <1>1, <1>3, FS_Injection
<1> QED BY ONLY <1>1, <1>2, <1>4, <1>5

LEMMA JoinViews ==
  ASSUME NEW v \in Array!Views, NEW w \in Array!Views
  PROVE  /\ Array!Join(v, w) \in Array!Views
         /\ \A l \in Array!Slots \cup {Array!Data} :
              Array!Join(v, w)[l] = IF v[l] > w[l] THEN v[l] ELSE w[l]
BY DEF Array!Join, Array!Views

LEMMA ArraySize ==
  /\ Capacity \in Nat \ {0} /\ Cardinality(QueueThreads) <= Capacity
  /\ Array!Slots = 0 .. Capacity - 1 /\ Array!Data \notin Array!Slots
  /\ \A k \in Int : k % Capacity \in Array!Slots
<1>1. Capacity \in Nat /\ Cardinality(QueueThreads) <= Capacity
  BY ONLY LockAssumptions, SameFiniteSets DEF Array!EnoughSlots
<1>2. Capacity \in Nat \ {0}
  BY ONLY <1>1, ThreadsFinite
<1>3. \A k \in Int : k % Capacity \in 0 .. Capacity - 1
  BY ONLY <1>2, Remainder
<1> QED BY ONLY <1>1, <1>2, <1>3 DEF Array!Slots, Array!Data

LEMMA InitArray == lock = "array" /\ Array!Init => ArrayIInv /\ Inside = {}
<1> SUFFICES ASSUME lock = "array", Array!Init PROVE ArrayIInv /\ Inside = {}
  OBVIOUS
<1>1. /\ Capacity \in Nat \ {0} /\ Array!Slots = 0 .. Capacity - 1 /\ 0 \in Array!Slots
      /\ Array!Data \notin Array!Slots /\ \A k \in Int : k % Capacity \in Array!Slots
  BY ONLY ArraySize
<1>2. Array!First \in Array!Views
  BY DEF Array!First, Array!Views
<1>0. arrayTail = 0 /\ queue = <<>> /\ Len(queue) = 0
  BY DEF Array!Init
<1>3. /\ tailView = Array!First /\ written = 0
      /\ mFlag = [s \in Array!Slots |-> <<[flag |-> s = 0, view |-> Array!First]>>]
      /\ view = [t \in QueueThreads |-> Array!First]
      /\ sIndex = [t \in QueueThreads |-> 0] /\ queuePc = [t \in QueueThreads |-> "out"]
  BY DEF Array!Init
<1>4. \A s \in Array!Slots : /\ mFlag[s] \in Seq([flag : BOOLEAN, view : Array!Views])
                             /\ Len(mFlag[s]) = 1 /\ mFlag[s][1].flag = (s = 0)
                             /\ mFlag[s][1].view = Array!First
  BY ONLY <1>2, <1>3
<1>5. Array!TypeOK
  BY ONLY <1>1, <1>2, <1>0, <1>3, <1>4 DEF Array!TypeOK
<1>6. Array!Inside = {} /\ Inside = {}
  BY <1>3 DEF Array!Inside, Inside
<1>7. InQueue({"out"})
  BY ONLY <1>0, <1>3, <1>6, InitQueue
<1>8. served = 0 /\ ~Granting /\ resets = 0
  <2>1. served = 0
    <3>1. arrayTail = 0 /\ Len(queue) = 0
      BY ONLY <1>0
    <3> QED BY ONLY <3>1 DEF served
  <2>2. ~Granting
    BY ONLY <1>0 DEF Granting
  <2> QED BY ONLY <2>1, <2>2 DEF resets
<1>9. 0 % Capacity = 0
  BY ONLY <1>1
<1>10. ArrayFlags
  <2>1. \A s \in Array!Slots : Len(mFlag[s]) = 1 /\ (Last(mFlag[s]).flag <=> s = 0)
    BY ONLY <1>4 DEF Last
  <2>2. Len(queue) = 0
    BY ONLY <1>0
  <2>3. ASSUME NEW s \in Array!Slots PROVE ~(Len(mFlag[s]) > 1) /\ Len(mFlag[s]) > 0
    <3>1. Len(mFlag[s]) = 1
      BY ONLY <2>1
    <3> QED BY ONLY <3>1
  <2>4. 1 .. Len(queue) = {}
    BY ONLY <2>2
  <2> QED BY ONLY <1>8, <1>9, <2>1, <2>3, <2>4 DEF ArrayFlags
<1>11. /\ Array!First[Array!Data] = 0
       /\ \A s \in Array!Slots : Array!First[s] = 1
  BY ONLY <1>1 DEF Array!First
<1>12. ArrayViews
  BY ONLY <1>3, <1>4, <1>11 DEF ArrayViews
<1>13. SeesAll(Array!First)
  BY ONLY <1>3, <1>4, <1>11 DEF SeesAll
<1>14. ArraySeen
  BY ONLY <1>1, <1>3, <1>4, <1>6, <1>8, <1>9, <1>13 DEF ArraySeen, Last
<1>15. ResetKnown
  <2>1. \A s \in Array!Slots : tailView[s] >= LastReset(mFlag[s])
    BY ONLY <1>3, <1>4, <1>11 DEF LastReset, Last
  <2>2. \A k \in resets - Capacity .. resets - 1 : k % Capacity \in Array!Slots
    <3>1. \A k \in resets - Capacity .. resets - 1 : k \in Int
      BY ONLY <1>8, ArraySize
    <3> QED BY ONLY <1>1, <3>1
  <2> QED BY ONLY <2>1, <2>2 DEF ResetKnown
<1> QED BY ONLY <1>5, <1>6, <1>7, <1>10, <1>12, <1>14, <1>15 DEF ArrayIInv

LEMMA ArrayNoRace == ArrayIInv => Array!NoRace
<1> SUFFICES ASSUME ArrayIInv, NEW t \in Array!Inside
             PROVE  LET s == IF queuePc[t] = "grant" THEN (sIndex[t] + 1) % Capacity ELSE sIndex[t]
                    IN  view[t][Array!Data] = written /\ view[t][s] = Len(mFlag[s])
  BY DEF Array!NoRace
<1>1. SeesAll(view[t])
  BY DEF ArrayIInv, ArraySeen
<1>2. sIndex[t] \in Array!Slots
  BY DEF ArrayIInv, Array!TypeOK, Array!Inside
<1>3. (sIndex[t] + 1) % Capacity \in Array!Slots
  <2>1. sIndex[t] + 1 \in Int
    <3>1. sIndex[t] \in 0 .. Capacity - 1 /\ Capacity \in Nat
      BY ONLY <1>2, ArraySize
    <3> QED BY ONLY <3>1
  <2> QED BY ONLY <2>1, ArraySize
<1> QED BY ONLY <1>1, <1>2, <1>3 DEF SeesAll

LEMMA NextArray ==
  ASSUME lock = "array", ArrayIInv, lock' = lock,
         NEW t \in QueueThreads, Array!Step(t) \/ Array!Lock(t)
  PROVE  ArrayIInv' /\ [Fifo!Next]_<<queue, Inside>>
<1> DEFINE S == Array!Slots
           D == Array!Data
           stores == Seq([flag : BOOLEAN, view : Array!Views])
           labels == {"out", "spin", "in", "reset", "grant"}
<1>1. Capacity \in Nat \ {0} /\ Cardinality(QueueThreads) <= Capacity
  BY ONLY ArraySize
<1>16. S = 0 .. Capacity - 1 /\ D \notin S
  BY ONLY ArraySize
<1>17. \A k \in Int : k % Capacity \in S
  BY ONLY ArraySize
<1>18. Capacity \in Nat \ {0}
  BY ONLY <1>1
<1>2. /\ arrayTail \in Nat /\ written \in Nat /\ tailView \in Array!Views
      /\ view \in [QueueThreads -> Array!Views] /\ sIndex \in [QueueThreads -> S]
      /\ queuePc \in [QueueThreads -> labels]
  BY DEF ArrayIInv, Array!TypeOK
<1>3. /\ mFlag \in [S -> stores]
      /\ \A s \in S : mFlag[s] \in stores /\ Len(mFlag[s]) \in Nat \ {0}
  <2>1. mFlag \in [S -> stores]
    BY DEF ArrayIInv, Array!TypeOK
  <2>2. ASSUME NEW s \in S PROVE mFlag[s] \in stores /\ Len(mFlag[s]) \in Nat \ {0}
    <3>1. mFlag[s] \in stores /\ Len(mFlag[s]) > 0
      BY <2>1 DEF ArrayIInv, ArrayFlags
    <3> QED BY ONLY <3>1, LenProperties
  <2> QED BY ONLY <2>1, <2>2
<1>4. InQueue({"out"}) /\ queue \in Seq(QueueThreads) /\ Distinct(queue) /\ Len(queue) \in Nat
  BY LenProperties DEF ArrayIInv, InQueue
<1>5. Inside = Array!Inside /\ Inside' = Array!Inside'
  BY DEF Inside
<1>6. \A i \in 1 .. Len(queue) : queue[i] \in QueueThreads /\ queuePc[queue[i]] # "out"
  <2> SUFFICES ASSUME NEW i \in 1 .. Len(queue)
               PROVE  queue[i] \in QueueThreads /\ queuePc[queue[i]] # "out"
    OBVIOUS
  <2>1. queue[i] \in QueueThreads
    BY ONLY <1>4, ElementOfSeq
  <2>2. Contains(queue, queue[i])
    BY DEF Contains
  <2> QED BY ONLY <1>4, <2>1, <2>2 DEF InQueue
<1>7. ASSUME queuePc[t] \in {"in", "reset", "grant"}
      PROVE  queue # <<>> /\ queue[1] = t /\ Inside = {t} /\ Len(queue) \in Nat \ {0}
  BY ONLY <1>4, <1>5, <1>7, EmptySeq DEF InQueue, Array!Inside
<1>8. /\ served \in Nat /\ served + Len(queue) = arrayTail
      /\ resets \in Nat /\ resets \in {served, served + 1}
  <2>1. arrayTail - Len(queue) >= 0
    BY DEF ArrayIInv, ArrayFlags, served
  <2>2. served \in Nat /\ served + Len(queue) = arrayTail
    BY ONLY <1>2, <1>4, <2>1 DEF served
  <2> QED BY ONLY <2>2 DEF resets
<1>19. arrayTail \in Int
  BY ONLY <1>2
<1>20. served \in Int
  BY ONLY <1>8
<1>9. Len(queue) <= Cardinality(QueueThreads) /\ Len(queue) <= Capacity
  BY ONLY <1>1, <1>4, <1>6, QueueSize, ThreadsFinite
(* The parts of the invariant.                                             *)
<1>10. \A s \in S : /\ Last(mFlag[s]).flag <=> ~Granting /\ s = served % Capacity
                    /\ Last(mFlag[s]).flag /\ Len(mFlag[s]) > 1 => ~mFlag[s][Len(mFlag[s]) - 1].flag
  BY DEF ArrayIInv, ArrayFlags
<1>11. \A i \in 1 .. Len(queue) : sIndex[queue[i]] = (served + i - 1) % Capacity
  BY DEF ArrayIInv, ArrayFlags
<1>12. /\ \A u \in QueueThreads, s \in S : view[u][s] \in 1 .. Len(mFlag[s])
       /\ \A u \in QueueThreads : view[u][D] <= written
       /\ \A s \in S : tailView[s] \in 1 .. Len(mFlag[s])
       /\ tailView[D] <= written
  BY DEF ArrayIInv, ArrayViews
<1>13. /\ \A u \in QueueThreads :
            queuePc[u] = "spin" => view[u][sIndex[u]] >= LastReset(mFlag[sIndex[u]])
       /\ \A u \in Inside : SeesAll(view[u])
       /\ Inside = {} => SeesAll(Last(mFlag[served % Capacity]).view)
  BY <1>5 DEF ArrayIInv, ArraySeen
<1>14. \A k \in resets - Capacity .. resets - 1 :
         \/ tailView[k % Capacity] >= LastReset(mFlag[k % Capacity])
         \/ arrayTail - k <= Cardinality(Knowing(k % Capacity))
  BY DEF ArrayIInv, ResetKnown
<1>15. \A s \in S : LastReset(mFlag[s]) \in Nat
  BY ONLY <1>3 DEF LastReset
<1>a. CASE Array!Lock(t)
  <2> DEFINE s == arrayTail % Capacity
  <2>1. /\ queuePc[t] = "out" /\ queuePc' = [queuePc EXCEPT ![t] = "spin"]
        /\ sIndex' = [sIndex EXCEPT ![t] = s] /\ arrayTail' = arrayTail + 1
        /\ tailView' = Array!Join(view[t], tailView) /\ view' = [view EXCEPT ![t] = tailView']
        /\ queue' = Append(queue, t) /\ UNCHANGED <<mFlag, written>>
    BY ONLY <1>a DEF Array!Lock, Array!Goto
  <2>2. Inside' = Inside
    BY ONLY <1>2, <1>5, <2>1 DEF Array!Inside
  <2>3. /\ InQueue({"out"})' /\ [Fifo!Next]_<<queue, Inside>> /\ queue' \in Seq(QueueThreads)
        /\ Len(queue') = Len(queue) + 1 /\ queue'[Len(queue')] = t /\ queue' # <<>>
        /\ queue'[1] = IF queue = <<>> THEN t ELSE queue[1]
        /\ \A i \in 1 .. Len(queue) : queue'[i] = queue[i] /\ queue[i] \in QueueThreads \ {t}
    BY ONLY <1>2, <1>4, <2>1, <2>2, Joins
  <2>4. served' = served
    <3>1. Len(queue') = Len(queue) + 1
      BY ONLY <2>3
    <3> QED BY ONLY <1>2, <1>4, <2>1, <3>1 DEF served
  <2>5. Granting' <=> Granting
    <3>1. CASE queue = <<>>
      <4>1. queue' # <<>> /\ queue'[1] = t /\ queuePc'[t] = "spin"
        BY ONLY <1>2, <2>1, <2>3, <3>1
      <4> QED BY ONLY <3>1, <4>1 DEF Granting
    <3>2. CASE queue # <<>>
      <4>1. 1 \in 1 .. Len(queue)
        BY ONLY <1>4, <3>2, EmptySeq
      <4>2. queue'[1] = queue[1] /\ queue[1] \in QueueThreads \ {t} /\ queue' # <<>>
        BY ONLY <2>3, <4>1
      <4>3. queuePc'[queue[1]] = queuePc[queue[1]]
        BY ONLY <1>2, <2>1, <4>2
      <4> QED BY ONLY <3>2, <4>2, <4>3 DEF Granting
    <3> QED BY ONLY <3>1, <3>2
  <2>6. resets' = resets
    BY ONLY <2>4, <2>5 DEF resets
  <2>7. \A r \in S : Last(mFlag'[r]) = Last(mFlag[r]) /\ LastReset(mFlag'[r]) = LastReset(mFlag[r])
    BY ONLY <2>1 DEF Last, LastReset
  <2>8. s \in S
    BY ONLY <1>17, <1>19
  <2>9. /\ tailView' \in Array!Views /\ view' \in [QueueThreads -> Array!Views]
        /\ \A l \in S \cup {D} : /\ tailView'[l] = IF view[t][l] > tailView[l]
                                                   THEN view[t][l] ELSE tailView[l]
                                 /\ view'[t][l] = tailView'[l]
        /\ \A u \in QueueThreads \ {t} : view'[u] = view[u]
    <3>1. view[t] \in Array!Views
      BY ONLY <1>2
    <3> QED BY ONLY <1>2, <2>1, <3>1, JoinViews
  <2>10. view \in [QueueThreads -> [S \cup {D} -> Nat]] /\ tailView \in [S \cup {D} -> Nat]
    BY ONLY <1>2 DEF Array!Views
  <2>11. Array!TypeOK'
    <3>1. queue' \in Seq(QueueThreads) /\ arrayTail' \in Nat
      BY ONLY <1>2, <2>1, <2>3
    <3> QED BY ONLY <1>2, <1>3, <2>1, <2>8, <2>9, <3>1 DEF Array!TypeOK
  <2>12. ArrayFlags'
    <3>1. ASSUME NEW i \in 1 .. Len(queue')
          PROVE  sIndex'[queue'[i]] = (served + i - 1) % Capacity
      <4>1. CASE i = Len(queue) + 1
        <5>1. queue'[i] = t /\ served + i - 1 = arrayTail
          BY ONLY <1>2, <1>4, <1>8, <2>3, <4>1
        <5> QED BY ONLY <1>2, <2>1, <5>1
      <4>2. CASE i # Len(queue) + 1
        <5>1. i \in 1 .. Len(queue)
          BY ONLY <1>4, <2>3, <4>2
        <5>2. queue'[i] = queue[i] /\ queue[i] \in QueueThreads \ {t}
          BY ONLY <2>3, <5>1
        <5> QED BY ONLY <1>2, <1>11, <2>1, <5>1, <5>2
      <4> QED BY ONLY <4>1, <4>2
    <3>2. \A r \in S : Len(mFlag[r]) > 0
      BY ONLY <1>3
    <3> QED BY ONLY <1>8, <1>10, <2>1, <2>4, <2>5, <2>7, <3>1, <3>2 DEF ArrayFlags
  <2>13. ArrayViews'
    <3>1. \A r \in S : tailView'[r] \in 1 .. Len(mFlag[r])
      BY ONLY <1>12, <2>9
    <3>2. tailView'[D] <= written
      BY ONLY <1>12, <2>9
    <3> QED BY ONLY <1>12, <2>1, <2>9, <3>1, <3>2 DEF ArrayViews
  <2>14. view'[t][s] >= LastReset(mFlag[s])
    <3> DEFINE k == arrayTail - Capacity
    <3>1. k % Capacity = s
      BY ONLY <1>18, <1>19, SlotOfTicket
    <3>2. /\ IsFiniteSet(QueueThreads \ {t})
          /\ Cardinality(QueueThreads \ {t}) = Cardinality(QueueThreads) - 1
          /\ Cardinality(QueueThreads) \in Nat
        <4>1. IsFiniteSet(QueueThreads) /\ t \in QueueThreads
        BY ONLY ThreadsFinite
      <4>2. /\ Cardinality(QueueThreads) \in Nat \ {0}
            /\ Cardinality(QueueThreads \ {t}) = Cardinality(QueueThreads) - 1
        BY ONLY <4>1, OneLess
      <4>3. IsFiniteSet(QueueThreads \ {t})
        BY ONLY <4>1, FS_Subset
      <4> QED BY ONLY <4>2, <4>3
    <3>3. Len(queue) <= Cardinality(QueueThreads) - 1
      BY ONLY <1>4, <2>3, <3>2, QueueSize
    <3>4. Granting => Len(queue) >= 1
      BY ONLY <1>4, EmptySeq DEF Granting
    <3>5. k \in resets - Capacity .. resets - 1
      BY ONLY <1>1, <1>2, <1>4, <1>8, <3>2, <3>3, <3>4 DEF resets
    <3>6. CASE tailView[s] >= LastReset(mFlag[s])
      BY ONLY <1>15, <2>8, <2>9, <2>10, <3>6
    <3>7. CASE ~(tailView[s] >= LastReset(mFlag[s]))
      <4>1. arrayTail - k <= Cardinality(Knowing(s))
        BY ONLY <1>14, <3>1, <3>5, <3>7
      <4>2. Capacity <= Cardinality(Knowing(s))
        BY ONLY <1>1, <1>2, <4>1
      <4>3. t \in Knowing(s)
        <5> SUFFICES ASSUME t \notin Knowing(s) PROVE FALSE
          OBVIOUS
        <5>1. Knowing(s) \in SUBSET (QueueThreads \ {t})
          BY DEF Knowing
        <5>2. Cardinality(Knowing(s)) \in Nat /\ Cardinality(Knowing(s)) <= Cardinality(QueueThreads \ {t})
          BY ONLY <3>2, <5>1, FS_Subset, FS_CardinalityType
        <5> QED BY ONLY <1>1, <3>2, <4>2, <5>2
      <4>4. view[t][s] >= LastReset(mFlag[s])
        BY ONLY <2>1, <4>3 DEF Knowing
      <4> QED BY ONLY <1>15, <2>8, <2>9, <2>10, <4>4
    <3> QED BY ONLY <3>6, <3>7
  <2>15. ArraySeen'
    <3>1. ASSUME NEW u \in QueueThreads, queuePc'[u] = "spin"
          PROVE  view'[u][sIndex'[u]] >= LastReset(mFlag'[sIndex'[u]])
      <4>1. CASE u = t
        BY ONLY <1>2, <2>1, <2>7, <2>8, <2>14, <4>1
      <4>2. CASE u # t
        <5>1. queuePc[u] = "spin" /\ sIndex'[u] = sIndex[u] /\ view'[u] = view[u] /\ sIndex[u] \in S
          BY ONLY <1>2, <2>1, <2>9, <3>1, <4>2
        <5> QED BY ONLY <1>13, <2>7, <5>1
      <4> QED BY ONLY <4>1, <4>2
    <3>2. \A u \in Inside : u # t /\ SeesAll(view[u])'
      BY ONLY <1>2, <1>5, <1>13, <2>1, <2>9 DEF SeesAll, Array!Inside
    <3>3. served % Capacity \in S
      BY ONLY <1>17, <1>20
    <3>4. Inside = {} => SeesAll(Last(mFlag[served % Capacity]).view)'
      BY ONLY <1>13, <2>1, <2>4, <2>7, <3>3 DEF SeesAll
    <3> QED BY ONLY <1>5, <2>2, <2>4, <3>1, <3>2, <3>4 DEF ArraySeen
  <2>16. ResetKnown'
    <3> SUFFICES ASSUME NEW k \in resets - Capacity .. resets - 1
                 PROVE  \/ tailView'[k % Capacity] >= LastReset(mFlag'[k % Capacity])
                        \/ arrayTail' - k <= Cardinality(Knowing(k % Capacity)')
      BY <2>6 DEF ResetKnown
    <3> DEFINE r == k % Capacity
    <3>1. k \in Int /\ r \in S
      <4>1. k \in Int
        BY ONLY <1>8, <1>18
      <4> QED BY ONLY <1>17, <4>1
    <3>2. CASE tailView[r] >= LastReset(mFlag[r]) \/ view[t][r] >= LastReset(mFlag[r])
      <4>1. tailView'[r] >= LastReset(mFlag[r])
        BY ONLY <1>15, <2>9, <2>10, <3>1, <3>2
      <4> QED BY ONLY <2>7, <3>1, <4>1
    <3>3. CASE ~(tailView[r] >= LastReset(mFlag[r]) \/ view[t][r] >= LastReset(mFlag[r]))
      <4>1. t \notin Knowing(r)
        BY ONLY <2>1, <3>3 DEF Knowing
      <4>2. Knowing(r) \cup {t} \in SUBSET Knowing(r)'
        BY ONLY <1>2, <2>1, <2>7, <2>9, <3>1 DEF Knowing
      <4>3. IsFiniteSet(Knowing(r)) /\ IsFiniteSet(Knowing(r)')
        BY ONLY ThreadsFinite, FS_Subset DEF Knowing
      <4>4. /\ Cardinality(Knowing(r)) \in Nat /\ Cardinality(Knowing(r)') \in Nat
            /\ Cardinality(Knowing(r)) + 1 <= Cardinality(Knowing(r)')
        <5>1. Cardinality(Knowing(r) \cup {t}) = Cardinality(Knowing(r)) + 1
          BY ONLY <4>1, <4>3, FS_AddElement
        <5>2. Cardinality(Knowing(r) \cup {t}) <= Cardinality(Knowing(r)')
          BY ONLY <4>2, <4>3, FS_Subset
        <5> QED BY ONLY <4>3, <5>1, <5>2, FS_CardinalityType
      <4>5. arrayTail - k <= Cardinality(Knowing(r))
        BY ONLY <1>14, <3>3
      <4> QED BY ONLY <1>2, <2>1, <3>1, <4>4, <4>5
    <3> QED BY ONLY <3>2, <3>3
  <2> QED BY ONLY <2>3, <2>11, <2>12, <2>13, <2>15, <2>16 DEF ArrayIInv
(* The first in the queue enters or writes, and sees everything.           *)
<1>b. ASSUME queue # <<>>, queue[1] = t, queuePc[t] \in {"spin", "in"},
             NEW l \in {"in", "reset"}, queuePc' = [queuePc EXCEPT ![t] = l],
             UNCHANGED <<arrayTail, tailView, mFlag, sIndex, queue>>,
             \A u \in QueueThreads \ {t} : view'[u] = view[u],
             view' \in [QueueThreads -> Array!Views], written' \in Nat, written' >= written,
             SeesAll(view[t])'
      PROVE  ArrayIInv' /\ [Fifo!Next]_<<queue, Inside>>
  <2>1. Inside' = Inside \/ (t \notin Inside /\ Inside' = Inside \cup {t})
    BY ONLY <1>2, <1>5, <1>b DEF Array!Inside
  <2>2. InQueue({"out"})' /\ [Fifo!Next]_<<queue, Inside>>
    BY ONLY <1>2, <1>4, <1>b, <2>1, Stays
  <2>3. Inside' = {t}
    BY ONLY <1>2, <1>4, <1>5, <1>b DEF InQueue, Array!Inside
  <2>4. served' = served /\ ~Granting /\ ~Granting' /\ resets' = resets
    <3>1. queuePc'[t] = l
      BY ONLY <1>2, <1>b
    <3>2. ~Granting /\ ~Granting'
      BY ONLY <1>b, <3>1 DEF Granting
    <3>3. served' = served
      BY ONLY <1>b DEF served
    <3> QED BY ONLY <3>2, <3>3 DEF resets
  <2>5. \A r \in S : Last(mFlag'[r]) = Last(mFlag[r]) /\ LastReset(mFlag'[r]) = LastReset(mFlag[r])
    BY ONLY <1>b DEF Last, LastReset
  <2>6. Array!TypeOK'
    BY ONLY <1>2, <1>3, <1>4, <1>b DEF Array!TypeOK
  <2>7. ArrayFlags'
    BY ONLY <1>3, <1>8, <1>10, <1>11, <1>b, <2>4, <2>5 DEF ArrayFlags
  <2>8. ArrayViews'
    <3>1. ASSUME NEW u \in QueueThreads
          PROVE  view'[u][D] <= written' /\ \A r \in S : view'[u][r] \in 1 .. Len(mFlag[r])
      <4>1. CASE u = t
        BY ONLY <1>3, <1>b, <4>1 DEF SeesAll
      <4>2. CASE u # t
        <5>1. view[u][D] \in Nat
          BY ONLY <1>2 DEF Array!Views
        <5> QED BY ONLY <1>2, <1>12, <1>b, <4>2, <5>1
      <4> QED BY ONLY <4>1, <4>2
    <3>2. tailView[D] <= written'
      <4>1. tailView[D] \in Nat
        BY ONLY <1>2 DEF Array!Views
      <4> QED BY ONLY <1>2, <1>12, <1>b, <4>1
    <3> QED BY ONLY <1>12, <1>b, <3>1, <3>2 DEF ArrayViews
  <2>9. ArraySeen'
    <3>1. ASSUME NEW u \in QueueThreads, queuePc'[u] = "spin"
          PROVE  view'[u][sIndex'[u]] >= LastReset(mFlag'[sIndex'[u]])
      <4>1. u # t /\ queuePc[u] = "spin" /\ view'[u] = view[u] /\ sIndex'[u] = sIndex[u] /\ sIndex[u] \in S
        BY ONLY <1>2, <1>b, <3>1
      <4> QED BY ONLY <1>13, <2>5, <4>1
    <3> QED BY ONLY <1>5, <1>b, <2>3, <3>1 DEF ArraySeen
  <2>10. ASSUME NEW r \in S PROVE Knowing(r)' = Knowing(r)
    <3>1. \A u \in QueueThreads \ {t} : view'[u] = view[u] /\ queuePc'[u] = queuePc[u]
      BY ONLY <1>2, <1>b
    <3>2. queuePc[t] # "out" /\ queuePc'[t] # "out"
      BY ONLY <1>2, <1>b
    <3> QED BY ONLY <2>5, <3>1, <3>2 DEF Knowing
  <2>11. ResetKnown'
    <3> SUFFICES ASSUME NEW k \in resets - Capacity .. resets - 1
                 PROVE  \/ tailView'[k % Capacity] >= LastReset(mFlag'[k % Capacity])
                        \/ arrayTail' - k <= Cardinality(Knowing(k % Capacity)')
      BY <2>4 DEF ResetKnown
    <3>1. k % Capacity \in S
      <4>1. k \in Int
        BY ONLY <1>8, <1>18
      <4> QED BY ONLY <1>17, <4>1
    <3> QED BY ONLY <1>14, <1>b, <2>5, <2>10, <3>1
  <2> QED BY ONLY <2>2, <2>6, <2>7, <2>8, <2>9, <2>11 DEF ArrayIInv
<1>c. CASE Array!Acquire(t)
  <2> DEFINE s == sIndex[t]
  <2>1. PICK time \in view[t][s] .. Len(mFlag[s]) :
          /\ mFlag[s][time].flag
          /\ view' = [view EXCEPT ![t] = Array!Join([view[t] EXCEPT ![s] = time], mFlag[s][time].view)]
    BY ONLY <1>c DEF Array!Acquire
  <2>2. /\ queuePc[t] = "spin" /\ queuePc' = [queuePc EXCEPT ![t] = "in"]
        /\ UNCHANGED <<arrayTail, tailView, mFlag, written, sIndex, queue>>
    BY ONLY <1>c DEF Array!Acquire, Array!Goto
  <2>3. s \in S /\ view[t][s] >= LastReset(mFlag[s]) /\ view[t][s] \in 1 .. Len(mFlag[s])
    BY ONLY <1>2, <1>12, <1>13, <2>2
  <2>4. time = Len(mFlag[s]) /\ Last(mFlag[s]).flag
    <3> DEFINE n == Len(mFlag[s])
    <3>1. n \in Nat \ {0} /\ time \in 1 .. n /\ time >= LastReset(mFlag[s])
      BY ONLY <1>3, <1>15, <2>3
    <3>2. CASE Last(mFlag[s]).flag
      <4>1. time \in {n - 1, n}
        BY ONLY <3>1, <3>2 DEF LastReset
      <4>2. CASE time = n - 1
        <5>1. n > 1
          BY ONLY <3>1, <4>2
        <5> QED BY ONLY <1>10, <2>1, <2>3, <3>2, <4>2, <5>1
      <4> QED BY ONLY <3>2, <4>1, <4>2
    <3>3. CASE ~Last(mFlag[s]).flag
      <4>1. time = n
        BY ONLY <3>1, <3>3 DEF LastReset
      <4> QED BY ONLY <2>1, <3>3, <4>1 DEF Last
    <3> QED BY ONLY <3>2, <3>3
  <2>5. ~Granting /\ s = served % Capacity
    BY ONLY <1>10, <2>3, <2>4
  <2>6. PICK i \in 1 .. Len(queue) : queue[i] = t
    BY ONLY <1>4, <2>2 DEF InQueue, Contains
  <2>7. i = 1
    <3> SUFFICES ASSUME i # 1 PROVE FALSE
      OBVIOUS
    <3>1. s = (served + i - 1) % Capacity
      BY ONLY <1>11, <2>6
    <3>2. /\ served < served + i - 1 /\ served + i - 1 < served + Capacity
          /\ served \in Int /\ served + i - 1 \in Int
      BY <1>1, <1>4, <1>8, <1>9
    <3> QED BY ONLY <1>18, <2>5, <3>1, <3>2, SlotsApart
  <2>8. queue # <<>> /\ queue[1] = t
    BY ONLY <1>4, <2>6, <2>7, EmptySeq
  <2>9. Inside = {}
    BY ONLY <1>4, <1>5, <2>2, <2>8 DEF InQueue, Array!Inside
  <2>10. SeesAll(Last(mFlag[s]).view) /\ Last(mFlag[s]).view \in Array!Views
    <3>1. Last(mFlag[s]) \in [flag : BOOLEAN, view : Array!Views]
      <4>1. mFlag[s] \in stores /\ Len(mFlag[s]) \in Nat \ {0}
        BY ONLY <1>3, <2>3
      <4>2. Len(mFlag[s]) \in 1 .. Len(mFlag[s])
        BY ONLY <4>1
      <4> QED BY ONLY <4>1, <4>2, ElementOfSeq DEF Last
    <3> QED BY ONLY <1>13, <2>5, <2>9, <3>1
  <2>11. [view[t] EXCEPT ![s] = time] \in Array!Views
    BY ONLY <1>2, <1>3, <2>3, <2>4 DEF Array!Views
  <2>12. /\ view'[t] \in Array!Views
         /\ \A l \in S \cup {D} :
              view'[t][l] = IF [view[t] EXCEPT ![s] = time][l] > Last(mFlag[s]).view[l]
                            THEN [view[t] EXCEPT ![s] = time][l] ELSE Last(mFlag[s]).view[l]
    <3> DEFINE v == [view[t] EXCEPT ![s] = time]
               w == Last(mFlag[s]).view
    <3>1. view'[t] = Array!Join(v, w)
      BY ONLY <1>2, <2>1, <2>4 DEF Last
    <3>2. v \in Array!Views /\ w \in Array!Views
      BY ONLY <2>10, <2>11
    <3> HIDE DEF v, w
    <3>3. /\ Array!Join(v, w) \in Array!Views
          /\ \A l \in S \cup {D} : Array!Join(v, w)[l] = IF v[l] > w[l] THEN v[l] ELSE w[l]
      BY ONLY <3>2, JoinViews
    <3> QED BY ONLY <3>1, <3>3 DEF v, w
  <2>13. view' \in [QueueThreads -> Array!Views] /\ \A u \in QueueThreads \ {t} : view'[u] = view[u]
    BY ONLY <1>2, <2>1, <2>12
  <2>14. SeesAll(view[t])'
    <3> DEFINE v == [view[t] EXCEPT ![s] = time]
    <3>1. v[D] = view[t][D] /\ v[D] <= written
      BY ONLY <1>16, <1>2, <1>12, <2>3 DEF Array!Views
    <3>2. \A r \in S : v[r] \in 1 .. Len(mFlag[r])
      BY ONLY <1>2, <1>3, <1>12, <2>3, <2>4 DEF Array!Views
    <3>3. view'[t][D] = written
      <4>1. view'[t][D] = IF v[D] > Last(mFlag[s]).view[D] THEN v[D] ELSE Last(mFlag[s]).view[D]
        BY ONLY <2>12
      <4>2. Last(mFlag[s]).view[D] = written
        BY ONLY <2>10 DEF SeesAll
      <4>3. v[D] \in Nat
        BY ONLY <2>11 DEF Array!Views
      <4> QED BY ONLY <1>2, <3>1, <4>1, <4>2, <4>3
    <3>4. ASSUME NEW r \in S PROVE view'[t][r] = Len(mFlag[r])
      <4>1. view'[t][r] = IF v[r] > Last(mFlag[s]).view[r] THEN v[r] ELSE Last(mFlag[s]).view[r]
        BY ONLY <2>12
      <4>2. Last(mFlag[s]).view[r] = Len(mFlag[r])
        BY ONLY <2>10 DEF SeesAll
      <4> QED BY ONLY <1>3, <3>2, <4>1, <4>2
    <3> QED BY ONLY <2>2, <3>3, <3>4 DEF SeesAll
  <2>15. written' \in Nat /\ written' >= written
    BY ONLY <1>2, <2>2
  <2> QED BY ONLY <1>b, <2>2, <2>8, <2>13, <2>14, <2>15
<1>d. CASE Array!Write(t)
  <2>1. /\ queuePc[t] = "in" /\ queuePc' = [queuePc EXCEPT ![t] = "reset"]
        /\ written' = written + 1 /\ view' = [view EXCEPT ![t][D] = written']
        /\ UNCHANGED <<arrayTail, tailView, mFlag, sIndex, queue>>
    BY ONLY <1>d DEF Array!Write, Array!Goto
  <2>2. queue # <<>> /\ queue[1] = t /\ t \in Inside
    BY ONLY <1>7, <2>1
  <2>3. /\ view' \in [QueueThreads -> Array!Views]
        /\ \A u \in QueueThreads \ {t} : view'[u] = view[u]
        /\ view'[t][D] = written' /\ \A r \in S : view'[t][r] = view[t][r]
    <3> DEFINE v == [view[t] EXCEPT ![D] = written']
    <3>1. view' = [view EXCEPT ![t] = v]
      BY ONLY <2>1
    <3>2. written' \in Nat /\ view[t] \in [S \cup {D} -> Nat]
      BY ONLY <1>2, <2>1 DEF Array!Views
    <3>3. v \in [S \cup {D} -> Nat] /\ v[D] = written' /\ \A r \in S : v[r] = view[t][r]
      BY ONLY <1>16, <3>2
    <3>4. v \in Array!Views
      BY ONLY <3>3 DEF Array!Views
    <3> HIDE DEF v
    <3> QED BY ONLY <1>2, <3>1, <3>3, <3>4
  <2>4. SeesAll(view[t])'
    BY ONLY <1>13, <2>1, <2>2, <2>3 DEF SeesAll
  <2> QED BY ONLY <1>2, <1>b, <2>1, <2>2, <2>3, <2>4
(* What a store does.                                                      *)
<1>e. ASSUME NEW s \in S, NEW b \in BOOLEAN, NEW order, Array!Store(t, s, b, order)
      PROVE  /\ mFlag' \in [S -> stores] /\ view' \in [QueueThreads -> Array!Views]
             /\ \A r \in S \ {s} : mFlag'[r] = mFlag[r]
             /\ Len(mFlag'[s]) = Len(mFlag[s]) + 1
             /\ \A i \in 1 .. Len(mFlag[s]) : mFlag'[s][i] = mFlag[s][i]
             /\ mFlag'[s][Len(mFlag'[s])].flag = b
             /\ order = "release" => mFlag'[s][Len(mFlag'[s])].view = view'[t]
             /\ \A u \in QueueThreads \ {t} : view'[u] = view[u]
             /\ view'[t][s] = Len(mFlag'[s])
             /\ \A l \in (S \cup {D}) \ {s} : view'[t][l] = view[t][l]
  <2> DEFINE time == Len(mFlag[s]) + 1
             seen == [view[t] EXCEPT ![s] = time]
             sent == IF order = "release" THEN seen ELSE [Array!First EXCEPT ![s] = time]
             m == [flag |-> b, view |-> sent]
  <2>1. /\ mFlag' = [mFlag EXCEPT ![s] = Append(mFlag[s], m)]
        /\ view' = [view EXCEPT ![t] = seen]
    BY ONLY <1>e DEF Array!Store
  <2>2. time \in Nat /\ mFlag[s] \in stores
    <3>1. mFlag[s] \in stores /\ Len(mFlag[s]) \in Nat
      BY ONLY <1>3
    <3> QED BY ONLY <3>1
  <2>3. /\ seen \in Array!Views /\ seen[s] = time
        /\ \A l \in (S \cup {D}) \ {s} : seen[l] = view[t][l]
    BY ONLY <1>2, <2>2 DEF Array!Views
  <2>4. sent \in Array!Views
    BY ONLY <2>2, <2>3 DEF Array!Views, Array!First
  <2> HIDE DEF time, seen, sent
  <2>5. m \in [flag : BOOLEAN, view : Array!Views] /\ m.flag = b /\ m.view = sent
    BY ONLY <2>4
  <2> HIDE DEF m
  <2>6. /\ Append(mFlag[s], m) \in stores /\ Len(Append(mFlag[s], m)) = time
        /\ \A i \in 1 .. Len(mFlag[s]) : Append(mFlag[s], m)[i] = mFlag[s][i]
        /\ Append(mFlag[s], m)[time] = m
    BY ONLY <2>2, <2>5, AppendProperties DEF time
  <2>7. /\ mFlag'[s] = Append(mFlag[s], m) /\ \A r \in S \ {s} : mFlag'[r] = mFlag[r]
        /\ mFlag' \in [S -> stores]
    BY ONLY <1>3, <2>1, <2>6
  <2>8. /\ view' \in [QueueThreads -> Array!Views] /\ view'[t] = seen
        /\ \A u \in QueueThreads \ {t} : view'[u] = view[u]
    BY ONLY <1>2, <2>1, <2>3
  <2>9. order = "release" => m.view = view'[t]
    BY ONLY <2>5, <2>8 DEF sent
  <2>10. Len(mFlag'[s]) = Len(mFlag[s]) + 1
    BY ONLY <2>6, <2>7 DEF time
  <2> QED BY ONLY <2>3, <2>5, <2>6, <2>7, <2>8, <2>9, <2>10
<1>f. CASE Array!Unlock(t)
  <2> DEFINE s == sIndex[t]
  <2>1. /\ queuePc[t] = "reset" /\ queuePc' = [queuePc EXCEPT ![t] = "grant"]
        /\ Array!Store(t, s, FALSE, "relaxed")
        /\ UNCHANGED <<arrayTail, tailView, written, sIndex, queue>>
    BY ONLY <1>f DEF Array!Unlock, Array!Goto
  <2>2. queue # <<>> /\ queue[1] = t /\ Inside = {t} /\ Len(queue) \in Nat \ {0} /\ SeesAll(view[t])
    BY ONLY <1>7, <1>13, <2>1
  <2>3. s \in S /\ s = served % Capacity
    <3>1. 1 \in 1 .. Len(queue) /\ served + 1 - 1 = served
      BY ONLY <1>8, <2>2
    <3> QED BY ONLY <1>2, <1>11, <2>2, <3>1
  <2>4. /\ mFlag' \in [S -> stores] /\ view' \in [QueueThreads -> Array!Views]
        /\ \A r \in S \ {s} : mFlag'[r] = mFlag[r]
        /\ Len(mFlag'[s]) = Len(mFlag[s]) + 1
        /\ mFlag'[s][Len(mFlag'[s])].flag = FALSE
        /\ \A u \in QueueThreads \ {t} : view'[u] = view[u]
        /\ view'[t][s] = Len(mFlag'[s])
        /\ \A l \in (S \cup {D}) \ {s} : view'[t][l] = view[t][l]
    BY ONLY <1>e, <2>1, <2>3
  <2>5. Inside' = Inside
    BY ONLY <1>2, <1>5, <2>1 DEF Array!Inside
  <2>6. InQueue({"out"})' /\ [Fifo!Next]_<<queue, Inside>>
    BY ONLY <1>2, <1>4, <2>1, <2>5, Stays
  <2>7. served' = served /\ ~Granting /\ Granting' /\ resets = served /\ resets' = served + 1
    <3>1. queuePc'[t] = "grant"
      BY ONLY <1>2, <2>1
    <3>2. ~Granting /\ Granting'
      BY ONLY <2>1, <2>2, <3>1 DEF Granting
    <3>3. served' = served
      BY ONLY <2>1 DEF served
    <3> QED BY ONLY <3>2, <3>3 DEF resets
  <2>8. /\ \A r \in S \ {s} : Last(mFlag'[r]) = Last(mFlag[r]) /\ LastReset(mFlag'[r]) = LastReset(mFlag[r])
        /\ ~Last(mFlag'[s]).flag
    BY ONLY <2>4 DEF Last, LastReset
  <2>9. SeesAll(view[t])'
    BY ONLY <1>16, <2>1, <2>2, <2>3, <2>4 DEF SeesAll
  <2>10. Array!TypeOK'
    BY ONLY <1>2, <1>4, <2>1, <2>4 DEF Array!TypeOK
  <2>11. ArrayFlags'
    <3>1. ASSUME NEW r \in S PROVE Len(mFlag'[r]) > 0 /\ ~Last(mFlag'[r]).flag
      BY ONLY <1>3, <1>10, <2>3, <2>4, <2>8
    <3> QED BY ONLY <1>8, <1>11, <2>1, <2>7, <3>1 DEF ArrayFlags
  <2>12. ArrayViews'
    <3>1. ASSUME NEW r \in S PROVE 1 .. Len(mFlag[r]) \subseteq 1 .. Len(mFlag'[r])
      <4>1. Len(mFlag[r]) \in Nat /\ Len(mFlag'[r]) \in {Len(mFlag[r]), Len(mFlag[r]) + 1}
        BY ONLY <1>3, <2>4
      <4> QED BY ONLY <4>1
    <3>2. ASSUME NEW u \in QueueThreads
          PROVE  view'[u][D] <= written' /\ \A r \in S : view'[u][r] \in 1 .. Len(mFlag'[r])
      <4>1. CASE u = t
        <5>1. \A r \in S : Len(mFlag'[r]) \in 1 .. Len(mFlag'[r])
          BY ONLY <1>3, <2>4
        <5> QED BY ONLY <1>2, <2>1, <2>9, <4>1, <5>1 DEF SeesAll
      <4>2. CASE u # t
        BY ONLY <1>12, <2>1, <2>4, <3>1, <4>2
      <4> QED BY ONLY <4>1, <4>2
    <3> QED BY ONLY <1>12, <2>1, <3>1, <3>2 DEF ArrayViews
  <2>13. ArraySeen'
    <3>1. ASSUME NEW u \in QueueThreads, queuePc'[u] = "spin"
          PROVE  view'[u][sIndex'[u]] >= LastReset(mFlag'[sIndex'[u]])
      <4>1. u # t /\ queuePc[u] = "spin" /\ view'[u] = view[u] /\ sIndex'[u] = sIndex[u] /\ sIndex[u] \in S
        BY ONLY <1>2, <2>1, <2>4, <3>1
      <4>2. PICK i \in 1 .. Len(queue) : queue[i] = u
        BY ONLY <1>4, <4>1 DEF InQueue, Contains
      <4>3. i # 1
        BY ONLY <2>2, <4>1, <4>2
      <4>4. /\ served < served + i - 1 /\ served + i - 1 < served + Capacity
            /\ served \in Int /\ served + i - 1 \in Int
        BY ONLY <1>1, <1>4, <1>8, <1>9, <4>3
      <4>5. sIndex[u] # s
        BY ONLY <1>18, <1>11, <2>3, <4>2, <4>4, SlotsApart
      <4> QED BY ONLY <1>13, <2>8, <4>1, <4>5
    <3> QED BY ONLY <1>5, <2>2, <2>5, <2>9, <3>1 DEF ArraySeen
  <2>14. ResetKnown'
    <3> SUFFICES ASSUME NEW k \in served + 1 - Capacity .. served
                 PROVE  \/ tailView'[k % Capacity] >= LastReset(mFlag'[k % Capacity])
                        \/ arrayTail' - k <= Cardinality(Knowing(k % Capacity)')
      <4>1. resets' - 1 = served /\ resets' - Capacity = served + 1 - Capacity
        BY ONLY <1>18, <1>20, <2>7
      <4> QED BY <4>1 DEF ResetKnown
    <3>1. CASE k = served
      <4> DEFINE r == k % Capacity
      <4>1. \A i \in 1 .. Len(queue) : queue[i] \in Knowing(r)'
        <5>1. \A i \in 1 .. Len(queue) : queuePc'[queue[i]] # "out"
          BY ONLY <1>2, <1>6, <2>1
        <5> QED BY ONLY <1>6, <5>1 DEF Knowing
      <4>2. Knowing(r)' \in SUBSET QueueThreads
        BY DEF Knowing
      <4>3. Len(queue) <= Cardinality(Knowing(r)')
        BY ONLY <1>4, <4>1, <4>2, QueueSize
      <4>4. arrayTail' - k = Len(queue)
        BY ONLY <1>2, <1>4, <1>8, <2>1, <3>1
      <4> QED BY ONLY <4>3, <4>4
    <3>2. CASE k # served
      <4>1. k \in Int /\ k < served /\ served < k + Capacity /\ served \in Int
        BY ONLY <1>1, <1>8, <3>2
      <4>2. k % Capacity # s /\ k % Capacity \in S
        <5>1. k % Capacity # served % Capacity
          BY ONLY <1>18, <4>1, SlotsApart
        <5> QED BY ONLY <1>17, <2>3, <4>1, <5>1
      <4>3. k \in resets - Capacity .. resets - 1
        BY ONLY <1>1, <1>8, <2>7, <4>1
      <4>4. Knowing(k % Capacity)' = Knowing(k % Capacity)
        <5>1. \A u \in QueueThreads : view'[u][k % Capacity] = view[u][k % Capacity]
          BY ONLY <2>4, <4>2
        <5>2. \A u \in QueueThreads : queuePc'[u] = "out" <=> queuePc[u] = "out"
          BY ONLY <1>2, <2>1
        <5> QED BY ONLY <2>8, <4>2, <5>1, <5>2 DEF Knowing
      <4> QED BY ONLY <1>14, <2>1, <2>8, <4>2, <4>3, <4>4
    <3> QED BY ONLY <3>1, <3>2
  <2> QED BY ONLY <2>6, <2>10, <2>11, <2>12, <2>13, <2>14 DEF ArrayIInv
<1>g. CASE Array!Grant(t)
  <2> DEFINE s == (sIndex[t] + 1) % Capacity
  <2>1. /\ queuePc[t] = "grant" /\ queuePc' = [queuePc EXCEPT ![t] = "out"]
        /\ Array!Store(t, s, TRUE, "release") /\ queue' = Tail(queue)
        /\ UNCHANGED <<arrayTail, tailView, written, sIndex>>
    BY ONLY <1>g DEF Array!Grant, Array!Goto
  <2>2. queue # <<>> /\ queue[1] = t /\ Inside = {t} /\ Len(queue) \in Nat \ {0} /\ SeesAll(view[t])
    BY ONLY <1>7, <1>13, <2>1
  <2>3. s \in S /\ s = (served + 1) % Capacity
    <3>1. 1 \in 1 .. Len(queue) /\ served + 1 - 1 = served /\ served \in Int /\ served + 1 \in Int
      BY ONLY <1>8, <2>2
    <3>2. sIndex[t] = served % Capacity
      BY ONLY <1>11, <2>2, <3>1
    <3>3. ((served % Capacity) + 1) % Capacity = (served + 1) % Capacity
      BY ONLY <1>18, <3>1, SlotOfTicket
    <3> QED BY ONLY <1>17, <3>1, <3>2, <3>3
  <2>4. /\ mFlag' \in [S -> stores] /\ view' \in [QueueThreads -> Array!Views]
        /\ \A r \in S \ {s} : mFlag'[r] = mFlag[r]
        /\ Len(mFlag'[s]) = Len(mFlag[s]) + 1
        /\ \A i \in 1 .. Len(mFlag[s]) : mFlag'[s][i] = mFlag[s][i]
        /\ mFlag'[s][Len(mFlag'[s])].flag = TRUE
        /\ mFlag'[s][Len(mFlag'[s])].view = view'[t]
        /\ \A u \in QueueThreads \ {t} : view'[u] = view[u]
        /\ view'[t][s] = Len(mFlag'[s])
        /\ \A l \in (S \cup {D}) \ {s} : view'[t][l] = view[t][l]
    BY ONLY <1>e, <2>1, <2>3
  <2>5. t \in Inside /\ Inside' = Inside \ {t} /\ Inside' = {}
    BY ONLY <1>2, <1>5, <2>1, <2>2 DEF Array!Inside
  <2>6. /\ InQueue({"out"})' /\ [Fifo!Next]_<<queue, Inside>> /\ queue' \in Seq(QueueThreads)
        /\ Len(queue') = Len(queue) - 1
        /\ queue' = <<>> <=> Len(queue') = 0
        /\ \A i \in 1 .. Len(queue') : queue'[i] = queue[i + 1] /\ queue[i + 1] \in QueueThreads \ {t}
    BY ONLY <1>2, <1>4, <2>1, <2>5, Leaves
  <2>7. served' = served + 1 /\ Granting /\ ~Granting' /\ resets = served + 1 /\ resets' = served + 1
    <3>1. Granting
      BY ONLY <2>1, <2>2 DEF Granting
    <3>2. ~Granting'
      <4> SUFFICES ASSUME queue' # <<>>, queuePc'[queue'[1]] = "grant" PROVE FALSE
        BY DEF Granting
      <4>1. 1 \in 1 .. Len(queue')
        BY <2>2, <2>6
      <4>2. queue'[1] \in QueueThreads
        BY ONLY <2>6, <4>1
      <4>3. queue'[1] \in Inside'
        BY <1>5, <4>2 DEF Array!Inside
      <4> QED BY ONLY <2>5, <4>3
    <3>3. served' = served + 1
      <4>1. Len(queue') = Len(queue) - 1
        BY ONLY <2>6
      <4> QED BY ONLY <1>2, <2>1, <2>2, <4>1 DEF served
    <3> QED BY ONLY <3>1, <3>2, <3>3 DEF resets
  <2>8. /\ \A r \in S : ~Last(mFlag[r]).flag
        /\ \A r \in S \ {s} : Last(mFlag'[r]) = Last(mFlag[r])
        /\ Last(mFlag'[s]).flag /\ Last(mFlag'[s]).view = view'[t]
    BY ONLY <1>10, <2>4, <2>7 DEF Last
  <2>9. ASSUME NEW r \in S PROVE LastReset(mFlag'[r]) = LastReset(mFlag[r])
    <3>1. CASE r = s
      <4>1. LastReset(mFlag[s]) = Len(mFlag[s]) /\ LastReset(mFlag'[s]) = Len(mFlag'[s]) - 1
        BY ONLY <2>3, <2>8 DEF LastReset
      <4> QED BY ONLY <1>3, <2>3, <2>4, <3>1, <4>1
    <3>2. CASE r # s
      BY ONLY <2>4, <2>8, <3>2 DEF LastReset
    <3> QED BY ONLY <3>1, <3>2
  <2>10. SeesAll(view[t])'
    <3>1. view'[t][D] = written'
      BY ONLY <1>16, <2>1, <2>2, <2>3, <2>4 DEF SeesAll
    <3>2. ASSUME NEW r \in S PROVE view'[t][r] = Len(mFlag'[r])
      <4>1. view[t][r] = Len(mFlag[r])
        BY ONLY <2>2 DEF SeesAll
      <4> QED BY ONLY <2>4, <4>1
    <3> QED BY ONLY <3>1, <3>2 DEF SeesAll
  <2>11. Array!TypeOK'
    <3>1. queue' \in Seq(QueueThreads)
      BY ONLY <2>6
    <3> QED BY ONLY <1>2, <2>1, <2>4, <3>1 DEF Array!TypeOK
  <2>12. ArrayFlags'
    <3>1. ASSUME NEW r \in S
          PROVE  /\ Len(mFlag'[r]) > 0
                 /\ Last(mFlag'[r]).flag <=> r = (served + 1) % Capacity
                 /\ Last(mFlag'[r]).flag => ~mFlag'[r][Len(mFlag'[r]) - 1].flag
      <4>1. CASE r = s
        <5> DEFINE n == Len(mFlag[s])
        <5>1. n \in Nat \ {0} /\ Len(mFlag'[s]) = n + 1
          BY ONLY <1>3, <2>3, <2>4
        <5>2. n \in 1 .. n /\ Len(mFlag'[s]) - 1 = n /\ Len(mFlag'[s]) > 0
          BY ONLY <5>1
        <5>3. mFlag'[s][n] = Last(mFlag[s])
          BY ONLY <2>4, <5>2 DEF Last
        <5> QED BY ONLY <2>3, <2>8, <4>1, <5>2, <5>3
      <4>2. CASE r # s
        BY ONLY <1>3, <2>3, <2>4, <2>8, <4>2
      <4> QED BY ONLY <4>1, <4>2
    <3>2. ASSUME NEW i \in 1 .. Len(queue')
          PROVE  sIndex'[queue'[i]] = (served + 1 + i - 1) % Capacity
      <4>1. i + 1 \in 1 .. Len(queue) /\ queue'[i] = queue[i + 1]
        BY ONLY <2>2, <2>6
      <4>2. served + 1 + i - 1 = served + (i + 1) - 1
        BY ONLY <1>8
      <4> QED BY ONLY <1>11, <2>1, <4>1, <4>2
    <3>3. served + 1 >= 0
      BY ONLY <1>8
    <3> QED BY ONLY <2>7, <3>1, <3>2, <3>3 DEF ArrayFlags
  <2>13. ArrayViews'
    <3>1. ASSUME NEW r \in S PROVE 1 .. Len(mFlag[r]) \subseteq 1 .. Len(mFlag'[r])
      <4>1. Len(mFlag[r]) \in Nat /\ Len(mFlag'[r]) \in {Len(mFlag[r]), Len(mFlag[r]) + 1}
        BY ONLY <1>3, <2>4
      <4> QED BY ONLY <4>1
    <3>2. ASSUME NEW u \in QueueThreads
          PROVE  view'[u][D] <= written' /\ \A r \in S : view'[u][r] \in 1 .. Len(mFlag'[r])
      <4>1. CASE u = t
        <5>1. \A r \in S : Len(mFlag'[r]) \in 1 .. Len(mFlag'[r])
          BY ONLY <1>3, <2>4
        <5> QED BY ONLY <1>2, <2>1, <2>10, <4>1, <5>1 DEF SeesAll
      <4>2. CASE u # t
        BY ONLY <1>12, <2>1, <2>4, <3>1, <4>2
      <4> QED BY ONLY <4>1, <4>2
    <3> QED BY ONLY <1>12, <2>1, <3>1, <3>2 DEF ArrayViews
  <2>14. ArraySeen'
    <3>1. ASSUME NEW u \in QueueThreads, queuePc'[u] = "spin"
          PROVE  view'[u][sIndex'[u]] >= LastReset(mFlag'[sIndex'[u]])
      <4>1. u # t /\ queuePc[u] = "spin" /\ view'[u] = view[u] /\ sIndex'[u] = sIndex[u] /\ sIndex[u] \in S
        BY ONLY <1>2, <2>1, <2>4, <3>1
      <4> QED BY ONLY <1>13, <2>9, <4>1
    <3>2. SeesAll(Last(mFlag[served % Capacity]).view)'
      BY ONLY <2>3, <2>7, <2>8, <2>10 DEF SeesAll
    <3> QED BY ONLY <1>5, <2>5, <3>1, <3>2 DEF ArraySeen
  <2>15. ASSUME NEW r \in S PROVE Knowing(r)' = Knowing(r)
    <3>1. \A u \in QueueThreads \ {t} : view'[u] = view[u] /\ queuePc'[u] = queuePc[u]
      BY ONLY <1>2, <2>1, <2>4
    <3>2. view'[t][r] = Len(mFlag'[r]) /\ Len(mFlag'[r]) >= LastReset(mFlag'[r])
      <4>1. Len(mFlag'[r]) \in Nat
        BY ONLY <1>3, <2>4
      <4> QED BY ONLY <2>10, <4>1 DEF SeesAll, LastReset
    <3> QED BY ONLY <2>1, <2>9, <3>1, <3>2 DEF Knowing
  <2>16. ResetKnown'
    <3> SUFFICES ASSUME NEW k \in resets - Capacity .. resets - 1
                 PROVE  \/ tailView'[k % Capacity] >= LastReset(mFlag'[k % Capacity])
                        \/ arrayTail' - k <= Cardinality(Knowing(k % Capacity)')
      BY <2>7 DEF ResetKnown
    <3>1. k % Capacity \in S
      <4>1. k \in Int
        BY ONLY <1>8, <1>18
      <4> QED BY ONLY <1>17, <4>1
    <3> QED BY ONLY <1>14, <2>1, <2>9, <2>15, <3>1
  <2> QED BY ONLY <2>6, <2>11, <2>12, <2>13, <2>14, <2>16 DEF ArrayIInv
<1> QED BY <1>a, <1>c, <1>d, <1>f, <1>g DEF Array!Step

-----------------------------------------------------------------------------
(* RESULTS                                                                 *)

(* PetersonLock: every step of the program is one of it or leaves it alone. *)
LEMMA PetersonInvariant == LockSpec => []PetersonIInv
<1>1. TwoThreads
  BY ONLY LockAssumptions
<1>2. LockInit => PetersonIInv
  BY ONLY InitPeterson DEF LockInit
<1>3. PetersonIInv /\ [LockNext]_lockVars => PetersonIInv'
  <2>1. CASE LockNext
    <3>1. lock = "peterson" => Next
      BY ONLY <2>1, LockSteps DEF MonitorKinds
    <3>2. lock # "peterson" => UNCHANGED vars
      BY ONLY <2>1, LockSteps
    <3> QED BY ONLY <1>1, <3>1, <3>2, NextPeterson
  <2>2. CASE UNCHANGED lockVars
    BY ONLY <1>1, <2>2, NextPeterson DEF lockVars
  <2> QED BY ONLY <2>1, <2>2
<1> QED BY <1>2, <1>3, PTL DEF LockSpec

(* The indices of PetersonLock are handed out once each.                   *)
THEOREM IdsCorrect == LockSpec => []IdInv
<1>1. PetersonIInv => IdInv
  BY DEF PetersonIInv
<1> QED BY <1>1, PetersonInvariant, PTL

(* Two threads never hold a PetersonLock together: each would have to be    *)
(* the victim.                                                             *)
THEOREM Exclusion == LockSpec => []MutualExclusion
<1>1. PetersonIInv => MutualExclusion
  BY DEF PetersonIInv, TypeOK, IdInv, VictimInv, MutualExclusion
<1> QED BY <1>1, PetersonInvariant, PTL

(* A thread that waits at a PetersonLock is passed at most once.           *)
THEOREM BoundedBypass == LockSpec => []PassedOnce
<1>1. PetersonIInv => PassedOnce
  BY DEF PetersonIInv, PassedInv, PassedOnce, Waiting
<1> QED BY <1>1, PetersonInvariant, PTL

-----------------------------------------------------------------------------
(* HierarchicalMutex: for any number of threads, mutexes and levels.        *)
(* TypeOK and LevelsInOrder are inductive together.                        *)
LevelsInv == Mutex!TypeOK /\ Mutex!LevelsInOrder

LEMMA InitLevels == ASSUME Mutex!HierarchyAssumption PROVE Mutex!Init => LevelsInv
BY DEF Mutex!HierarchyAssumption, Mutex!Init, LevelsInv, Mutex!TypeOK, Mutex!LevelsInOrder, Mutex!InOrder, Mutex!Held

(* updateCurrentHierarchy, in lock and in try_lock, below the level of t.    *)
LEMMA TakeLevels ==
  ASSUME Mutex!HierarchyAssumption, LevelsInv, NEW t \in QueueThreads, NEW m \in Mutexes,
         Hierarchy[m] < me[t].level, Mutex!Take(t, m)
  PROVE  LevelsInv'
<1> USE DEF Mutex!HierarchyAssumption, LevelsInv
<1>1. Mutex!TypeOK'
  BY DEF Mutex!Take, Mutex!TypeOK
<1>2. /\ \A u \in QueueThreads \ {t} : Mutex!Held(u)' = Mutex!Held(u) /\ me'[u] = me[u]
      /\ Mutex!Held(t)' = Mutex!Held(t) \cup {m} /\ m \notin Mutex!Held(t)
      /\ me'[t].level = Hierarchy[m] /\ me'[t].wants = {}
      /\ shared'.mPreviousHierarchy[m] = me[t].level
      /\ \A n \in Mutexes \ {m} :
           shared'.mPreviousHierarchy[n] = shared.mPreviousHierarchy[n]
      /\ \A u \in QueueThreads : m \notin Mutex!Held(u)
  BY DEF Mutex!Take, Mutex!TypeOK, Mutex!Held
<1>3. /\ \A n \in Mutex!Held(t) : /\ n \in Mutexes \ {m} /\ Hierarchy[n] \in Nat
                            /\ me[t].level <= Hierarchy[n]
                            /\ shared.mPreviousHierarchy[n] \in Nat
      /\ me[t].level \in Nat /\ Hierarchy[m] \in Nat
  BY <1>2 DEF Mutex!TypeOK, Mutex!LevelsInOrder, Mutex!InOrder, Mutex!Held
<1>4. ASSUME NEW u \in QueueThreads \ {t} PROVE Mutex!InOrder(u)'
  <2>1. Mutex!InOrder(u) /\ \A n \in Mutex!Held(u) : n \in Mutexes \ {m}
    BY <1>2 DEF Mutex!LevelsInOrder, Mutex!InOrder, Mutex!Held
  <2> QED BY ONLY <1>2, <2>1 DEF Mutex!InOrder
<1>5. Mutex!InOrder(t)'
  <2>1. Mutex!InOrder(t)
    BY DEF Mutex!LevelsInOrder, Mutex!InOrder
  <2>2. \A n \in Mutex!Held(t)' : n \in Mutexes /\ (n = m \/ n \in Mutex!Held(t))
    BY ONLY <1>2, <1>3
  <2>3. \A n \in Mutex!Held(t)' : /\ me'[t].level <= Hierarchy[n]
                            /\ Hierarchy[n] < shared'.mPreviousHierarchy[n]
    BY <1>2, <1>3, <2>1, <2>2 DEF Mutex!InOrder
  <2>4. \A n, k \in Mutex!Held(t)' :
          n # k => \/ shared'.mPreviousHierarchy[n] <= Hierarchy[k]
                   \/ shared'.mPreviousHierarchy[k] <= Hierarchy[n]
    BY ONLY <1>2, <1>3, <2>1, <2>2 DEF Mutex!InOrder
  <2>5. \A n \in Mutex!Held(t)' :
          \/ shared'.mPreviousHierarchy[n] = Highest
          \/ \E k \in Mutex!Held(t)' : Hierarchy[k] = shared'.mPreviousHierarchy[n]
    BY ONLY <1>2, <1>3, <2>1, <2>2 DEF Mutex!InOrder
  <2> QED BY ONLY <1>2, <2>3, <2>4, <2>5 DEF Mutex!InOrder
<1> QED BY ONLY <1>1, <1>4, <1>5 DEF Mutex!LevelsInOrder

LEMMA NextLevels ==
  ASSUME Mutex!HierarchyAssumption
  PROVE  LevelsInv /\ [Mutex!Next]_<<shared, me>> => LevelsInv'
<1> SUFFICES ASSUME LevelsInv, [Mutex!Next]_<<shared, me>> PROVE LevelsInv'
  OBVIOUS
<1> USE DEF Mutex!HierarchyAssumption, LevelsInv
<1>1. ASSUME NEW t \in QueueThreads, NEW m \in Mutexes, Mutex!Lock(t, m) PROVE LevelsInv'
  BY <1>1 DEF Mutex!Lock, Mutex!checkHierarchy, Mutex!TypeOK, Mutex!LevelsInOrder, Mutex!InOrder, Mutex!Held
<1>2. ASSUME NEW t \in QueueThreads, NEW m \in Mutexes, Mutex!TryLock(t, m) \/ Mutex!Acquire(t, m)
      PROVE  LevelsInv'
  <2>1. Hierarchy[m] < me[t].level /\ Mutex!Take(t, m)
    BY <1>2 DEF Mutex!TryLock, Mutex!Acquire, Mutex!checkHierarchy, Mutex!LevelsInOrder, Mutex!InOrder
  <2> QED BY <2>1, TakeLevels
<1>3. ASSUME NEW t \in QueueThreads, NEW m \in Mutexes, Mutex!Unlock(t, m) PROVE LevelsInv'
  <2>1. Mutex!TypeOK'
    BY <1>3 DEF Mutex!Unlock, Mutex!TypeOK
  <2>2. /\ \A u \in QueueThreads \ {t} : Mutex!Held(u)' = Mutex!Held(u) /\ me'[u] = me[u]
        /\ Mutex!Held(t)' = Mutex!Held(t) \ {m} /\ m \in Mutex!Held(t)
        /\ me[t].level = Hierarchy[m]
        /\ me'[t].level = shared.mPreviousHierarchy[m] /\ me'[t].wants = {}
        /\ shared'.mPreviousHierarchy = shared.mPreviousHierarchy
    BY <1>3 DEF Mutex!Unlock, Mutex!TypeOK, Mutex!Held
  <2>3. Mutex!LevelsInOrder'
    BY <2>1, <2>2 DEF Mutex!LevelsInOrder, Mutex!InOrder, Mutex!TypeOK, Mutex!Held
  <2> QED BY ONLY <2>1, <2>3
<1>4. CASE UNCHANGED <<shared, me>>
  BY <1>4 DEF Mutex!TypeOK, Mutex!LevelsInOrder, Mutex!InOrder, Mutex!Held
<1> QED BY <1>1, <1>2, <1>3, <1>4 DEF Mutex!Next, Mutex!Call, Mutex!Step

(* The levels are in order after any sequence of legal calls.              *)
THEOREM LevelsCorrect == ASSUME Mutex!HierarchyAssumption PROVE Mutex!Spec => []Mutex!LevelsInOrder
<1>1. LevelsInv => Mutex!LevelsInOrder
  BY DEF LevelsInv
<1> QED BY InitLevels, NextLevels, <1>1, PTL DEF Mutex!Spec

(* Of the threads of a circle one would have the lowest level, and wait for *)
(* a mutex whose owner, also in the circle, had a lower one.               *)
LEMMA InOrderNoCircle == ASSUME Mutex!HierarchyAssumption PROVE LevelsInv => Mutex!NoCircle
<1> SUFFICES ASSUME LevelsInv, NEW S \in SUBSET QueueThreads, S # {}
             PROVE  \E t \in S : \A m \in me[t].wants : shared.owner[m] \notin S
  BY DEF Mutex!NoCircle
<1> DEFINE Levels == {me[t].level : t \in S}
           Below == {ss \in Nat \X Nat : ss[1] < ss[2]}
<1>1. Levels # {} /\ Levels \subseteq Nat
  BY DEF Mutex!HierarchyAssumption, LevelsInv, Mutex!TypeOK
<1>2. IsWellFoundedOn(Below, Nat)
  BY ONLY NatLessThanWellFounded DEF OpToRel
<1>3. PICK x \in Levels : \A y \in Levels : ~(<<y, x>> \in Below)
  <2> HIDE DEF Levels, Below
  <2> QED BY ONLY <1>1, <1>2, WFMin
<1>4. PICK t \in S : me[t].level = x
  BY ONLY <1>3
<1>5. ASSUME NEW m \in me[t].wants, shared.owner[m] \in S PROVE FALSE
  <2> DEFINE u == shared.owner[m]
  <2>1. m \in Mutexes /\ u \in QueueThreads /\ m \in Mutex!Held(u) /\ u \in S
    BY <1>5 DEF LevelsInv, Mutex!TypeOK, Mutex!Held
  <2>2. me[u].level <= Hierarchy[m] /\ Hierarchy[m] < me[t].level
    BY <2>1 DEF LevelsInv, Mutex!LevelsInOrder, Mutex!InOrder
  <2>3. me[u].level \in Levels /\ Hierarchy[m] \in Nat
    BY <2>1 DEF Mutex!HierarchyAssumption
  <2>4. <<me[u].level, x>> \in Below
    BY ONLY <1>1, <1>4, <2>2, <2>3
  <2> QED BY ONLY <1>3, <2>3, <2>4
<1> QED BY ONLY <1>4, <1>5

(* No threads ever wait for each other in a circle.                        *)
THEOREM NeverACircle == ASSUME Mutex!HierarchyAssumption PROVE Mutex!Spec => []Mutex!NoCircle
BY InitLevels, NextLevels, InOrderNoCircle, PTL DEF Mutex!Spec

MutexInv == lock = "mutexes" => LevelsInv

LEMMA InitMutex == LockInit => MutexInv
BY ONLY LockKinds, LockAssumptions, InitLevels DEF MutexInv, MonitorKinds

LEMMA NextMutex == MutexInv /\ [LockNext]_lockVars => MutexInv'
<1> SUFFICES ASSUME MutexInv, [LockNext]_lockVars, lock' = "mutexes" PROVE LevelsInv'
  BY DEF MutexInv
<1>1. lock = "mutexes" /\ [Mutex!Next]_<<shared, me>>
  BY LockSteps DEF lockVars, otherVars, Mutex!Next, MonitorKinds
<1> QED BY <1>1, LockAssumptions, NextLevels DEF MutexInv

(* Threads lock HierarchicalMutexes in the order of their levels, and never *)
(* wait for each other in a circle.                                        *)
THEOREM LevelsInOrderCorrect == LockSpec => []LevelsInOrder
<1>1. MutexInv => LevelsInOrder
  BY ONLY LockAssumptions, InOrderNoCircle DEF MutexInv, LevelsInv, LevelsInOrder
<1> QED BY InitMutex, NextMutex, <1>1, PTL DEF LockSpec

-----------------------------------------------------------------------------
(* The synchronisers of Misc: the steps of each.                           *)
LEMMA MonitorSteps ==
  ASSUME MonitorNext
  PROVE  \E t \in QueueThreads :
    \/ lock = "barrier" /\ (Monitor!BarrierWait(t) \/ Monitor!Wake(t) \/ Monitor!SpuriousWakeup(t))
    \/ lock = "latch" /\ (Monitor!LatchWait(t) \/ Monitor!Wake(t) \/ Monitor!SpuriousWakeup(t))
    \/ /\ lock = "future"
       /\ \/ Monitor!SetData(t) \/ Monitor!FutureCall(t)
          \/ Monitor!Wake(t) \/ Monitor!SpuriousWakeup(t)
    \/ /\ lock = "interrupt"
       /\ \/ Monitor!Start(t) \/ Monitor!InterruptionPoint(t) \/ Monitor!SetConditionVariable(t)
          \/ Monitor!TestFlag(t) \/ Monitor!WaitFor(t) \/ Monitor!Timeout(t)
          \/ Monitor!WaitAgain(t) \/ Monitor!Notify(t) \/ Monitor!Interrupt(t) \/ Monitor!Satisfy(t)
    \/ /\ lock = "initialization"
       /\ \/ Monitor!LockGuard(t) \/ Monitor!SecondCheck(t) \/ Monitor!Make(t)
          \/ Monitor!Publish(t) \/ Monitor!Unlock(t) \/ Monitor!Process(t) \/ Monitor!FirstCheck(t)
<1>1. PICK t \in QueueThreads : Monitor!Step(t) \/ Monitor!Call(t)
  BY Zenon DEF MonitorNext
<1>2. CASE Monitor!Step(t)
  BY ONLY <1>2, Zenon DEF Monitor!Step, Monitor!Wake, Monitor!Start, Monitor!InterruptionPoint,
    Monitor!SetConditionVariable, Monitor!TestFlag, Monitor!WaitFor, Monitor!Timeout,
    Monitor!WaitAgain, Monitor!Notify, Monitor!LockGuard, Monitor!SecondCheck, Monitor!Make,
    Monitor!Publish, Monitor!Unlock, Monitor!Process
<1>3. CASE Monitor!Call(t)
  BY ONLY <1>3, Zenon DEF Monitor!Call, Monitor!BarrierWait, Monitor!LatchWait, Monitor!SetData,
    Monitor!FutureCall, Monitor!SpuriousWakeup, Monitor!Interrupt, Monitor!Satisfy,
    Monitor!FirstCheck
<1> QED BY ONLY <1>1, <1>2, <1>3

-----------------------------------------------------------------------------
(* Barrier, Latch, Future                                                  *)

Generation == 0 .. Generations - 1

(* The threads that have not arrived in this generation.                   *)
Missing == {t \in QueueThreads : Monitor!Waiting(t) => Monitor!Predicate(t)}

BarrierInv ==
  /\ shared \in [mGeneration : Generation, mCount : Nat \ {0}]
  /\ me \in [QueueThreads -> [pc : {"out", "asleep", "woken"}, curGen : Generation]]
  /\ shared.mCount = Cardinality(Missing)
  /\ \A t \in QueueThreads : me[t].pc = "asleep" => me[t].curGen = shared.mGeneration

LEMMA InitBarrier == Monitor!BarrierInit => BarrierInv
<1> SUFFICES ASSUME Monitor!BarrierInit PROVE BarrierInv
  OBVIOUS
<1>1. Missing = QueueThreads
  BY DEF Missing, Monitor!Waiting, Monitor!BarrierInit, Monitor!Everyone
<1>2. Monitor!Cardinality(QueueThreads) = Cardinality(QueueThreads)
  BY ONLY SameFiniteSets
<1>3. 0 \in Generation
  BY ONLY LockAssumptions DEF Generation, Monitor!BarrierAssumption
<1> QED BY <1>1, <1>2, <1>3, ThreadsFinite DEF Monitor!BarrierInit, Monitor!Everyone, BarrierInv

LEMMA NextBarrier ==
  ASSUME lock = "barrier", BarrierInv, lock' = lock, MonitorNext
  PROVE  BarrierInv'
<1>1. PICK t \in QueueThreads :
        Monitor!BarrierWait(t) \/ Monitor!Wake(t) \/ Monitor!SpuriousWakeup(t)
  BY MonitorSteps
<1>2. Missing \subseteq QueueThreads /\ IsFiniteSet(Missing)
  BY ONLY ThreadsFinite, FS_Subset DEF Missing
<1> USE DEF BarrierInv
<1>3. CASE Monitor!BarrierWait(t) /\ shared.mCount = 1
  <2>1. Missing = {t}
    BY <1>2, <1>3, OneLess DEF Monitor!BarrierWait, Missing, Monitor!Waiting
  <2>2. /\ shared' = [mGeneration |-> (shared.mGeneration + 1) % Generations,
                      mCount |-> Cardinality(QueueThreads)]
        /\ me' = [u \in QueueThreads |->
                     IF u = t THEN [me[t] EXCEPT !.pc = "out"]
                     ELSE IF me[u].pc = "asleep" THEN [me[u] EXCEPT !.pc = "woken"] ELSE me[u]]
    BY ONLY <1>3, SameFiniteSets DEF Monitor!BarrierWait, Monitor!notify_all, Monitor!Update
  <2>3. shared'.mGeneration \in Generation /\ shared'.mGeneration # shared.mGeneration
    <3>1. Generations \in Nat \ {0, 1}
      BY ONLY LockAssumptions DEF Monitor!BarrierAssumption
    <3>2. \A g \in 0 .. Generations - 1 :
            (g + 1) % Generations = IF g + 1 = Generations THEN 0 ELSE g + 1
      BY ONLY <3>1
    <3> QED BY <2>2, <3>1, <3>2 DEF Generation
  <2>4. \A u \in QueueThreads \ {t} :
          me[u].curGen = shared.mGeneration /\ me[u].pc \in {"asleep", "woken"}
    BY <2>1, <1>3 DEF Missing, Monitor!Predicate, Monitor!Waiting
  <2>5. me' \in [QueueThreads -> [pc : {"out", "asleep", "woken"}, curGen : Generation]]
    BY <2>2
  <2>6. \A u \in QueueThreads : me'[u].pc # "asleep" /\ (u # t => me'[u].curGen = me[u].curGen)
                                /\ me'[t].pc = "out"
    BY <2>2
  <2>7. Missing' = QueueThreads
    BY <2>3, <2>4, <2>6, <1>3 DEF Missing, Monitor!Predicate, Monitor!Waiting
  <2> QED BY ONLY <2>2, <2>3, <2>5, <2>6, <2>7, ThreadsFinite
<1>4. CASE Monitor!BarrierWait(t) /\ shared.mCount # 1
  <2>1. /\ me[t].pc = "out"
        /\ shared' = [shared EXCEPT !.mCount = @ - 1]
        /\ me' = [me EXCEPT ![t] = [pc |-> "asleep", curGen |-> shared.mGeneration]]
    BY <1>4 DEF Monitor!BarrierWait, Monitor!Becomes, Monitor!Update
  <2>2. Missing' = Missing \ {t} /\ t \in Missing
    BY <2>1, <1>4 DEF Missing, Monitor!Predicate, Monitor!Waiting
  <2>3. Cardinality(Missing') = shared.mCount - 1
    BY <2>2, <1>2, OneLess
  <2> QED BY <2>1, <2>3, <1>4
<1>5. CASE Monitor!Wake(t) \/ Monitor!SpuriousWakeup(t)
  <2>1. PICK label \in {"out", "asleep", "woken"} :
          me' = [me EXCEPT ![t].pc = label]
    BY <1>5 DEF Monitor!Wake, Monitor!SpuriousWakeup, Monitor!Becomes, Monitor!Update
  <2>2. /\ shared' = shared /\ me[t].pc \in {"asleep", "woken"}
        /\ label = "asleep" => me[t].curGen = shared.mGeneration
        /\ label = "out" => me[t].curGen # shared.mGeneration
    BY <1>5, <2>1 DEF Monitor!Wake, Monitor!SpuriousWakeup, Monitor!Becomes, Monitor!Update,
      Monitor!Predicate
  <2>3. Missing' = Missing
    BY <2>1, <2>2 DEF Missing, Monitor!Predicate, Monitor!Waiting
  <2> QED BY <2>1, <2>2, <2>3
<1> QED BY ONLY <1>1, <1>3, <1>4, <1>5

(* Latch: mCount is the number of the threads that have not arrived.       *)
Absent == {t \in QueueThreads : me[t].pc = "out"}

LatchInv ==
  /\ shared \in [mCount : Nat]
  /\ me \in [QueueThreads -> [pc : {"out", "asleep", "woken", "passed"}]]
  /\ shared.mCount = Cardinality(Absent)
  /\ \A t \in QueueThreads :
       /\ me[t].pc = "passed" => shared.mCount = 0
       /\ me[t].pc = "asleep" => shared.mCount # 0

LEMMA InitLatch == Monitor!LatchInit => LatchInv
<1> SUFFICES ASSUME Monitor!LatchInit PROVE LatchInv
  OBVIOUS
<1>1. Absent = QueueThreads
  BY DEF Absent, Monitor!LatchInit, Monitor!Everyone
<1>2. Monitor!Cardinality(QueueThreads) = Cardinality(QueueThreads)
  BY ONLY SameFiniteSets
<1> QED BY <1>1, <1>2, ThreadsFinite DEF Monitor!LatchInit, Monitor!Everyone, LatchInv

LEMMA NextLatch ==
  ASSUME lock = "latch", LatchInv, lock' = lock, MonitorNext
  PROVE  LatchInv'
<1>1. PICK t \in QueueThreads :
        Monitor!LatchWait(t) \/ Monitor!Wake(t) \/ Monitor!SpuriousWakeup(t)
  BY MonitorSteps
<1>2. Absent \subseteq QueueThreads /\ IsFiniteSet(Absent)
  BY ONLY ThreadsFinite, FS_Subset DEF Absent
<1> USE DEF LatchInv
<1>3. CASE Monitor!LatchWait(t)
  <2>1. /\ t \in Absent
        /\ Cardinality(Absent) \in Nat \ {0}
        /\ Cardinality(Absent \ {t}) = shared.mCount - 1
    BY <1>2, <1>3, OneLess DEF Monitor!LatchWait, Absent
  <2>2. shared' = [mCount |-> shared.mCount - 1]
    BY <1>3 DEF Monitor!LatchWait
  <2>3. CASE shared.mCount = 1
    <3>1. me' = [u \in QueueThreads |->
                   [pc |-> IF u = t THEN "passed"
                           ELSE IF me[u].pc = "asleep" THEN "woken" ELSE me[u].pc]]
      BY <1>3, <2>3 DEF Monitor!LatchWait, Monitor!notify_all, Monitor!Update
    <3>2. Absent' = Absent \ {t}
      BY ONLY <3>1 DEF Absent
    <3>3. shared'.mCount = 0 /\ \A u \in QueueThreads : me'[u].pc # "asleep"
      BY ONLY <2>2, <2>3, <3>1
    <3>4. me' \in [QueueThreads -> [pc : {"out", "asleep", "woken", "passed"}]]
      BY <3>1
    <3> QED BY ONLY <2>1, <2>2, <3>2, <3>3, <3>4
  <2>4. CASE shared.mCount # 1
    <3>1. me' = [me EXCEPT ![t] = [pc |-> "asleep"]]
      BY <1>3, <2>4 DEF Monitor!LatchWait, Monitor!Becomes, Monitor!Update
    <3>2. Absent' = Absent \ {t}
      BY <3>1 DEF Absent
    <3> QED BY <2>1, <2>2, <2>4, <3>1, <3>2
  <2> QED BY ONLY <2>3, <2>4
<1>4. CASE Monitor!Wake(t) \/ Monitor!SpuriousWakeup(t)
  <2>1. PICK label \in {"asleep", "woken", "passed"} : me' = [me EXCEPT ![t] = [pc |-> label]]
    BY <1>4 DEF Monitor!Wake, Monitor!SpuriousWakeup, Monitor!Becomes, Monitor!Update
  <2>2. /\ shared' = shared /\ me[t].pc \in {"asleep", "woken"}
        /\ label = "asleep" => shared.mCount # 0
        /\ label = "passed" => shared.mCount = 0
    BY <1>4, <2>1 DEF Monitor!Wake, Monitor!SpuriousWakeup, Monitor!Becomes, Monitor!Update,
      Monitor!Predicate
  <2>3. Absent' = Absent
    BY ONLY <2>1, <2>2 DEF Absent
  <2> QED BY <2>1, <2>2, <2>3
<1> QED BY ONLY <1>1, <1>3, <1>4

(* Future: only the getter sleeps, and not once the state is ready.        *)
FutureInv ==
  /\ shared \in [mIsReady : BOOLEAN, mData : {"nothing", "value", "exception", "moved"}]
  /\ me \in [QueueThreads ->
       [pc : {"out", "asleep", "woken"}, call : {"get", "wait"},
        got : {"nothing", "value", "exception", "moved"}]]
  /\ \A t \in QueueThreads :
       me[t].pc # "out" => t = Getter /\ (me[t].pc = "asleep" => ~shared.mIsReady)

LEMMA InitFuture == Monitor!FutureInit => FutureInv
BY DEF Monitor!FutureInit, Monitor!Everyone, FutureInv

LEMMA FutureUpdate ==
  ASSUME FutureInv, NEW t \in QueueThreads
  PROVE  /\ \A p : Monitor!Update(me[t], [pc |-> p])
                    = [pc |-> p, call |-> me[t].call, got |-> me[t].got]
         /\ \A p, c : Monitor!Update(me[t], [pc |-> p, call |-> c])
                       = [pc |-> p, call |-> c, got |-> me[t].got]
         /\ \A p, g : Monitor!Update(me[t], [pc |-> p, got |-> g])
                       = [pc |-> p, call |-> me[t].call, got |-> g]
<1> DEFINE r == me[t]
<1>1. r = [pc |-> r.pc, call |-> r.call, got |-> r.got]
  BY DEF FutureInv
<1> HIDE DEF r
<1>2. \A p : Monitor!Update(r, [pc |-> p]) = [pc |-> p, call |-> r.call, got |-> r.got]
  BY ONLY <1>1 DEF Monitor!Update
<1>3. \A p, c : Monitor!Update(r, [pc |-> p, call |-> c]) = [pc |-> p, call |-> c, got |-> r.got]
  BY ONLY <1>1 DEF Monitor!Update
<1>4. \A p, g : Monitor!Update(r, [pc |-> p, got |-> g]) = [pc |-> p, call |-> r.call, got |-> g]
  BY ONLY <1>1 DEF Monitor!Update
<1> QED BY ONLY <1>2, <1>3, <1>4 DEF r

LEMMA NextFuture ==
  ASSUME lock = "future", FutureInv, lock' = lock, MonitorNext
  PROVE  FutureInv'
<1>1. PICK t \in QueueThreads :
        \/ Monitor!SetData(t) \/ Monitor!FutureCall(t)
        \/ Monitor!Wake(t) \/ Monitor!SpuriousWakeup(t)
  BY MonitorSteps
<1>2. Promiser # Getter
  BY ONLY LockAssumptions DEF Monitor!RolesAssumption
<1> USE DEF FutureInv
<1>3. CASE Monitor!SetData(t)
  <2>1. /\ t # Getter
        /\ shared' \in [mIsReady : {TRUE}, mData : {"value", "exception"}]
    BY ONLY <1>2, <1>3 DEF Monitor!SetData
  <2>2. Monitor!notify_one(t, [pc |-> "out"])
    BY ONLY <1>3 DEF Monitor!SetData
  <2>3. Monitor!Update(me[t], [pc |-> "out"]) = [pc |-> "out", call |-> me[t].call, got |-> me[t].got]
    BY FutureUpdate
  <2> DEFINE R == [pc |-> "out", call |-> me[t].call, got |-> me[t].got]
             W == [pc |-> "woken", call |-> me[Getter].call, got |-> me[Getter].got]
  <2>4. CASE \E u \in QueueThreads \ {t} :
               me[u].pc = "asleep" /\ me' = [me EXCEPT ![u].pc = "woken", ![t] = R]
    <3>1. Getter \in QueueThreads \ {t} /\ me' = [me EXCEPT ![Getter].pc = "woken", ![t] = R]
      BY <2>1, <2>4
    <3>2. [me[Getter] EXCEPT !.pc = "woken"] = W
      BY <3>1
    <3> DEFINE M == [pc : {"out", "asleep", "woken"}, call : {"get", "wait"},
                     got : {"nothing", "value", "exception", "moved"}]
    <3>3. me \in [QueueThreads -> M] /\ R \in M /\ W \in M
      BY <3>1
    <3>4. W.pc = "woken" /\ R.pc = "out"
      OBVIOUS
    <3>5. /\ me' \in [QueueThreads -> M]
          /\ me'[t] = R /\ me'[Getter] = W
          /\ \A v \in QueueThreads \ {t, Getter} : me'[v] = me[v]
      <4> HIDE DEF W, R, FutureInv, M
      <4> QED BY ONLY <3>1, <3>2, <3>3
    <3>6. \A v \in QueueThreads : me'[v].pc # "out" => v = Getter /\ me'[v].pc # "asleep"
      <4> HIDE DEF W, R
      <4> QED BY <3>1, <3>4, <3>5
    <3> QED BY ONLY <2>1, <3>5, <3>6
  <2>5. CASE /\ \A u \in QueueThreads \ {t} : me[u].pc # "asleep"
             /\ me' = [me EXCEPT ![t] = R]
    BY <2>1, <2>5
  <2> QED BY ONLY <2>2, <2>3, <2>4, <2>5 DEF Monitor!notify_one, Monitor!Becomes
<1>4. CASE Monitor!FutureCall(t) \/ Monitor!Wake(t) \/ Monitor!SpuriousWakeup(t)
  <2>1. t = Getter
    BY <1>4 DEF Monitor!FutureCall, Monitor!Wake, Monitor!SpuriousWakeup
  <2>2. \/ \E call \in {"get", "wait"} : Monitor!Receive(t, call)
        \/ /\ ~shared.mIsReady /\ shared' = shared
           /\ \E call \in {"get", "wait"} :
                me' = [me EXCEPT ![t] = [pc |-> "asleep", call |-> call, got |-> me[t].got]]
        \/ /\ shared' = shared
           /\ me' = [me EXCEPT ![t] = [pc |-> "woken", call |-> me[t].call, got |-> me[t].got]]
    <3>1. CASE Monitor!FutureCall(t)
      <4>1. PICK call \in {"get", "wait"} :
              IF shared.mIsReady THEN Monitor!Receive(t, call)
              ELSE Monitor!Becomes(t, [pc |-> "asleep", call |-> call]) /\ shared' = shared
        BY ONLY <3>1 DEF Monitor!FutureCall
      <4>2. Monitor!Update(me[t], [pc |-> "asleep", call |-> call])
              = [pc |-> "asleep", call |-> call, got |-> me[t].got]
        BY FutureUpdate
      <4>3. Monitor!Becomes(t, [pc |-> "asleep", call |-> call]) =>
              me' = [me EXCEPT ![t] = [pc |-> "asleep", call |-> call, got |-> me[t].got]]
        BY ONLY <4>2 DEF Monitor!Becomes
      <4> QED BY ONLY <4>1, <4>3
    <3>2. CASE Monitor!Wake(t)
      <4>1. \/ ~shared.mIsReady /\ Monitor!Becomes(t, [pc |-> "asleep"]) /\ shared' = shared
            \/ Monitor!Receive(t, me[t].call)
        BY <3>2 DEF Monitor!Wake, Monitor!Predicate
      <4>2. me[t].call \in {"get", "wait"}
        OBVIOUS
      <4>3. Monitor!Becomes(t, [pc |-> "asleep"]) =>
              me' = [me EXCEPT ![t] = [pc |-> "asleep", call |-> me[t].call, got |-> me[t].got]]
        BY FutureUpdate DEF Monitor!Becomes
      <4> QED BY ONLY <4>1, <4>2, <4>3
    <3>3. CASE Monitor!SpuriousWakeup(t)
      BY <3>3, FutureUpdate DEF Monitor!SpuriousWakeup, Monitor!Becomes
    <3> QED BY ONLY <1>4, <3>1, <3>2, <3>3
  <2>3. ASSUME NEW call \in {"get", "wait"}, Monitor!Receive(t, call)
        PROVE  FutureInv'
    <3>1. PICK got \in {"nothing", "value", "exception", "moved"} :
            me' = [me EXCEPT ![t] = [pc |-> "out", call |-> me[t].call, got |-> got]]
      <4> DEFINE g == IF call = "get" THEN shared.mData ELSE me[t].got
      <4>1. g \in {"nothing", "value", "exception", "moved"}
        OBVIOUS
      <4>2. Monitor!Becomes(t, [pc |-> "out", got |-> g])
        BY ONLY <2>3 DEF Monitor!Receive
      <4> HIDE DEF g
      <4> QED BY <4>1, <4>2, FutureUpdate DEF Monitor!Becomes
    <3>2. /\ shared' \in [mIsReady : BOOLEAN, mData : {"nothing", "value", "exception", "moved"}]
          /\ shared'.mIsReady = shared.mIsReady
      BY <2>3 DEF Monitor!Receive
    <3> QED BY <3>1, <3>2
  <2> QED BY <2>1, <2>2, <2>3
<1> QED BY ONLY <1>1, <1>3, <1>4

(* InterruptibleThread: the last interruption point is reached only when     *)
(* the flag is set, which it then finds, or the predicate holds; neither is *)
(* ever taken back.                                                        *)
InterruptInv ==
  /\ shared \in [mInterruptFlag : BOOLEAN, mFlag : BOOLEAN, mCond : BOOLEAN,
                 hasPred : BOOLEAN, pred : BOOLEAN]
  /\ DOMAIN me = QueueThreads
  /\ \A t \in QueueThreads : DOMAIN me[t] = {"pc"}
  /\ \A t \in QueueThreads :
       /\ me[t].pc = "last" => shared.mFlag \/ (shared.hasPred /\ shared.pred)
       /\ me[t].pc = "returned" => shared.hasPred /\ shared.pred

LEMMA InitInterrupt == Monitor!InterruptInit => InterruptInv
BY DEF Monitor!InterruptInit, InterruptInv

LEMMA InterruptBecomes ==
  ASSUME InterruptInv, NEW t \in QueueThreads, NEW p, Monitor!Becomes(t, [pc |-> p])
  PROVE  /\ DOMAIN me' = QueueThreads
         /\ \A u \in QueueThreads : DOMAIN me'[u] = {"pc"}
         /\ \A u \in QueueThreads : me'[u].pc = IF u = t THEN p ELSE me[u].pc
<1>1. Monitor!Update(me[t], [pc |-> p]) = [pc |-> p]
  BY DEF InterruptInv, Monitor!Update
<1>2. me' = [me EXCEPT ![t] = [pc |-> p]]
  BY <1>1 DEF Monitor!Becomes
<1> QED BY <1>2 DEF InterruptInv

LEMMA InterruptNotifies ==
  ASSUME InterruptInv, NEW t \in QueueThreads, NEW p, Monitor!notify_all(t, [pc |-> p])
  PROVE  /\ DOMAIN me' = QueueThreads
         /\ \A u \in QueueThreads : DOMAIN me'[u] = {"pc"}
         /\ \A u \in QueueThreads :
              me'[u].pc = IF u = t THEN p
                          ELSE IF me[u].pc = "asleep" THEN "woken" ELSE me[u].pc
<1>1. Monitor!Update(me[t], [pc |-> p]) = [pc |-> p]
  BY DEF InterruptInv, Monitor!Update
<1>2. me' = [u \in QueueThreads |->
               IF u = t THEN [pc |-> p]
               ELSE IF me[u].pc = "asleep" THEN [me[u] EXCEPT !.pc = "woken"] ELSE me[u]]
  BY <1>1 DEF Monitor!notify_all
<1> QED BY <1>2 DEF InterruptInv

LEMMA NextInterrupt ==
  ASSUME lock = "interrupt", InterruptInv, lock' = lock, MonitorNext
  PROVE  InterruptInv'
<1>1. PICK t \in QueueThreads :
        \/ Monitor!Start(t) \/ Monitor!InterruptionPoint(t) \/ Monitor!SetConditionVariable(t)
        \/ Monitor!TestFlag(t) \/ Monitor!WaitFor(t) \/ Monitor!Timeout(t)
        \/ Monitor!WaitAgain(t) \/ Monitor!Notify(t) \/ Monitor!Interrupt(t) \/ Monitor!Satisfy(t)
  BY MonitorSteps
<1>2. CASE Monitor!Start(t) \/ Monitor!SetConditionVariable(t) \/ Monitor!Interrupt(t)
  <2>1. \E p \in {"point", "registered", "notify"} : Monitor!Becomes(t, [pc |-> p])
    BY ONLY <1>2 DEF Monitor!Start, Monitor!SetConditionVariable, Monitor!Interrupt
  <2>2. /\ shared' \in [mInterruptFlag : BOOLEAN, mFlag : BOOLEAN, mCond : BOOLEAN,
                         hasPred : BOOLEAN, pred : BOOLEAN]
        /\ shared.mFlag => shared'.mFlag
        /\ shared'.hasPred = shared.hasPred /\ shared'.pred = shared.pred
    BY <1>2 DEF Monitor!Start, Monitor!SetConditionVariable, Monitor!Interrupt, InterruptInv
  <2> QED BY <2>1, <2>2, InterruptBecomes DEF InterruptInv
<1>3. CASE Monitor!InterruptionPoint(t)
  <2>1. PICK p \in {"ended", "register", "test", "returned"} :
          /\ Monitor!Becomes(t, [pc |-> p])
          /\ p = "returned" => ~shared.mFlag /\ me[t].pc = "last"
    BY ONLY <1>3 DEF Monitor!InterruptionPoint
  <2> QED BY <1>3, <2>1, InterruptBecomes DEF InterruptInv, Monitor!InterruptionPoint
<1>4. CASE Monitor!TestFlag(t) \/ Monitor!WaitFor(t)
  <2>1. PICK p \in {"last", "pred", "asleep"} :
          /\ Monitor!Becomes(t, [pc |-> p]) /\ shared' = shared
          /\ p = "last" => shared.mFlag \/ (shared.hasPred /\ shared.pred)
    BY ONLY <1>4 DEF Monitor!TestFlag, Monitor!WaitFor
  <2> QED BY <2>1, InterruptBecomes DEF InterruptInv
<1>5. CASE Monitor!Timeout(t) \/ Monitor!WaitAgain(t)
  <2>1. shared' = shared /\ \E p \in {"woken", "point"} : Monitor!Becomes(t, [pc |-> p])
    BY ONLY <1>5 DEF Monitor!Timeout, Monitor!WaitAgain
  <2> QED BY <2>1, InterruptBecomes DEF InterruptInv
<1>6. CASE Monitor!Notify(t)
  <2>1. /\ shared' = shared
        /\ Monitor!notify_all(t, [pc |-> "out"]) \/ Monitor!Becomes(t, [pc |-> "out"])
    BY ONLY <1>6 DEF Monitor!Notify
  <2> QED BY <2>1, InterruptBecomes, InterruptNotifies DEF InterruptInv
<1>7. CASE Monitor!Satisfy(t)
  <2>1. Monitor!notify_all(t, [pc |-> "out"])
    BY ONLY <1>7 DEF Monitor!Satisfy
  <2>2. /\ shared' \in [mInterruptFlag : BOOLEAN, mFlag : BOOLEAN, mCond : BOOLEAN,
                         hasPred : BOOLEAN, pred : BOOLEAN]
        /\ shared'.mFlag = shared.mFlag /\ shared'.hasPred = shared.hasPred /\ shared'.pred
    BY <1>7 DEF Monitor!Satisfy, InterruptInv
  <2> QED BY <2>1, <2>2, InterruptNotifies DEF InterruptInv
<1> QED BY ONLY <1>1, <1>2, <1>3, <1>4, <1>5, <1>6, <1>7

(* Double-checked initialization: the holder of gLock is alone, and knows    *)
(* of the data once they are made; so does who finds the flag set.         *)
Holding == {"check", "make", "publish", "unlock"}

InitializationInv ==
  /\ shared \in [gInitFlag : BOOLEAN, made : {0, 1}, holder : SUBSET QueueThreads,
                 synchronized : BOOLEAN]
  /\ me \in [QueueThreads ->
       [pc : {"out", "lock", "process"} \cup Holding, synchronized : BOOLEAN]]
  /\ \A t \in QueueThreads : me[t].pc \in Holding <=> shared.holder = {t}
  /\ shared.holder # {} => \E t \in QueueThreads : shared.holder = {t}
  /\ shared.gInitFlag => shared.made = 1
  /\ shared.made = 1 =>
       \/ shared.gInitFlag
       \/ \E t \in QueueThreads : me[t].pc = "publish"
  /\ shared.gInitFlag /\ shared.holder = {} => shared.synchronized
  /\ \A t \in QueueThreads :
       /\ me[t].pc = "make" => ~shared.gInitFlag
       /\ me[t].pc = "publish" => ~shared.gInitFlag /\ shared.made = 1
       /\ me[t].pc \in {"unlock", "process"} => shared.gInitFlag
       /\ me[t].pc \in {"publish", "unlock", "process"} => me[t].synchronized
       /\ me[t].pc = "check" /\ shared.gInitFlag => me[t].synchronized

LEMMA InitInitialization == Monitor!InitializationInit => InitializationInv
BY DEF Monitor!InitializationInit, Monitor!Everyone, InitializationInv, Holding

LEMMA InitializationBecomes ==
  ASSUME InitializationInv, NEW t \in QueueThreads,
         NEW p \in {"out", "lock", "process"} \cup Holding, NEW b \in BOOLEAN,
         \/ Monitor!Becomes(t, [pc |-> p, synchronized |-> b])
         \/ b = me[t].synchronized /\ Monitor!Becomes(t, [pc |-> p])
  PROVE  /\ me' \in [QueueThreads ->
              [pc : {"out", "lock", "process"} \cup Holding, synchronized : BOOLEAN]]
         /\ \A u \in QueueThreads :
              /\ me'[u].pc = IF u = t THEN p ELSE me[u].pc
              /\ me'[u].synchronized = IF u = t THEN b ELSE me[u].synchronized
<1> DEFINE r == me[t]
<1>1. r = [pc |-> r.pc, synchronized |-> r.synchronized]
  BY DEF InitializationInv
<1>2. Monitor!Update(r, [pc |-> p]) = [pc |-> p, synchronized |-> r.synchronized]
  <2> HIDE DEF r
  <2> QED BY ONLY <1>1 DEF Monitor!Update
<1>3. Monitor!Update(r, [pc |-> p, synchronized |-> b]) = [pc |-> p, synchronized |-> b]
  <2> HIDE DEF r
  <2> QED BY ONLY <1>1 DEF Monitor!Update
<1>4. me' = [me EXCEPT ![t] = [pc |-> p, synchronized |-> b]]
  BY <1>2, <1>3 DEF Monitor!Becomes
<1> QED BY <1>4 DEF InitializationInv

LEMMA NextInitialization ==
  ASSUME lock = "initialization", InitializationInv, lock' = lock, MonitorNext
  PROVE  InitializationInv'
<1>1. PICK t \in QueueThreads :
        \/ Monitor!LockGuard(t) \/ Monitor!SecondCheck(t) \/ Monitor!Make(t)
        \/ Monitor!Publish(t) \/ Monitor!Unlock(t) \/ Monitor!Process(t) \/ Monitor!FirstCheck(t)
  BY MonitorSteps
<1>0. /\ me[t].synchronized \in BOOLEAN /\ shared.synchronized \in BOOLEAN
      /\ shared.gInitFlag \in BOOLEAN
  BY DEF InitializationInv
<1>2. CASE Monitor!FirstCheck(t)
  <2>1. /\ me[t].pc = "out" /\ shared' = shared
        /\ \/ shared.gInitFlag /\ Monitor!Becomes(t, [pc |-> "process", synchronized |-> TRUE])
           \/ ~shared.gInitFlag /\ Monitor!Becomes(t, [pc |-> "lock"])
    BY ONLY <1>2 DEF Monitor!FirstCheck
  <2>2. PICK p \in {"process", "lock"}, b \in BOOLEAN :
          /\ \/ Monitor!Becomes(t, [pc |-> p, synchronized |-> b])
             \/ b = me[t].synchronized /\ Monitor!Becomes(t, [pc |-> p])
          /\ p = "process" => shared.gInitFlag /\ b
    BY ONLY <2>1, <1>0
  <2> QED BY <2>1, <2>2, InitializationBecomes DEF InitializationInv, Holding
<1>3. CASE Monitor!LockGuard(t)
  <2>1. /\ me[t].pc = "lock" /\ shared.holder = {} /\ shared' = [shared EXCEPT !.holder = {t}]
        /\ Monitor!Becomes(t, [pc |-> "check",
                               synchronized |-> me[t].synchronized \/ shared.synchronized])
    BY ONLY <1>3 DEF Monitor!LockGuard
  <2>2. PICK b \in BOOLEAN :
          /\ Monitor!Becomes(t, [pc |-> "check", synchronized |-> b])
          /\ shared.synchronized => b
    BY ONLY <2>1, <1>0
  <2>3. /\ me' \in [QueueThreads ->
                  [pc : {"out", "lock", "process"} \cup Holding, synchronized : BOOLEAN]]
        /\ \A u \in QueueThreads :
             /\ me'[u].pc = IF u = t THEN "check" ELSE me[u].pc
             /\ me'[u].synchronized = IF u = t THEN b ELSE me[u].synchronized
    BY <2>1, <2>2, <1>0, InitializationBecomes DEF Holding
  <2>4. /\ shared' \in [gInitFlag : BOOLEAN, made : {0, 1}, holder : SUBSET QueueThreads,
                         synchronized : BOOLEAN]
        /\ shared'.gInitFlag = shared.gInitFlag /\ shared'.made = shared.made
        /\ shared'.holder = {t} /\ shared'.synchronized = shared.synchronized
    BY <2>1, <2>2 DEF InitializationInv
  <2>5. ASSUME NEW u \in QueueThreads \ {t}
        PROVE  /\ me[u].pc \notin Holding /\ me'[u].pc = me[u].pc
               /\ me'[u].synchronized = me[u].synchronized
    <3>1. shared.holder = {}
      BY ONLY <2>1
    <3>2. me[u].pc \notin Holding
      BY <3>1, Zenon DEF InitializationInv
    <3> QED BY ONLY <2>3, <3>2
  <2> QED BY <2>1, <2>2, <2>3, <2>4, <2>5, ZenonT(40) DEF InitializationInv, Holding
<1>4. CASE Monitor!SecondCheck(t)
  <2>1. /\ me[t].pc = "check" /\ shared' = shared
        /\ \/ shared.gInitFlag /\ Monitor!Becomes(t, [pc |-> "unlock"])
           \/ ~shared.gInitFlag /\ Monitor!Becomes(t, [pc |-> "make"])
    BY ONLY <1>4 DEF Monitor!SecondCheck
  <2>2. PICK p \in {"unlock", "make"} :
          Monitor!Becomes(t, [pc |-> p]) /\ (p = "unlock" <=> shared.gInitFlag)
    BY ONLY <2>1, <1>0
  <2>3. /\ me' \in [QueueThreads ->
                  [pc : {"out", "lock", "process"} \cup Holding, synchronized : BOOLEAN]]
        /\ \A u \in QueueThreads :
             /\ me'[u].pc = IF u = t THEN p ELSE me[u].pc
             /\ me'[u].synchronized = IF u = t THEN me[t].synchronized ELSE me[u].synchronized
    BY <2>1, <2>2, <1>0, InitializationBecomes DEF Holding
  <2>4. /\ shared' \in [gInitFlag : BOOLEAN, made : {0, 1}, holder : SUBSET QueueThreads,
                         synchronized : BOOLEAN]
        /\ shared'.gInitFlag = shared.gInitFlag /\ shared'.made = shared.made
        /\ shared'.holder = shared.holder /\ shared'.synchronized = shared.synchronized
    BY <2>1, <2>2 DEF InitializationInv
  <2> QED BY <2>1, <2>2, <2>3, <2>4, ZenonT(40) DEF InitializationInv, Holding
<1>5. CASE Monitor!Make(t)
  <2>1. /\ me[t].pc = "make" /\ shared' = [shared EXCEPT !.made = shared.made + 1]
        /\ Monitor!Becomes(t, [pc |-> "publish", synchronized |-> TRUE])
    BY ONLY <1>5 DEF Monitor!Make
  <2>2. ~shared.gInitFlag /\ shared.made = 0
    BY <2>1 DEF InitializationInv, Holding
  <2>3. /\ me' \in [QueueThreads ->
                  [pc : {"out", "lock", "process"} \cup Holding, synchronized : BOOLEAN]]
        /\ \A u \in QueueThreads :
             /\ me'[u].pc = IF u = t THEN "publish" ELSE me[u].pc
             /\ me'[u].synchronized = IF u = t THEN TRUE ELSE me[u].synchronized
    BY <2>1, <2>2, <1>0, InitializationBecomes DEF Holding
  <2>4. /\ shared' \in [gInitFlag : BOOLEAN, made : {0, 1}, holder : SUBSET QueueThreads,
                         synchronized : BOOLEAN]
        /\ shared'.gInitFlag = shared.gInitFlag /\ shared'.made = 1
        /\ shared'.holder = shared.holder /\ shared'.synchronized = shared.synchronized
    BY <2>1, <2>2 DEF InitializationInv
  <2> QED BY <2>1, <2>2, <2>3, <2>4, ZenonT(40) DEF InitializationInv, Holding
<1>6. CASE Monitor!Publish(t)
  <2>1. /\ me[t].pc = "publish" /\ shared' = [shared EXCEPT !.gInitFlag = TRUE]
        /\ Monitor!Becomes(t, [pc |-> "unlock"])
    BY ONLY <1>6 DEF Monitor!Publish
  <2>2. ~shared.gInitFlag /\ shared.made = 1 /\ me[t].synchronized
    BY <2>1 DEF InitializationInv
  <2>3. /\ me' \in [QueueThreads ->
                  [pc : {"out", "lock", "process"} \cup Holding, synchronized : BOOLEAN]]
        /\ \A u \in QueueThreads :
             /\ me'[u].pc = IF u = t THEN "unlock" ELSE me[u].pc
             /\ me'[u].synchronized = IF u = t THEN TRUE ELSE me[u].synchronized
    BY <2>1, <2>2, <1>0, InitializationBecomes DEF Holding
  <2>4. /\ shared' \in [gInitFlag : BOOLEAN, made : {0, 1}, holder : SUBSET QueueThreads,
                         synchronized : BOOLEAN]
        /\ shared'.gInitFlag = TRUE /\ shared'.made = shared.made
        /\ shared'.holder = shared.holder /\ shared'.synchronized = shared.synchronized
    BY <2>1, <2>2 DEF InitializationInv
  <2>5. ASSUME NEW u \in QueueThreads \ {t}
        PROVE  /\ me[u].pc \notin Holding /\ me'[u].pc = me[u].pc
               /\ me'[u].synchronized = me[u].synchronized
    <3>1. shared.holder = {t}
      BY <2>1, Zenon DEF InitializationInv, Holding
    <3>2. me[u].pc \notin Holding
      BY <3>1, Zenon DEF InitializationInv
    <3> QED BY ONLY <2>3, <3>2
  <2> QED BY <2>1, <2>2, <2>3, <2>4, <2>5, ZenonT(40) DEF InitializationInv, Holding
<1>7. CASE Monitor!Unlock(t)
  <2>1. /\ me[t].pc = "unlock" /\ me[t].synchronized
        /\ shared' = [shared EXCEPT !.holder = {}, !.synchronized = TRUE]
        /\ Monitor!Becomes(t, [pc |-> "process"])
    BY <1>7 DEF Monitor!Unlock, InitializationInv
  <2>2. shared.gInitFlag /\ shared.made = 1 /\ me[t].synchronized
    BY <2>1 DEF InitializationInv
  <2>3. /\ me' \in [QueueThreads ->
                  [pc : {"out", "lock", "process"} \cup Holding, synchronized : BOOLEAN]]
        /\ \A u \in QueueThreads :
             /\ me'[u].pc = IF u = t THEN "process" ELSE me[u].pc
             /\ me'[u].synchronized = IF u = t THEN TRUE ELSE me[u].synchronized
    BY <2>1, <2>2, <1>0, InitializationBecomes DEF Holding
  <2>4. /\ shared' \in [gInitFlag : BOOLEAN, made : {0, 1}, holder : SUBSET QueueThreads,
                         synchronized : BOOLEAN]
        /\ shared'.gInitFlag = shared.gInitFlag /\ shared'.made = shared.made
        /\ shared'.holder = {} /\ shared'.synchronized = TRUE
    BY <2>1, <2>2 DEF InitializationInv
  <2>5. ASSUME NEW u \in QueueThreads \ {t}
        PROVE  /\ me[u].pc \notin Holding /\ me'[u].pc = me[u].pc
               /\ me'[u].synchronized = me[u].synchronized
    <3>1. shared.holder = {t}
      BY <2>1, Zenon DEF InitializationInv, Holding
    <3>2. me[u].pc \notin Holding
      BY <3>1, Zenon DEF InitializationInv
    <3> QED BY ONLY <2>3, <3>2
  <2> QED BY <2>1, <2>2, <2>3, <2>4, <2>5, ZenonT(40) DEF InitializationInv, Holding
<1>8. CASE Monitor!Process(t)
  <2>1. /\ me[t].pc = "process" /\ shared' = shared /\ Monitor!Becomes(t, [pc |-> "out"])
    BY ONLY <1>8 DEF Monitor!Process
  <2>2. me[t].synchronized \in BOOLEAN
    BY ONLY <1>0
  <2>3. /\ me' \in [QueueThreads ->
                  [pc : {"out", "lock", "process"} \cup Holding, synchronized : BOOLEAN]]
        /\ \A u \in QueueThreads :
             /\ me'[u].pc = IF u = t THEN "out" ELSE me[u].pc
             /\ me'[u].synchronized = IF u = t THEN me[t].synchronized ELSE me[u].synchronized
    BY <2>1, <2>2, <1>0, InitializationBecomes DEF Holding
  <2>4. /\ shared' \in [gInitFlag : BOOLEAN, made : {0, 1}, holder : SUBSET QueueThreads,
                         synchronized : BOOLEAN]
        /\ shared'.gInitFlag = shared.gInitFlag /\ shared'.made = shared.made
        /\ shared'.holder = shared.holder /\ shared'.synchronized = shared.synchronized
    BY <2>1, <2>2 DEF InitializationInv
  <2> QED BY <2>1, <2>2, <2>3, <2>4, ZenonT(40) DEF InitializationInv, Holding
<1> QED BY ONLY <1>1, <1>2, <1>3, <1>4, <1>5, <1>6, <1>7, <1>8

MonitorInv ==
  /\ lock = "barrier" => BarrierInv
  /\ lock = "latch" => LatchInv
  /\ lock = "future" => FutureInv
  /\ lock = "interrupt" => InterruptInv
  /\ lock = "initialization" => InitializationInv

LEMMA InitMonitor == LockInit => MonitorInv
BY ONLY LockKinds, InitBarrier, InitLatch, InitFuture, InitInterrupt, InitInitialization
DEF MonitorInv, MonitorKinds, Monitor!Init, Monitor!BarrierInit, Monitor!LatchInit,
  Monitor!FutureInit, Monitor!InterruptInit, Monitor!InitializationInit

LEMMA NextMonitor == MonitorInv /\ [LockNext]_lockVars => MonitorInv'
<1> SUFFICES ASSUME MonitorInv, [LockNext]_lockVars PROVE MonitorInv'
  OBVIOUS
<1>1. CASE LockNext /\ lock \in MonitorKinds
  BY <1>1, LockSteps, NextBarrier, NextLatch, NextFuture, NextInterrupt, NextInitialization
  DEF MonitorInv, MonitorKinds
<1>2. CASE LockNext /\ lock \notin MonitorKinds
  BY ONLY <1>2, LockSteps DEF MonitorInv, MonitorKinds
<1>3. CASE UNCHANGED lockVars
  BY <1>3 DEF lockVars, otherVars, MonitorInv, BarrierInv, LatchInv, FutureInv, InterruptInv,
    InitializationInv, Missing, Absent, Monitor!Waiting, Monitor!Predicate
<1> QED BY <1>1, <1>2, <1>3

-----------------------------------------------------------------------------
(* RESULTS                                                                 *)

(* Barrier and Latch let nobody through before all have arrived, and the     *)
(* worker of InterruptibleThread does not return before its predicate holds; *)
(* double-checked initialization makes the data once, before their use.    *)
THEOREM NobodyEarlyCorrect == LockSpec => []NobodyEarly
<1>1. MonitorInv => NobodyEarly
  <2> SUFFICES ASSUME MonitorInv PROVE Monitor!NobodyEarly /\ Monitor!InitializedOnce
    BY DEF NobodyEarly
  <2>1. CASE lock = "barrier"
    BY <2>1, SameFiniteSets DEF MonitorInv, BarrierInv, Missing, Monitor!NobodyEarly,
      Monitor!InitializedOnce
  <2>2. CASE lock = "latch"
    <3>1. shared.mCount = 0 => Absent = {}
      BY <2>2, ThreadsFinite, FS_Subset, FS_EmptySet DEF MonitorInv, LatchInv, Absent
    <3> QED BY <2>2, <3>1 DEF MonitorInv, LatchInv, Absent, Monitor!NobodyEarly,
      Monitor!InitializedOnce
  <2>3. CASE lock = "interrupt"
    BY <2>3, LockAssumptions DEF MonitorInv, InterruptInv, Monitor!NobodyEarly,
      Monitor!InitializedOnce, Monitor!RolesAssumption
  <2>4. CASE lock = "initialization"
    BY <2>4 DEF MonitorInv, InitializationInv, Monitor!NobodyEarly, Monitor!InitializedOnce
  <2>5. CASE lock \notin {"barrier", "latch", "interrupt", "initialization"}
    BY ONLY <2>5 DEF Monitor!NobodyEarly, Monitor!InitializedOnce
  <2> QED BY ONLY <2>1, <2>2, <2>3, <2>4, <2>5
<1> QED BY InitMonitor, NextMonitor, <1>1, PTL DEF LockSpec

(* Nobody who waits at a Barrier or Latch or for a Future sleeps, with no    *)
(* notification on its way, once what it waits for has happened.           *)
THEOREM NoSleeperForgottenCorrect == LockSpec => []NoSleeperForgotten
<1>1. MonitorInv => NoSleeperForgotten
  BY DEF MonitorInv, BarrierInv, LatchInv, FutureInv, NoSleeperForgotten,
    Monitor!NoSleeperForgotten, Monitor!CanSleep, Monitor!Predicate
<1> QED BY InitMonitor, NextMonitor, <1>1, PTL DEF LockSpec
=============================================================================
