--------------------------- MODULE LockBasedProofs --------------------------
(***************************************************************************)
(* Machine-checked proofs, for any number of threads, values, keys and     *)
(* buckets and any hash function, of what the lock-based data structures   *)
(* promise.                                                                *)
(***************************************************************************)
EXTENDS LockBased, FiniteSetTheorems, SequenceTheorems, TLAPS

(* A leaf may take a prover half a minute.                                 *)
USE SMTT(30), ZenonT(30)

(* Each instance has the standard modules of its own.                      *)
LEMMA SameCardinality ==
  ASSUME NEW S
  PROVE  /\ Stack!Cardinality(S) = Cardinality(S)
         /\ Map!Cardinality(S) = Cardinality(S)
         /\ FixedSize!Cardinality(S) = Cardinality(S)
         /\ Striped!Cardinality(S) = Cardinality(S)
         /\ Refinable!Cardinality(S) = Cardinality(S)
BY ONLY DEF Cardinality, Stack!Cardinality, Map!Cardinality, FixedSize!Cardinality,
            Striped!Cardinality, Refinable!Cardinality

-----------------------------------------------------------------------------
(* ThreadSafeQueue.                                                        *)

Popping == {"popLock", "check", "wait", "waiting", "copy", "pop"}

QueueInv ==
  /\ TypeOK
  /\ NeverTheDummy
  /\ \A t \in Threads : pc[t] \in Popping => t \in Consumers
  /\ \A t \in Threads : pc[t] \in {"pushLock", "append"} => val[t] \in Values

LEMMA InitQueue == Init => QueueInv
BY ONLY ThreadsAssumption, EmptySeq, SMTT(30)
DEF Init, QueueInv, TypeOK, NeverTheDummy, Popping, Threads

(* What does not touch the contents or either mutex.                       *)
LEMMA QueueOutside ==
  ASSUME QueueInv, NEW t \in Threads,
         CallPush(t) \/ CallPop(t) \/ Return(t)
  PROVE  QueueInv'
<1>1. CASE CallPush(t)
  BY ONLY QueueInv, <1>1, ThreadsAssumption, SMTT(30)
  DEF QueueInv, TypeOK, NeverTheDummy, Popping, CallPush, Goto
<1>2. CASE CallPop(t)
  BY ONLY QueueInv, <1>2, ThreadsAssumption, SMTT(30)
  DEF QueueInv, TypeOK, NeverTheDummy, Popping, CallPop, Goto
<1>3. CASE Return(t)
  BY ONLY QueueInv, <1>3, ThreadsAssumption, SMTT(30)
  DEF QueueInv, TypeOK, NeverTheDummy, Popping, Return, Goto
<1> QED BY ONLY <1>1, <1>2, <1>3, CallPush(t) \/ CallPop(t) \/ Return(t)

LEMMA QueuePushes ==
  ASSUME QueueInv, NEW t \in Threads,
         PushLock(t) \/ PushAppend(t) \/ Notify(t)
  PROVE  QueueInv'
<1>1. CASE PushLock(t)
  BY ONLY QueueInv, <1>1, ThreadsAssumption, SMTT(30)
  DEF QueueInv, TypeOK, NeverTheDummy, Popping, PushLock, Goto
<1>2. CASE PushAppend(t)
  <2>1. contents' \in Seq(Values) /\ contents' # <<>>
    BY ONLY QueueInv, <1>2, AppendProperties, EmptySeq, SMTT(30)
    DEF QueueInv, TypeOK, PushAppend
  <2> QED
    BY ONLY QueueInv, <1>2, <2>1, ThreadsAssumption, SMTT(30)
    DEF QueueInv, TypeOK, NeverTheDummy, Popping, PushAppend, Goto
<1>3. CASE Notify(t)
  BY ONLY QueueInv, <1>3, ThreadsAssumption, SMTT(30)
  DEF QueueInv, TypeOK, NeverTheDummy, Popping, Notify, Goto
<1> QED BY ONLY <1>1, <1>2, <1>3, PushLock(t) \/ PushAppend(t) \/ Notify(t)

LEMMA QueuePops ==
  ASSUME QueueInv, NEW t \in Threads,
         \/ PopLock(t) \/ Check(t) \/ Wait(t) \/ SpuriousWakeup(t) \/ Copy(t)
         \/ PopHead(t)
  PROVE  QueueInv'
<1>1. CASE PopLock(t)
  BY ONLY QueueInv, <1>1, ThreadsAssumption, SMTT(30)
  DEF QueueInv, TypeOK, NeverTheDummy, Popping, PopLock, Goto
<1>2. CASE Check(t)
  BY ONLY QueueInv, <1>2, ThreadsAssumption, SMTT(30)
  DEF QueueInv, TypeOK, NeverTheDummy, Popping, Check, Goto
<1>3. CASE Wait(t)
  BY ONLY QueueInv, <1>3, ThreadsAssumption, SMTT(30)
  DEF QueueInv, TypeOK, NeverTheDummy, Popping, Wait, Goto
<1>4. CASE SpuriousWakeup(t)
  BY ONLY QueueInv, <1>4, ThreadsAssumption, SMTT(30)
  DEF QueueInv, TypeOK, NeverTheDummy, Popping, SpuriousWakeup, Goto
<1>5. CASE Copy(t)
  BY ONLY QueueInv, <1>5, ThreadsAssumption, SMTT(30)
  DEF QueueInv, TypeOK, NeverTheDummy, Popping, Copy, Goto
<1>6. CASE PopHead(t)
  <2>1. Head(contents) \in Values /\ Tail(contents) \in Seq(Values)
    BY ONLY QueueInv, <1>6, HeadTailProperties, SMTT(30)
    DEF QueueInv, TypeOK, NeverTheDummy, PopHead
  <2> QED
    BY ONLY QueueInv, <1>6, <2>1, ThreadsAssumption, SMTT(30)
    DEF QueueInv, TypeOK, NeverTheDummy, Popping, PopHead, Goto
<1> QED
  BY ONLY <1>1, <1>2, <1>3, <1>4, <1>5, <1>6,
          \/ PopLock(t) \/ Check(t) \/ Wait(t) \/ SpuriousWakeup(t) \/ Copy(t)
          \/ PopHead(t)

LEMMA NextQueue == ASSUME QueueInv, Next PROVE QueueInv'
<1> PICK t \in Threads : Call(t) \/ Step(t) \/ SpuriousWakeup(t)
  BY ONLY Next DEF Next
<1> QED
  BY ONLY QueueInv, Call(t) \/ Step(t) \/ SpuriousWakeup(t),
          QueueOutside, QueuePushes, QueuePops
  DEF Call, Step

-----------------------------------------------------------------------------
(* ThreadSafeStack.                                                        *)

Takers == {t \in Threads : at[t] \in {"pop", "try_pop"}}

StackInv ==
  /\ Stack!StackTypeOK
  /\ Stack!NoneForgotten
  /\ \A t \in Threads : at[t] = "push" => item[t] \in Values

LEMMA InitStack == Stack!StackInit => StackInv
BY ONLY EmptySeq, SMTT(30)
DEF Stack!StackInit, StackInv, Stack!StackTypeOK, Stack!NoneForgotten

(* One more thread on its way to a value, or one fewer.                    *)
LEMMA TakersCounted ==
  /\ IsFiniteSet(Takers) /\ Cardinality(Takers) \in Nat
  /\ \A u \in Threads : u \notin Takers =>
       Cardinality(Takers \cup {u}) = Cardinality(Takers) + 1
  /\ \A u \in Takers : Cardinality(Takers \ {u}) = Cardinality(Takers) - 1
<1>1. IsFiniteSet(Takers)
  BY ONLY ThreadsAssumption, FS_Subset DEF Takers
<1>2. Cardinality(Takers) \in Nat
  BY ONLY <1>1, FS_CardinalityType
<1>3. \A u \in Threads : u \notin Takers =>
        Cardinality(Takers \cup {u}) = Cardinality(Takers) + 1
  BY ONLY <1>1, FS_AddElement
<1>4. \A u \in Takers : Cardinality(Takers \ {u}) = Cardinality(Takers) - 1
  BY ONLY <1>1, FS_RemoveElement
<1> QED BY ONLY <1>1, <1>2, <1>3, <1>4

(* What the stack counts, in terms of Takers.                              *)
Enough == (\E t \in Threads : at[t] = "waiting") => Len(mStack) <= Cardinality(Takers)

LEMMA EnoughIsNoneForgotten == Enough <=> Stack!NoneForgotten
<1>1. Stack!Cardinality({t \in Threads : at[t] \in {"pop", "try_pop"}})
        = Cardinality({t \in Threads : at[t] \in {"pop", "try_pop"}})
  BY ONLY SameCardinality, Zenon
<1> QED BY ONLY <1>1, Zenon DEF Enough, Stack!NoneForgotten, Takers

LEMMA StackPush ==
  ASSUME StackInv, NEW t \in Threads, Stack!pushImpl(t)
  PROVE  StackInv'
<1>1. /\ mStack \in Seq(Values) /\ item[t] \in Values /\ at[t] = "push"
      /\ at \in [Threads -> {"idle", "push", "pop", "try_pop", "waiting", "done"}]
      /\ item \in [Threads -> Values \cup {NoValue}]
  BY ONLY StackInv, Stack!pushImpl(t) DEF StackInv, Stack!StackTypeOK, Stack!pushImpl
<1>2. mStack' \in Seq(Values) /\ Len(mStack') = Len(mStack) + 1 /\ Len(mStack) \in Nat
  BY ONLY <1>1, Stack!pushImpl(t), ConcatProperties, LenProperties, SMTT(30)
  DEF Stack!pushImpl
<1>3. Stack!StackTypeOK' /\ \A u \in Threads : at'[u] = "push" => item'[u] \in Values
  BY ONLY StackInv, Stack!pushImpl(t), <1>1, <1>2, SMTT(30)
  DEF StackInv, Stack!StackTypeOK, Stack!pushImpl
<1>4. Enough'
  <2>1. CASE \A u \in Threads : at[u] # "waiting"
    BY ONLY <2>1, <1>1, Stack!pushImpl(t), SMTT(30) DEF Enough, Stack!pushImpl
  <2>2. CASE \E u \in Threads : at[u] = "waiting"
    <3> PICK u \in Threads :
          at[u] = "waiting" /\ at' = [at EXCEPT ![t] = "done", ![u] = "pop"]
      BY ONLY <2>2, Stack!pushImpl(t) DEF Stack!pushImpl
    <3>1. Takers' = Takers \cup {u} /\ u \notin Takers
      BY ONLY <1>1, at[u] = "waiting", at' = [at EXCEPT ![t] = "done", ![u] = "pop"],
              SMTT(30)
      DEF Takers
    <3>2. Len(mStack) <= Cardinality(Takers)
      BY ONLY StackInv, <2>2, EnoughIsNoneForgotten DEF StackInv, Enough
    <3> QED
      BY ONLY <3>1, <3>2, <1>2, TakersCounted, SMTT(30) DEF Enough
  <2> QED BY ONLY <2>1, <2>2
<1>5. Stack!NoneForgotten'
  BY ONLY <1>4, EnoughIsNoneForgotten, PTL
<1> QED BY ONLY <1>3, <1>5 DEF StackInv

(* Both forms of pop.                                                      *)
LEMMA StackPop ==
  ASSUME StackInv, NEW t \in Threads, Stack!pop(t) \/ Stack!try_pop(t)
  PROVE  StackInv'
<1>1. /\ mStack \in Seq(Values) /\ t \in Takers
      /\ at \in [Threads -> {"idle", "push", "pop", "try_pop", "waiting", "done"}]
      /\ item \in [Threads -> Values \cup {NoValue}]
  BY ONLY StackInv, Stack!pop(t) \/ Stack!try_pop(t), SMTT(30)
  DEF StackInv, Stack!StackTypeOK, Stack!pop, Stack!try_pop, Takers
<1>2. CASE mStack # <<>>
  <2>1. Stack!Take(t)
    BY ONLY <1>2, Stack!pop(t) \/ Stack!try_pop(t) DEF Stack!pop, Stack!try_pop
  <2>2. /\ Head(mStack) \in Values /\ mStack' \in Seq(Values)
        /\ Len(mStack') = Len(mStack) - 1 /\ Len(mStack) \in Nat
    BY ONLY <1>1, <1>2, <2>1, HeadTailProperties, LenProperties, SMTT(30)
    DEF Stack!Take
  <2>3. Stack!StackTypeOK' /\ \A u \in Threads : at'[u] = "push" => item'[u] \in Values
    BY ONLY StackInv, <1>1, <2>1, <2>2, SMTT(30)
    DEF StackInv, Stack!StackTypeOK, Stack!Take
  <2>4. Takers' = Takers \ {t}
    BY ONLY <1>1, <2>1, SMTT(30) DEF Takers, Stack!Take
  <2>5. \A u \in Threads : at'[u] = "waiting" => at[u] = "waiting"
    BY ONLY <1>1, <2>1, SMTT(30) DEF Stack!Take
  <2>6. Enough
    BY ONLY StackInv, EnoughIsNoneForgotten DEF StackInv
  <2>7. Enough'
    BY ONLY <1>1, <2>2, <2>4, <2>5, <2>6, TakersCounted, SMTT(30) DEF Enough
  <2>8. Stack!NoneForgotten'
    BY ONLY <2>7, EnoughIsNoneForgotten, PTL
  <2> QED BY ONLY <2>3, <2>8 DEF StackInv
<1>3. CASE mStack = <<>>
  <2>1. mStack' = <<>> /\ item' = item
    BY ONLY <1>3, Stack!pop(t) \/ Stack!try_pop(t), SMTT(30)
    DEF Stack!pop, Stack!try_pop, Stack!Take
  <2>2. Stack!StackTypeOK' /\ \A u \in Threads : at'[u] = "push" => item'[u] \in Values
    BY ONLY StackInv, <1>1, <1>3, <2>1, Stack!pop(t) \/ Stack!try_pop(t), SMTT(30)
    DEF StackInv, Stack!StackTypeOK, Stack!pop, Stack!try_pop, Stack!Take
  <2>3. Enough'
    <3>1. IsFiniteSet(Takers')
      BY ONLY ThreadsAssumption, FS_Subset, SMTT(30) DEF Takers
    <3>2. Cardinality(Takers') \in Nat
      BY ONLY <3>1, FS_CardinalityType
    <3> QED BY ONLY <2>1, <3>2, EmptySeq, SMTT(30) DEF Enough
  <2>4. Stack!NoneForgotten'
    BY ONLY <2>3, EnoughIsNoneForgotten, PTL
  <2> QED BY ONLY <2>2, <2>4 DEF StackInv
<1> QED BY ONLY <1>2, <1>3

LEMMA StackOutside ==
  ASSUME StackInv, NEW t \in Threads,
         Stack!Call(t) \/ Stack!SpuriousWakeup(t) \/ Stack!Return(t)
  PROVE  StackInv'
<1>1. /\ mStack \in Seq(Values) /\ mStack' = mStack
      /\ at \in [Threads -> {"idle", "push", "pop", "try_pop", "waiting", "done"}]
      /\ item \in [Threads -> Values \cup {NoValue}]
  BY ONLY StackInv, Stack!Call(t) \/ Stack!SpuriousWakeup(t) \/ Stack!Return(t)
  DEF StackInv, Stack!StackTypeOK, Stack!Call, Stack!SpuriousWakeup, Stack!Return
<1>2. Stack!StackTypeOK' /\ \A u \in Threads : at'[u] = "push" => item'[u] \in Values
  BY ONLY StackInv, <1>1, Stack!Call(t) \/ Stack!SpuriousWakeup(t) \/ Stack!Return(t),
          SMTT(30)
  DEF StackInv, Stack!StackTypeOK, Stack!Call, Stack!SpuriousWakeup, Stack!Return
<1>3. Takers \subseteq Takers' /\ \A u \in Threads : at'[u] = "waiting" => at[u] = "waiting"
  BY ONLY <1>1, Stack!Call(t) \/ Stack!SpuriousWakeup(t) \/ Stack!Return(t), SMTT(30)
  DEF Takers, Stack!Call, Stack!SpuriousWakeup, Stack!Return
<1>4. Enough
  BY ONLY StackInv, EnoughIsNoneForgotten DEF StackInv
<1>5. IsFiniteSet(Takers')
  BY ONLY ThreadsAssumption, FS_Subset, SMTT(30) DEF Takers
<1>6. Cardinality(Takers) <= Cardinality(Takers')
      /\ Cardinality(Takers) \in Nat /\ Cardinality(Takers') \in Nat
  BY ONLY <1>3, <1>5, TakersCounted, FS_Subset, FS_CardinalityType
<1>7. Enough'
  BY ONLY <1>1, <1>3, <1>4, <1>6, LenProperties, SMTT(30) DEF Enough
<1>8. Stack!NoneForgotten'
  BY ONLY <1>7, EnoughIsNoneForgotten, PTL
<1> QED BY ONLY <1>2, <1>8 DEF StackInv

LEMMA NextStack == ASSUME StackInv, Stack!Next PROVE StackInv'
<1> PICK t \in Threads :
      \/ Stack!Call(t) \/ Stack!pushImpl(t) \/ Stack!pop(t) \/ Stack!try_pop(t)
      \/ Stack!SpuriousWakeup(t) \/ Stack!Return(t)
  BY ONLY Stack!Next DEF Stack!Next
<1> QED BY StackPush, StackPop, StackOutside

-----------------------------------------------------------------------------
(* The hash maps.                                                          *)
(*                                                                         *)
(* MapInv is inductive.  BucketsInv says where the pairs are and how many  *)
(* keys there are; LocksInv that the arrays of mutexes in use are not      *)
(* deleted; LocalInv what a call knows.  The rest says, for each map, who  *)
(* holds which mutex at each point of the code: in the map that replaces   *)
(* its array of mutexes, that a thread that has passed both checks holds a *)
(* mutex of the array in use, and one that rehash has yet to wait for.     *)

Growing == structure \in {"striped", "refinable"}

Table == UNION {[S -> SUBSET (Keys \X Values)] : S \in SUBSET Nat}
Snapshot == [Keys -> Values \cup {NoValue}]

Labels ==
  {"idle", "acquire", "spin", "lock", "recheckFlag", "recheckLocks", "index", "access",
   "collect", "rehash", "compare", "drain", "copy", "swap", "publish", "open", "retire",
   "unlock", "done"}

Locals ==
  [pc : Labels, op : {"none", "find", "addOrUpdate", "remove", "getSnapShot"},
   key : Keys \cup {NoKey}, val : Values \cup {NoValue} \cup Snapshot,
   locks : Ptrs \cup {NoPtr}, index : Nat, prev : Nat, new : Table]

(* The keys in the map.                                                    *)
Present ==
  {k \in Keys : \E i \in DOMAIN mBuckets : \E v \in Values : <<k, v>> \in mBuckets[i]}

BucketsInv ==
  /\ Map!Size \in 1 .. MaxSize /\ DOMAIN mBuckets = 0 .. Map!Size - 1
  /\ \A i \in DOMAIN mBuckets :
       /\ mBuckets[i] \subseteq Keys \X Values
       /\ \A k \in Keys, v \in Values :
            <<k, v>> \in mBuckets[i] =>
              /\ Hash[k] % Map!Size = i
              /\ \A w \in Values : <<k, w>> \in mBuckets[i] => w = v
  /\ mSize = IF Growing THEN Cardinality(Present) ELSE 0

LocksInv ==
  /\ Map!R!ReclamationTypeOK
  /\ mLocks \in Ptrs /\ status[mLocks] = "live"
  /\ mRehash \in BOOLEAN
  /\ length \in [Ptrs -> 0 .. MaxSize]
  /\ \A p \in Ptrs : length[p] > 0 <=> status[p] # "free"
  /\ owners \in [Ptrs \X (0 .. MaxSize - 1) -> SUBSET MapThreads]
  /\ \A x \in DOMAIN owners : owners[x] # {} => x[2] < length[x[1]]

(* The calls that have not taken effect.                                   *)
Pending == {"acquire", "spin", "lock", "recheckFlag", "recheckLocks", "index", "access",
            "collect"}

LocalInv(t) ==
  LET l == loc[t]
  IN  /\ l.pc \in Pending =>
           /\ l.op # "none"
           /\ l.key = NoKey <=> l.op = "getSnapShot"
           /\ IF l.op = "addOrUpdate" THEN l.val \in Values ELSE l.val = NoValue
      /\ l.pc = "access" => l.key \in Keys /\ l.index = Hash[l.key] % Map!Size
      /\ l.pc = "index" => l.key \in Keys

(* What swap puts in place of the buckets.                                 *)
Spread(n) ==
  [i \in 0 .. n - 1 |->
     {e \in UNION {mBuckets[j] : j \in DOMAIN mBuckets} : Hash[e[1]] % n = i}]

Holds(t, i) == owners[<<mLocks, i>>] = {t}
Indices == 0 .. length[mLocks] - 1

FixedThread(t) ==
  LET l == loc[t]
  IN  /\ l.pc \in {"idle", "acquire", "access", "collect", "done"}
      /\ l.pc = "access" => l.op # "getSnapShot" /\ t \in owners[<<mLocks, l.index>>]
      /\ l.pc = "acquire" => l.index \in Indices
      /\ l.pc = "acquire" /\ l.op = "getSnapShot" => \A i \in 0 .. l.index - 1 : Holds(t, i)
      /\ l.pc = "collect" =>
           /\ l.op = "getSnapShot" /\ l.index \in Indices
           /\ \A i \in Indices : Holds(t, i)
           /\ \A i \in 0 .. l.index - 1 : l.new[i] = mBuckets[i]

FixedInv ==
  /\ length[mLocks] = Map!Size
  /\ \A x \in DOMAIN owners : owners[x] # {} => x[1] = mLocks
  /\ \A t \in MapThreads : FixedThread(t)

StripedMutex(t) == Hash[loc[t].key] % length[mLocks]

StripedThread(t) ==
  LET l == loc[t]
  IN  /\ l.pc \in {"idle", "acquire", "index", "access", "rehash", "compare", "copy",
                   "swap", "unlock", "done"}
      /\ l.pc \in {"acquire", "index", "access"} => l.op # "getSnapShot"
      /\ l.pc \in {"index", "access"} => Holds(t, StripedMutex(t))
      /\ l.pc = "rehash" => l.index \in Indices /\ \A i \in 0 .. l.index - 1 : Holds(t, i)
      /\ l.pc \in {"compare", "copy", "swap"} =>
           l.index = 0 /\ \A i \in Indices : Holds(t, i)
      /\ l.pc = "unlock" =>
           l.index \in Indices /\ \A i \in Indices : i >= l.index => Holds(t, i)
      /\ l.pc \in {"rehash", "compare", "copy", "swap"} => 2 * l.prev <= MaxSize
      /\ l.pc \in {"copy", "swap"} => l.prev = Map!Size
      /\ l.pc = "swap" => l.new = Spread(2 * l.prev)

StripedInv ==
  /\ \A x \in DOMAIN owners : owners[x] # {} => x[1] = mLocks
  /\ \A t \in MapThreads : StripedThread(t)

Rehashing == {"compare", "drain", "copy", "swap", "publish", "open"}
Inside == {"recheckFlag", "recheckLocks", "index", "access"}
Checked == {"recheckLocks", "index", "access"}

(* The mutex of the thread's key in the array it has loaded.               *)
MyMutex(t) == Hash[loc[t].key] % length[loc[t].locks]

(* The thread has announced the array before it was retired.               *)
Protected(t) ==
  /\ slot[t] = loc[t].locks /\ loc[t].locks \in Ptrs
  /\ \/ status[loc[t].locks] = "live"
     \/ status[loc[t].locks] = "retired" /\ t \in holders[loc[t].locks]

RefinableThread(t) ==
  LET l == loc[t]
  IN  /\ l.pc \in {"idle", "acquire", "spin", "lock", "rehash", "retire", "done"}
                     \cup Inside \cup Rehashing
      /\ l.pc \in {"acquire", "spin", "lock"} \cup Inside => l.op # "getSnapShot"
      /\ l.pc \in {"lock", "recheckFlag", "recheckLocks"} => Protected(t)
      /\ l.pc \in Inside => owners[<<l.locks, MyMutex(t)>>] = {t}
      /\ l.pc \in {"index", "access"} => l.locks = mLocks
      /\ l.pc \in Rehashing => mRehash
      /\ l.pc \in {"drain", "copy", "swap", "publish"} => l.locks = mLocks
      /\ l.pc \in {"rehash", "compare"} => l.index = 0
      /\ l.pc = "drain" => l.index \in Indices
      /\ l.pc \in {"open", "retire"} =>
           l.locks \in Ptrs \ {mLocks} /\ status[l.locks] = "live"
      /\ l.pc \in {"rehash", "compare", "drain", "copy", "swap", "publish"} =>
           2 * l.prev <= MaxSize
      /\ l.pc \in {"drain", "copy", "swap"} => l.prev = Map!Size
      /\ l.pc = "publish" => 2 * l.prev = Map!Size
      /\ l.pc = "swap" => l.new = Spread(2 * l.prev)

OwnersInside ==
  \A x \in DOMAIN owners : \A t \in owners[x] :
    loc[t].pc \in Inside /\ x = <<loc[t].locks, MyMutex(t)>>

(* One thread rehashes, and it waits for those who work on the buckets.    *)
Apart(t, u) ==
  /\ loc[t].pc \in Rehashing /\ loc[u].pc \in Rehashing => t = u
  /\ loc[t].pc \in {"open", "retire"} /\ loc[u].pc \in {"open", "retire"}
       /\ loc[t].locks = loc[u].locks => t = u
  /\ loc[t].pc \in Checked /\ loc[t].locks = mLocks =>
       /\ loc[u].pc = "drain" => loc[u].index <= MyMutex(t)
       /\ loc[u].pc \notin {"copy", "swap", "publish"}

RefinableInv ==
  /\ \A t \in MapThreads : RefinableThread(t)
  /\ OwnersInside
  /\ \A t, u \in MapThreads : Apart(t, u)

MapInv ==
  /\ loc \in [MapThreads -> Locals]
  /\ BucketsInv /\ LocksInv
  /\ \A t \in MapThreads : LocalInv(t)
  /\ structure = "fixed" => FixedInv
  /\ structure = "striped" => StripedInv
  /\ structure = "refinable" => RefinableInv
  /\ structure \in {"queue", "stack"} => \A t \in MapThreads : loc[t].pc = "idle"

-----------------------------------------------------------------------------
(* What the hash maps have in common.                                      *)

LEMMA IntervalSize ==
  ASSUME NEW b, NEW n \in Nat, DOMAIN b = 0 .. n - 1
  PROVE  Map!Cardinality(DOMAIN b) = n
<1>1. Cardinality(0 .. n - 1) = n
  BY ONLY FS_Interval, SMTT(30)
<1> QED BY ONLY <1>1, DOMAIN b = 0 .. n - 1, SameCardinality

LEMMA SameSize ==
  FixedSize!Size = Map!Size /\ Striped!Size = Map!Size /\ Refinable!Size = Map!Size
BY ONLY SameCardinality DEF FixedSize!Size, Striped!Size, Refinable!Size, Map!Size

LEMMA SameAccess ==
  ASSUME NEW t, NEW grows
  PROVE  /\ FixedSize!access(t, grows) <=> Map!access(t, grows)
         /\ Striped!access(t, grows) <=> Map!access(t, grows)
         /\ Refinable!access(t, grows) <=> Map!access(t, grows)
<1>1. FixedSize!access(t, grows) <=> Map!access(t, grows)
  BY ONLY SameSize DEF FixedSize!access, FixedSize!find, FixedSize!addOrUpdate, FixedSize!remove, FixedSize!found,
    FixedSize!Goto, FixedSize!Done, FixedSize!Away, FixedSize!Unlocked,
    Map!access, Map!find, Map!addOrUpdate, Map!remove, Map!found,
    Map!Goto, Map!Done, Map!Away, Map!Unlocked
<1>2. Striped!access(t, grows) <=> Map!access(t, grows)
  BY ONLY SameSize DEF Striped!access, Striped!find, Striped!addOrUpdate, Striped!remove, Striped!found,
    Striped!Goto, Striped!Done, Striped!Away, Striped!Unlocked,
    Map!access, Map!find, Map!addOrUpdate, Map!remove, Map!found,
    Map!Goto, Map!Done, Map!Away, Map!Unlocked
<1>3. Refinable!access(t, grows) <=> Map!access(t, grows)
  BY ONLY SameSize DEF Refinable!access, Refinable!find, Refinable!addOrUpdate, Refinable!remove, Refinable!found,
    Refinable!Goto, Refinable!Done, Refinable!Away, Refinable!Unlocked,
    Map!access, Map!find, Map!addOrUpdate, Map!remove, Map!found,
    Map!Goto, Map!Done, Map!Away, Map!Unlocked
<1> QED BY ONLY <1>1, <1>2, <1>3

LEMMA SameOthers ==
  ASSUME NEW t
  PROVE  /\ Striped!getBucketIndex(t) <=> Map!getBucketIndex(t)
         /\ Refinable!getBucketIndex(t) <=> Map!getBucketIndex(t)
         /\ Striped!copy(t) <=> Map!copy(t)
         /\ Refinable!copy(t) <=> Map!copy(t)
         /\ \A l : Striped!swap(t, l) <=> Map!swap(t, l)
         /\ \A l : Refinable!swap(t, l) <=> Map!swap(t, l)
         /\ FixedSize!Return(t) <=> Map!Return(t)
         /\ Striped!Return(t) <=> Map!Return(t)
         /\ Refinable!Return(t) <=> Map!Return(t)
         /\ \A ops : FixedSize!Call(t, ops) <=> Map!Call(t, ops)
         /\ \A ops : Striped!Call(t, ops) <=> Map!Call(t, ops)
         /\ \A ops : Refinable!Call(t, ops) <=> Map!Call(t, ops)
<1>1. /\ Striped!getBucketIndex(t) <=> Map!getBucketIndex(t)
      /\ Refinable!getBucketIndex(t) <=> Map!getBucketIndex(t)
  BY ONLY SameSize DEF Striped!getBucketIndex, Refinable!getBucketIndex, Map!getBucketIndex,
    Striped!Goto, Refinable!Goto, Map!Goto, Striped!At, Refinable!At, Map!At,
    Striped!lockVars, Refinable!lockVars, Map!lockVars
<1>2. /\ Striped!copy(t) <=> Map!copy(t)
      /\ Refinable!copy(t) <=> Map!copy(t)
  BY ONLY SameSize DEF Striped!copy, Refinable!copy, Map!copy,
    Striped!Goto, Refinable!Goto, Map!Goto, Striped!At, Refinable!At, Map!At,
    Striped!lockVars, Refinable!lockVars, Map!lockVars
<1>3. /\ \A l : Striped!swap(t, l) <=> Map!swap(t, l)
      /\ \A l : Refinable!swap(t, l) <=> Map!swap(t, l)
  BY ONLY SameSize DEF Striped!swap, Refinable!swap, Map!swap,
    Striped!Goto, Refinable!Goto, Map!Goto, Striped!At, Refinable!At, Map!At,
    Striped!lockVars, Refinable!lockVars, Map!lockVars
<1>4. /\ FixedSize!Return(t) <=> Map!Return(t)
      /\ Striped!Return(t) <=> Map!Return(t)
      /\ Refinable!Return(t) <=> Map!Return(t)
  BY ONLY SameSize DEF FixedSize!Return, Striped!Return, Refinable!Return, Map!Return,
    FixedSize!Goto, Striped!Goto, Refinable!Goto, Map!Goto,
    FixedSize!Away, Striped!Away, Refinable!Away, Map!Away,
    FixedSize!lockVars, Striped!lockVars, Refinable!lockVars, Map!lockVars
<1>5. /\ \A ops : FixedSize!Call(t, ops) <=> Map!Call(t, ops)
      /\ \A ops : Striped!Call(t, ops) <=> Map!Call(t, ops)
      /\ \A ops : Refinable!Call(t, ops) <=> Map!Call(t, ops)
  BY ONLY SameSize DEF FixedSize!Call, Striped!Call, Refinable!Call, Map!Call,
    FixedSize!Goto, Striped!Goto, Refinable!Goto, Map!Goto,
    FixedSize!Away, Striped!Away, Refinable!Away, Map!Away,
    FixedSize!lockVars, Striped!lockVars, Refinable!lockVars, Map!lockVars
<1> QED BY ONLY <1>1, <1>2, <1>3, <1>4, <1>5

(* The local variables.                                                    *)

LEMMA TableHas ==
  /\ <<>> \in Table
  /\ \A S \in SUBSET Nat : \A f \in [S -> SUBSET (Keys \X Values)] : f \in Table
<1>1. <<>> \in [{} -> SUBSET (Keys \X Values)]
  OBVIOUS
<1>2. ASSUME NEW S \in SUBSET Nat, NEW f \in [S -> SUBSET (Keys \X Values)]
      PROVE  f \in Table
  BY ONLY S \in SUBSET Nat, f \in [S -> SUBSET (Keys \X Values)] DEF Table
<1>3. <<>> \in Table
  BY ONLY <1>1 DEF Table
<1> QED BY ONLY <1>2, <1>3

LEMMA AwayTyped == Map!Away \in Locals
<1>1. <<>> \in Table
  BY ONLY TableHas
<1> QED BY ONLY <1>1, SMTT(30) DEF Map!Away, Locals, Labels

LEMMA DoneTyped ==
  ASSUME NEW t, loc[t] \in Locals, NEW r \in Values \cup {NoValue} \cup Snapshot
  PROVE  Map!Done(t, r) \in Locals /\ Map!Done(t, r).pc = "done"
<1>1. "done" \in Labels
        /\ loc[t].op \in {"none", "find", "addOrUpdate", "remove", "getSnapShot"}
  BY ONLY loc[t] \in Locals DEF Locals, Labels
<1>2. Map!Done(t, r) \in Locals
  BY ONLY <1>1, AwayTyped, r \in Values \cup {NoValue} \cup Snapshot, Zenon
  DEF Locals, Map!Done
<1>3. Map!Done(t, r).pc = "done"
  BY ONLY AwayTyped, Zenon DEF Locals, Map!Done
<1> QED BY ONLY <1>2, <1>3

LEMMA Moved ==
  ASSUME loc \in [MapThreads -> Locals], NEW t \in MapThreads, NEW r \in Locals,
         Map!Goto(t, r)
  PROVE  /\ loc' \in [MapThreads -> Locals] /\ loc'[t] = r
         /\ \A u \in MapThreads : u # t => loc'[u] = loc[u]
BY ONLY loc \in [MapThreads -> Locals], Map!Goto(t, r), SMTT(30) DEF Map!Goto

(* Where there is no new pair, nothing changes for the buckets.            *)
LEMMA SameBuckets ==
  ASSUME BucketsInv, mBuckets' = mBuckets, mSize' = mSize, structure' = structure
  PROVE  BucketsInv' /\ Map!Size' = Map!Size /\ \A n : Spread(n)' = Spread(n)
<1>1. Map!Size' = Map!Size
  BY ONLY mBuckets' = mBuckets DEF Map!Size
<1>2. Present' = Present
  BY ONLY mBuckets' = mBuckets DEF Present
<1>3. BucketsInv'
  BY ONLY <1>1, <1>2, BucketsInv, mBuckets' = mBuckets, mSize' = mSize,
          structure' = structure
  DEF BucketsInv, Growing
<1>4. \A n : Spread(n)' = Spread(n)
  BY ONLY mBuckets' = mBuckets DEF Spread
<1> QED BY ONLY <1>1, <1>3, <1>4

LEMMA SameLocal ==
  ASSUME NEW u \in MapThreads, LocalInv(u), loc'[u] = loc[u], Map!Size' = Map!Size
  PROVE  LocalInv(u)'
BY ONLY LocalInv(u), loc'[u] = loc[u], Map!Size' = Map!Size DEF LocalInv

LEMMA ModRange == ASSUME NEW i \in Nat, NEW n \in Nat \ {0} PROVE i % n \in 0 .. n - 1
BY ONLY SMTT(30)

(* The buckets after addOrUpdate and remove.                               *)

LEMMA Found ==
  ASSUME loc \in [MapThreads -> Locals], BucketsInv, NEW t \in MapThreads,
         LocalInv(t), loc[t].pc = "access"
  PROVE  /\ loc[t].key \in Keys /\ loc[t].index \in DOMAIN mBuckets
         /\ loc[t].index = Hash[loc[t].key] % Map!Size
         /\ Map!found(t) = {} <=> loc[t].key \notin Present
         /\ \A e \in Map!found(t) : e[2] \in Values /\ e = <<loc[t].key, e[2]>>
         /\ \A i \in DOMAIN mBuckets, v \in Values :
              <<loc[t].key, v>> \in mBuckets[i] <=>
                i = loc[t].index /\ <<loc[t].key, v>> \in Map!found(t)
<1>1. loc[t].key \in Keys /\ loc[t].index = Hash[loc[t].key] % Map!Size
  BY ONLY LocalInv(t), loc[t].pc = "access" DEF LocalInv
<1>2. loc[t].index \in DOMAIN mBuckets
  <2>1. Map!Size \in Nat \ {0} /\ DOMAIN mBuckets = 0 .. Map!Size - 1
    BY ONLY BucketsInv, SizesAssumption, SMTT(30) DEF BucketsInv
  <2>2. Hash[loc[t].key] \in Nat
    BY ONLY <1>1, KeysAssumption
  <2> QED BY ONLY <1>1, <2>1, <2>2, ModRange
<1>3. \A e \in Map!found(t) : e[2] \in Values /\ e = <<loc[t].key, e[2]>>
  BY ONLY <1>2, BucketsInv, SMTT(30) DEF Map!found, BucketsInv
<1>4. \A i \in DOMAIN mBuckets, v \in Values :
        <<loc[t].key, v>> \in mBuckets[i] <=>
          i = loc[t].index /\ <<loc[t].key, v>> \in Map!found(t)
  BY ONLY <1>1, <1>2, BucketsInv, SMTT(30) DEF Map!found, BucketsInv
<1>5. Map!found(t) = {} <=> loc[t].key \notin Present
  <2>1. ASSUME Map!found(t) # {} PROVE loc[t].key \in Present
    BY ONLY <2>1, <1>1, <1>2, <1>3, <1>4 DEF Present
  <2>2. ASSUME loc[t].key \in Present PROVE Map!found(t) # {}
    BY ONLY <2>2, <1>4 DEF Present
  <2> QED BY ONLY <2>1, <2>2
<1> QED BY ONLY <1>1, <1>2, <1>3, <1>4, <1>5

LEMMA KeysCounted ==
  /\ IsFiniteSet(Present) /\ Cardinality(Present) \in Nat
  /\ \A k \in Keys : k \notin Present =>
       Cardinality(Present \cup {k}) = Cardinality(Present) + 1
  /\ \A k \in Present : Cardinality(Present \ {k}) = Cardinality(Present) - 1
<1>1. IsFiniteSet(Present)
  BY ONLY KeysAssumption, FS_Subset DEF Present
<1>2. Cardinality(Present) \in Nat
  BY ONLY <1>1, FS_CardinalityType
<1>3. \A k \in Keys : k \notin Present =>
        Cardinality(Present \cup {k}) = Cardinality(Present) + 1
  BY ONLY <1>1, FS_AddElement
<1>4. \A k \in Present : Cardinality(Present \ {k}) = Cardinality(Present) - 1
  BY ONLY <1>1, FS_RemoveElement
<1> QED BY ONLY <1>1, <1>2, <1>3, <1>4

(* Which pairs there are then.                                             *)
LEMMA PairsAdded ==
  ASSUME loc \in [MapThreads -> Locals], BucketsInv, NEW t \in MapThreads,
         LocalInv(t), loc[t].pc = "access", loc[t].val \in Values,
         mBuckets' = [mBuckets EXCEPT
           ![loc[t].index] = (@ \ Map!found(t)) \cup {<<loc[t].key, loc[t].val>>}]
  PROVE  /\ DOMAIN mBuckets' = DOMAIN mBuckets
         /\ \A i \in DOMAIN mBuckets : mBuckets'[i] \subseteq Keys \X Values
         /\ \A i \in DOMAIN mBuckets, k \in Keys, v \in Values :
              <<k, v>> \in mBuckets'[i] <=>
                IF k = loc[t].key THEN i = loc[t].index /\ v = loc[t].val
                ELSE <<k, v>> \in mBuckets[i]
<1> DEFINE l == loc[t]
<1>1. /\ l.key \in Keys /\ l.index \in DOMAIN mBuckets
      /\ \A e \in Map!found(t) : e[2] \in Values /\ e = <<l.key, e[2]>>
      /\ \A i \in DOMAIN mBuckets, v \in Values :
           <<l.key, v>> \in mBuckets[i] <=> i = l.index /\ <<l.key, v>> \in Map!found(t)
  BY ONLY Found, loc \in [MapThreads -> Locals], BucketsInv, LocalInv(t), loc[t].pc = "access"
<1>2. \A i \in DOMAIN mBuckets : mBuckets[i] \subseteq Keys \X Values
  BY ONLY BucketsInv DEF BucketsInv
<1>3. /\ DOMAIN mBuckets' = DOMAIN mBuckets
      /\ \A i \in DOMAIN mBuckets :
           mBuckets'[i] = IF i = l.index THEN (mBuckets[i] \ Map!found(t)) \cup {<<l.key, l.val>>}
                          ELSE mBuckets[i]
  BY ONLY <1>1, mBuckets' = [mBuckets EXCEPT
           ![loc[t].index] = (@ \ Map!found(t)) \cup {<<loc[t].key, loc[t].val>>}]
<1>4. l.val \in Values
  BY ONLY loc[t].val \in Values
<1> HIDE DEF l
<1>5. \A i \in DOMAIN mBuckets : mBuckets'[i] \subseteq Keys \X Values
  BY ONLY <1>1, <1>2, <1>3, <1>4, SMTT(30)
<1>6. \A i \in DOMAIN mBuckets, k \in Keys, v \in Values :
        <<k, v>> \in mBuckets'[i] <=>
          IF k = l.key THEN i = l.index /\ v = l.val ELSE <<k, v>> \in mBuckets[i]
  BY ONLY <1>1, <1>3, <1>4, SMTT(30)
<1> QED BY ONLY <1>3, <1>5, <1>6 DEF l

LEMMA PairsRemoved ==
  ASSUME loc \in [MapThreads -> Locals], BucketsInv, NEW t \in MapThreads,
         LocalInv(t), loc[t].pc = "access",
         mBuckets' = [mBuckets EXCEPT ![loc[t].index] = @ \ Map!found(t)]
  PROVE  /\ DOMAIN mBuckets' = DOMAIN mBuckets
         /\ \A i \in DOMAIN mBuckets : mBuckets'[i] \subseteq Keys \X Values
         /\ \A i \in DOMAIN mBuckets, k \in Keys, v \in Values :
              <<k, v>> \in mBuckets'[i] <=> k # loc[t].key /\ <<k, v>> \in mBuckets[i]
<1> DEFINE l == loc[t]
<1>1. /\ l.key \in Keys /\ l.index \in DOMAIN mBuckets
      /\ \A e \in Map!found(t) : e[2] \in Values /\ e = <<l.key, e[2]>>
      /\ \A i \in DOMAIN mBuckets, v \in Values :
           <<l.key, v>> \in mBuckets[i] <=> i = l.index /\ <<l.key, v>> \in Map!found(t)
  BY ONLY Found, loc \in [MapThreads -> Locals], BucketsInv, LocalInv(t), loc[t].pc = "access"
<1>2. \A i \in DOMAIN mBuckets : mBuckets[i] \subseteq Keys \X Values
  BY ONLY BucketsInv DEF BucketsInv
<1>3. /\ DOMAIN mBuckets' = DOMAIN mBuckets
      /\ \A i \in DOMAIN mBuckets :
           mBuckets'[i] = IF i = l.index THEN mBuckets[i] \ Map!found(t) ELSE mBuckets[i]
  BY ONLY <1>1, mBuckets' = [mBuckets EXCEPT ![loc[t].index] = @ \ Map!found(t)]
<1> HIDE DEF l
<1>5. \A i \in DOMAIN mBuckets : mBuckets'[i] \subseteq Keys \X Values
  BY ONLY <1>2, <1>3, SMTT(30)
<1>6. \A i \in DOMAIN mBuckets, k \in Keys, v \in Values :
        <<k, v>> \in mBuckets'[i] <=> k # l.key /\ <<k, v>> \in mBuckets[i]
  BY ONLY <1>1, <1>3, SMTT(30)
<1> QED BY ONLY <1>3, <1>5, <1>6 DEF l

LEMMA AccessBuckets ==
  ASSUME loc \in [MapThreads -> Locals], BucketsInv, NEW t \in MapThreads,
         LocalInv(t), Map!access(t, Growing), structure' = structure
  PROVE  BucketsInv' /\ Map!Size' = Map!Size
<1> DEFINE l == loc[t]
<1>0. loc[t].pc = "access"
  BY ONLY Map!access(t, Growing) DEF Map!access, Map!find, Map!addOrUpdate, Map!remove
<1>1. CASE Map!find(t)
  BY ONLY <1>1, SameBuckets, BucketsInv, structure' = structure DEF Map!find
<1>2. CASE Map!addOrUpdate(t, Growing)
  <2>1. loc[t].val \in Values
    BY ONLY <1>2, LocalInv(t), <1>0 DEF Map!addOrUpdate, LocalInv, Pending
  <2>2. /\ mBuckets' = [mBuckets EXCEPT
             ![loc[t].index] = (@ \ Map!found(t)) \cup {<<loc[t].key, loc[t].val>>}]
        /\ mSize' = IF Growing /\ Map!found(t) = {} THEN mSize + 1 ELSE mSize
    BY ONLY <1>2 DEF Map!addOrUpdate
  <2>3. /\ DOMAIN mBuckets' = DOMAIN mBuckets
        /\ \A i \in DOMAIN mBuckets : mBuckets'[i] \subseteq Keys \X Values
        /\ \A i \in DOMAIN mBuckets, k \in Keys, v \in Values :
             <<k, v>> \in mBuckets'[i] <=>
               IF k = loc[t].key THEN i = loc[t].index /\ v = loc[t].val
               ELSE <<k, v>> \in mBuckets[i]
    BY ONLY PairsAdded, <2>1, <2>2, <1>0, loc \in [MapThreads -> Locals], BucketsInv, LocalInv(t)
  <2>4. /\ loc[t].key \in Keys /\ loc[t].index \in DOMAIN mBuckets
        /\ loc[t].index = Hash[loc[t].key] % Map!Size
        /\ Map!found(t) = {} <=> loc[t].key \notin Present
    BY ONLY Found, loc \in [MapThreads -> Locals], BucketsInv, LocalInv(t), <1>0
  <2>5. Map!Size' = Map!Size
    BY ONLY <2>3 DEF Map!Size
  <2>6. Present' = Present \cup {loc[t].key}
    <3>1. ASSUME NEW k \in Keys
          PROVE  k \in Present' <=> k \in Present \/ k = loc[t].key
      <4>1. CASE k = loc[t].key
        BY ONLY <4>1, <2>1, <2>3, <2>4, Zenon DEF Present
      <4>2. CASE k # loc[t].key
        BY ONLY <4>2, <2>3, Zenon DEF Present
      <4> QED BY ONLY <4>1, <4>2
    <3> QED BY ONLY <3>1, <2>4, SMTT(30) DEF Present
  <2>7. mSize' = IF Growing THEN Cardinality(Present') ELSE 0
    <3>1. CASE Map!found(t) = {}
      BY ONLY <3>1, <2>2, <2>4, <2>6, BucketsInv, KeysCounted DEF BucketsInv
    <3>2. CASE Map!found(t) # {}
      <4>1. Present' = Present
        BY ONLY <3>2, <2>4, <2>6
      <4> QED BY ONLY <4>1, <3>2, <2>2, BucketsInv DEF BucketsInv
    <3> QED BY ONLY <3>1, <3>2
  <2>8. Growing' = Growing
    BY ONLY structure' = structure DEF Growing
  <2>9. \A i \in DOMAIN mBuckets, k \in Keys, v \in Values :
          <<k, v>> \in mBuckets'[i] =>
            /\ Hash[k] % Map!Size = i
            /\ \A w \in Values : <<k, w>> \in mBuckets'[i] => w = v
    BY ONLY <2>3, <2>4, BucketsInv DEF BucketsInv
  <2> QED
    BY ONLY <2>3, <2>5, <2>7, <2>8, <2>9, BucketsInv DEF BucketsInv
<1>3. CASE Map!remove(t, Growing)
  <2>2. /\ mBuckets' = [mBuckets EXCEPT ![loc[t].index] = @ \ Map!found(t)]
        /\ mSize' = IF Growing /\ Map!found(t) # {} THEN mSize - 1 ELSE mSize
    BY ONLY <1>3 DEF Map!remove
  <2>3. /\ DOMAIN mBuckets' = DOMAIN mBuckets
        /\ \A i \in DOMAIN mBuckets : mBuckets'[i] \subseteq Keys \X Values
        /\ \A i \in DOMAIN mBuckets, k \in Keys, v \in Values :
             <<k, v>> \in mBuckets'[i] <=> k # loc[t].key /\ <<k, v>> \in mBuckets[i]
    BY ONLY PairsRemoved, <2>2, <1>0, loc \in [MapThreads -> Locals], BucketsInv, LocalInv(t)
  <2>4. Map!found(t) = {} <=> loc[t].key \notin Present
    BY ONLY Found, loc \in [MapThreads -> Locals], BucketsInv, LocalInv(t), <1>0
  <2>5. Map!Size' = Map!Size
    BY ONLY <2>3 DEF Map!Size
  <2>6. Present' = Present \ {loc[t].key}
    <3>1. ASSUME NEW k \in Keys
          PROVE  k \in Present' <=> k \in Present /\ k # loc[t].key
      BY ONLY <2>3, Zenon DEF Present
    <3> QED BY ONLY <3>1, SMTT(30) DEF Present
  <2>7. mSize' = IF Growing THEN Cardinality(Present') ELSE 0
    <3>1. CASE Map!found(t) # {}
      BY ONLY <3>1, <2>2, <2>4, <2>6, BucketsInv, KeysCounted DEF BucketsInv
    <3>2. CASE Map!found(t) = {}
      <4>1. Present' = Present
        BY ONLY <3>2, <2>4, <2>6
      <4> QED BY ONLY <4>1, <3>2, <2>2, BucketsInv DEF BucketsInv
    <3> QED BY ONLY <3>1, <3>2
  <2>8. Growing' = Growing
    BY ONLY structure' = structure DEF Growing
  <2>9. \A i \in DOMAIN mBuckets, k \in Keys, v \in Values :
          <<k, v>> \in mBuckets'[i] =>
            /\ Hash[k] % Map!Size = i
            /\ \A w \in Values : <<k, w>> \in mBuckets'[i] => w = v
    BY ONLY <2>3, BucketsInv DEF BucketsInv
  <2> QED
    BY ONLY <2>3, <2>5, <2>7, <2>8, <2>9, BucketsInv DEF BucketsInv
<1> QED BY ONLY <1>1, <1>2, <1>3, Map!access(t, Growing) DEF Map!access

(* How an access leaves the thread.                                        *)
LEMMA AccessMoves ==
  ASSUME loc \in [MapThreads -> Locals], BucketsInv, NEW t \in MapThreads,
         LocalInv(t), NEW g \in BOOLEAN, Map!access(t, g)
  PROVE  /\ loc[t].pc = "access" /\ Map!Unlocked(t)
         /\ loc' \in [MapThreads -> Locals]
         /\ \/ loc'[t].pc = "done"
            \/ /\ g /\ loc'[t].pc = "rehash"
               /\ loc'[t].index = 0 /\ 2 * loc'[t].prev <= MaxSize
         /\ \A u \in MapThreads : u # t => loc'[u] = loc[u]
         /\ UNCHANGED <<mLocks, length, mRehash, slot, status, holders>>
<1>1. loc[t].pc = "access" /\ loc[t] \in Locals
  BY ONLY Map!access(t, g), loc \in [MapThreads -> Locals]
  DEF Map!access, Map!find, Map!addOrUpdate, Map!remove
<1>2. Map!Unlocked(t) /\ UNCHANGED <<mLocks, length, mRehash, slot, status, holders>>
  BY ONLY Map!access(t, g) DEF Map!access, Map!find, Map!addOrUpdate, Map!remove
<1>3. ASSUME NEW r \in Values \cup {NoValue}
      PROVE  Map!Done(t, r) \in Locals /\ Map!Done(t, r).pc = "done"
  BY ONLY DoneTyped, <1>1, r \in Values \cup {NoValue}
<1>4. CASE Map!find(t)
  <2>1. PICK r \in Values \cup {NoValue} : Map!Goto(t, Map!Done(t, r))
    BY ONLY <1>4, <1>1, Found, loc \in [MapThreads -> Locals], BucketsInv, LocalInv(t)
    DEF Map!find
  <2> QED BY ONLY <2>1, <1>1, <1>2, <1>3, Moved, loc \in [MapThreads -> Locals]
<1>5. CASE Map!addOrUpdate(t, g)
  <2>1. CASE Map!Goto(t, Map!Done(t, NoValue))
    BY ONLY <2>1, <1>1, <1>2, <1>3, Moved, loc \in [MapThreads -> Locals]
  <2>2. CASE Map!Goto(t, [Map!Away EXCEPT !.pc = "rehash", !.op = loc[t].op, !.prev = Map!Size])
             /\ g /\ 2 * Map!Size <= MaxSize
    <3> DEFINE r == [Map!Away EXCEPT !.pc = "rehash", !.op = loc[t].op, !.prev = Map!Size]
    <3>1. Map!Size \in Nat
      BY ONLY BucketsInv, SizesAssumption, SMTT(30) DEF BucketsInv
    <3>2. r \in Locals /\ r.pc = "rehash" /\ r.index = 0 /\ r.prev = Map!Size
      <4>1. "rehash" \in Labels
              /\ loc[t].op \in {"none", "find", "addOrUpdate", "remove", "getSnapShot"}
        BY ONLY <1>1 DEF Locals, Labels
      <4>2. r \in Locals
        BY ONLY <4>1, <3>1, AwayTyped, Zenon DEF Locals
      <4> QED BY ONLY <4>2, AwayTyped, Zenon DEF Map!Away, Locals
    <3> HIDE DEF r
    <3>3. Map!Goto(t, r)
      BY ONLY <2>2 DEF r
    <3> QED BY ONLY <2>2, <3>2, <3>3, <1>1, <1>2, Moved, loc \in [MapThreads -> Locals]
  <2> QED BY ONLY <2>1, <2>2, <1>5 DEF Map!addOrUpdate
<1>6. CASE Map!remove(t, g)
  BY ONLY <1>6, <1>1, <1>2, <1>3, Moved, loc \in [MapThreads -> Locals] DEF Map!remove
<1> QED BY ONLY <1>4, <1>5, <1>6, Map!access(t, g) DEF Map!access

(* The mutexes.                                                            *)

OtherLocks == <<mLocks, length, mRehash, slot, status, holders>>

LEMMA LockTaken ==
  ASSUME LocksInv, NEW p \in Ptrs, NEW i \in 0 .. length[p] - 1, NEW S \in SUBSET MapThreads,
         owners' = [owners EXCEPT ![<<p, i>>] = S], UNCHANGED OtherLocks
  PROVE  /\ LocksInv' /\ <<p, i>> \in DOMAIN owners /\ DOMAIN owners' = DOMAIN owners
         /\ \A x \in DOMAIN owners : owners'[x] = IF x = <<p, i>> THEN S ELSE owners[x]
<1>1. /\ owners \in [Ptrs \X (0 .. MaxSize - 1) -> SUBSET MapThreads]
      /\ length[p] \in 0 .. MaxSize
  BY ONLY LocksInv, p \in Ptrs DEF LocksInv
<1>2. <<p, i>> \in Ptrs \X (0 .. MaxSize - 1)
  BY ONLY <1>1, SizesAssumption, SMTT(30)
<1>3. /\ DOMAIN owners' = DOMAIN owners
      /\ \A x \in DOMAIN owners : owners'[x] = IF x = <<p, i>> THEN S ELSE owners[x]
      /\ owners' \in [Ptrs \X (0 .. MaxSize - 1) -> SUBSET MapThreads]
  BY ONLY <1>1, <1>2, owners' = [owners EXCEPT ![<<p, i>>] = S]
<1>4. \A x \in DOMAIN owners : owners'[x] # {} => x[2] < length[x[1]]
  <2>1. i < length[p]
    BY ONLY <1>1, SizesAssumption, SMTT(30)
  <2>2. <<p, i>>[1] = p /\ <<p, i>>[2] = i
    OBVIOUS
  <2> QED BY ONLY <1>3, <2>1, <2>2, LocksInv, Zenon DEF LocksInv
<1>5. LocksInv'
  BY ONLY <1>3, <1>4, LocksInv, UNCHANGED OtherLocks
  DEF LocksInv, OtherLocks, Map!R!ReclamationTypeOK
<1> QED BY ONLY <1>1, <1>2, <1>3, <1>5

LEMMA LocksGiven ==
  ASSUME LocksInv, NEW t, Map!Unlocked(t), UNCHANGED OtherLocks
  PROVE  /\ LocksInv' /\ DOMAIN owners' = DOMAIN owners
         /\ \A x \in DOMAIN owners : owners'[x] = owners[x] \ {t}
<1>1. /\ DOMAIN owners' = DOMAIN owners
      /\ \A x \in DOMAIN owners : owners'[x] = owners[x] \ {t}
  BY ONLY Map!Unlocked(t) DEF Map!Unlocked
<1>2. owners' \in [Ptrs \X (0 .. MaxSize - 1) -> SUBSET MapThreads]
  BY ONLY LocksInv, Map!Unlocked(t) DEF LocksInv, Map!Unlocked
<1>3. LocksInv'
  BY ONLY <1>1, <1>2, LocksInv, UNCHANGED OtherLocks
  DEF LocksInv, OtherLocks, Map!R!ReclamationTypeOK
<1> QED BY ONLY <1>1, <1>3

LEMMA LocksKept ==
  ASSUME LocksInv, UNCHANGED OtherLocks, owners' = owners
  PROVE  LocksInv'
BY ONLY LocksInv, UNCHANGED OtherLocks, owners' = owners
DEF LocksInv, OtherLocks, Map!R!ReclamationTypeOK

(* The mutexes of the array in use.                                        *)
LEMMA InUse ==
  ASSUME LocksInv
  PROVE  /\ mLocks \in Ptrs /\ length[mLocks] \in 1 .. MaxSize
         /\ \A i \in Indices : <<mLocks, i>> \in DOMAIN owners
         /\ \A k \in Keys : Hash[k] % length[mLocks] \in Indices
<1>1. /\ mLocks \in Ptrs /\ length[mLocks] \in 1 .. MaxSize
      /\ DOMAIN owners = Ptrs \X (0 .. MaxSize - 1)
  BY ONLY LocksInv, SizesAssumption, SMTT(30) DEF LocksInv
<1>2. \A k \in Keys : Hash[k] % length[mLocks] \in Indices
  <2>1. length[mLocks] \in Nat \ {0}
    BY ONLY <1>1, SizesAssumption, SMTT(30)
  <2>2. \A k \in Keys : Hash[k] \in Nat
    BY ONLY KeysAssumption
  <2> QED BY ONLY <2>1, <2>2, ModRange DEF Indices
<1> QED BY ONLY <1>1, <1>2, SizesAssumption, SMTT(30) DEF Indices

(* Calls and returns.                                                      *)

LEMMA CallMoves ==
  ASSUME loc \in [MapThreads -> Locals], NEW t \in MapThreads, NEW ops, Map!Call(t, ops),
         ops \subseteq {"find", "addOrUpdate", "remove", "getSnapShot"}
  PROVE  /\ loc' \in [MapThreads -> Locals]
         /\ loc[t].pc = "idle" /\ loc'[t].pc = "acquire" /\ loc'[t].index = 0
         /\ loc'[t].op \in ops
         /\ \A u \in MapThreads : u # t => loc'[u] = loc[u]
         /\ LocalInv(t)'
         /\ mBuckets' = mBuckets /\ mSize' = mSize /\ owners' = owners
         /\ UNCHANGED OtherLocks
<1>1. /\ loc[t].pc = "idle" /\ mBuckets' = mBuckets /\ mSize' = mSize /\ owners' = owners
      /\ UNCHANGED OtherLocks
  BY ONLY Map!Call(t, ops) DEF Map!Call, Map!lockVars, OtherLocks
<1>2. PICK o \in ops, k \in Keys \cup {NoKey}, v \in Values \cup {NoValue} :
        /\ o = "getSnapShot" <=> k = NoKey
        /\ o = "addOrUpdate" <=> v # NoValue
        /\ Map!Goto(t, [Map!Away EXCEPT !.pc = "acquire", !.op = o, !.key = k, !.val = v])
  BY ONLY Map!Call(t, ops) DEF Map!Call
<1> DEFINE r == [Map!Away EXCEPT !.pc = "acquire", !.op = o, !.key = k, !.val = v]
<1>3. /\ "acquire" \in Labels /\ o \in {"none", "find", "addOrUpdate", "remove", "getSnapShot"}
      /\ v \in Values \cup {NoValue} \cup Snapshot
  BY ONLY <1>2, ops \subseteq {"find", "addOrUpdate", "remove", "getSnapShot"} DEF Labels
<1>4. r \in Locals
  BY ONLY <1>2, <1>3, AwayTyped, Zenon DEF Locals
<1>5. r.pc = "acquire" /\ r.op = o /\ r.key = k /\ r.val = v /\ r.index = 0
  BY ONLY SMTT(30) DEF Map!Away
<1>6. Map!Goto(t, r)
  BY ONLY <1>2
<1> HIDE DEF r
<1>7. /\ loc' \in [MapThreads -> Locals] /\ loc'[t] = r
      /\ \A u \in MapThreads : u # t => loc'[u] = loc[u]
  BY ONLY <1>4, <1>6, Moved, loc \in [MapThreads -> Locals]
<1>8. LocalInv(t)'
  BY ONLY <1>2, <1>3, <1>5, <1>7, ops \subseteq {"find", "addOrUpdate", "remove", "getSnapShot"},
          SMTT(30)
  DEF LocalInv, Pending
<1> QED BY ONLY <1>1, <1>2, <1>5, <1>7, <1>8

LEMMA ReturnMoves ==
  ASSUME loc \in [MapThreads -> Locals], NEW t \in MapThreads, Map!Return(t)
  PROVE  /\ loc' \in [MapThreads -> Locals]
         /\ loc[t].pc = "done" /\ loc'[t].pc = "idle"
         /\ \A u \in MapThreads : u # t => loc'[u] = loc[u]
         /\ mBuckets' = mBuckets /\ mSize' = mSize /\ owners' = owners
         /\ UNCHANGED OtherLocks
<1>1. /\ loc[t].pc = "done" /\ mBuckets' = mBuckets /\ mSize' = mSize /\ owners' = owners
      /\ UNCHANGED OtherLocks /\ Map!Goto(t, Map!Away)
  BY ONLY Map!Return(t) DEF Map!Return, Map!lockVars, OtherLocks
<1>2. Map!Away.pc = "idle"
  BY ONLY DEF Map!Away
<1> QED BY ONLY <1>1, <1>2, AwayTyped, Moved, loc \in [MapThreads -> Locals]

(* A new label, and perhaps a new index.                                   *)
LEMMA Labelled ==
  ASSUME NEW t, loc[t] \in Locals, NEW label \in Labels, NEW i \in Nat
  PROVE  /\ Map!At(t, label) \in Locals
         /\ [Map!At(t, label) EXCEPT !.index = i] \in Locals
         /\ [loc[t] EXCEPT !.index = i] \in Locals
BY ONLY loc[t] \in Locals, label \in Labels, i \in Nat, Zenon DEF Map!At, Locals

SameFields(l, m) ==
  /\ l.op = m.op /\ l.key = m.key /\ l.val = m.val /\ l.locks = m.locks
  /\ l.prev = m.prev /\ l.new = m.new

LEMMA LabelFields ==
  ASSUME NEW t, loc[t] \in Locals, NEW label
  PROVE  /\ SameFields(Map!At(t, label), loc[t])
         /\ Map!At(t, label).index = loc[t].index /\ Map!At(t, label).pc = label
<1>1. DOMAIN loc[t] = {"pc", "op", "key", "val", "locks", "index", "prev", "new"}
  BY ONLY loc[t] \in Locals DEF Locals
<1> QED BY ONLY <1>1, SMTT(30) DEF Map!At, SameFields

LEMMA IndexFields ==
  ASSUME NEW t, loc[t] \in Locals, NEW label, NEW i
  PROVE  /\ SameFields([Map!At(t, label) EXCEPT !.index = i], loc[t])
         /\ [Map!At(t, label) EXCEPT !.index = i].pc = label
         /\ [Map!At(t, label) EXCEPT !.index = i].index = i
         /\ SameFields([loc[t] EXCEPT !.index = i], loc[t])
         /\ [loc[t] EXCEPT !.index = i].pc = loc[t].pc
         /\ [loc[t] EXCEPT !.index = i].index = i
<1>1. DOMAIN loc[t] = {"pc", "op", "key", "val", "locks", "index", "prev", "new"}
  BY ONLY loc[t] \in Locals DEF Locals
<1> QED BY ONLY <1>1, SMTT(30) DEF Map!At, SameFields

LEMMA ResetFields ==
  ASSUME NEW t, loc[t] \in Locals, NEW label
  PROVE  LET l == [Map!At(t, label) EXCEPT !.index = 0]
         IN  SameFields(l, loc[t]) /\ l.pc = label /\ l.index = 0
<1>1. DOMAIN loc[t] = {"pc", "op", "key", "val", "locks", "index", "prev", "new"}
  BY ONLY loc[t] \in Locals DEF Locals
<1> QED BY ONLY <1>1, SMTT(30) DEF Map!At, SameFields

LEMMA NextFields ==
  ASSUME NEW t, loc[t] \in Locals, NEW i
  PROVE  LET l == [loc[t] EXCEPT !.index = i]
         IN  SameFields(l, loc[t]) /\ l.pc = loc[t].pc /\ l.index = i
<1>1. DOMAIN loc[t] = {"pc", "op", "key", "val", "locks", "index", "prev", "new"}
  BY ONLY loc[t] \in Locals DEF Locals
<1> QED BY ONLY <1>1, SMTT(30) DEF Map!At, SameFields

(* rehash: the new buckets.                                                *)

LEMMA SpreadTyped ==
  ASSUME BucketsInv, NEW n \in Nat
  PROVE  Spread(n) \in Table
<1>1. 0 .. n - 1 \in SUBSET Nat
  BY ONLY n \in Nat, SMTT(30)
<1>2. \A j \in DOMAIN mBuckets : mBuckets[j] \subseteq Keys \X Values
  BY ONLY BucketsInv DEF BucketsInv
<1>3. UNION {mBuckets[j] : j \in DOMAIN mBuckets} \subseteq Keys \X Values
  BY ONLY <1>2
<1>4. Spread(n) \in [0 .. n - 1 -> SUBSET (Keys \X Values)]
  BY ONLY <1>3 DEF Spread
<1> QED BY ONLY <1>1, <1>4, TableHas

LEMMA CopyTyped ==
  ASSUME BucketsInv, NEW t, loc[t] \in Locals,
         NEW r, r = [Map!At(t, "swap") EXCEPT !.new = Spread(2 * loc[t].prev)]
  PROVE  /\ r \in Locals /\ r.pc = "swap" /\ r.prev = loc[t].prev /\ r.index = loc[t].index
         /\ r.new = Spread(2 * loc[t].prev) /\ r.locks = loc[t].locks
<1>1. 2 * loc[t].prev \in Nat
  BY ONLY loc[t] \in Locals, SMTT(30) DEF Locals
<1>2. PICK b \in Table : b = Spread(2 * loc[t].prev)
  BY ONLY <1>1, BucketsInv, SpreadTyped
<1>3. "swap" \in Labels
  BY ONLY DEF Labels
<1>4. r = [Map!At(t, "swap") EXCEPT !.new = b]
  BY ONLY <1>2, r = [Map!At(t, "swap") EXCEPT !.new = Spread(2 * loc[t].prev)]
<1>5. r \in Locals
  BY ONLY <1>3, <1>4, b \in Table, loc[t] \in Locals, Zenon DEF Map!At, Locals
<1>6. DOMAIN loc[t] = {"pc", "op", "key", "val", "locks", "index", "prev", "new"}
  BY ONLY loc[t] \in Locals DEF Locals
<1>7. /\ r.pc = "swap" /\ r.prev = loc[t].prev /\ r.index = loc[t].index /\ r.new = b
      /\ r.locks = loc[t].locks
  BY ONLY <1>4, <1>6, SMTT(30) DEF Map!At
<1> QED BY ONLY <1>2, <1>5, <1>7

LEMMA SwapTyped ==
  ASSUME NEW t, loc[t] \in Locals, NEW label \in Labels
  PROVE  LET l == [Map!At(t, label) EXCEPT !.new = <<>>]
         IN  /\ l \in Locals /\ l.pc = label /\ l.prev = loc[t].prev
             /\ l.index = loc[t].index /\ l.locks = loc[t].locks
<1> DEFINE r == [Map!At(t, label) EXCEPT !.new = <<>>]
<1>1. <<>> \in Table
  BY ONLY TableHas
<1>2. r \in Locals
  BY ONLY <1>1, loc[t] \in Locals, label \in Labels, Zenon DEF Map!At, Locals
<1>3. DOMAIN loc[t] = {"pc", "op", "key", "val", "locks", "index", "prev", "new"}
  BY ONLY loc[t] \in Locals DEF Locals
<1>4. /\ r.pc = label /\ r.prev = loc[t].prev /\ r.index = loc[t].index
      /\ r.locks = loc[t].locks
  BY ONLY <1>3, SMTT(30) DEF Map!At
<1> QED BY ONLY <1>2, <1>4

LEMMA SwapPairs ==
  ASSUME BucketsInv, mBuckets' = Spread(2 * Map!Size)
  PROVE  /\ Map!Size \in Nat \ {0} /\ DOMAIN mBuckets' = 0 .. 2 * Map!Size - 1
         /\ \A i \in DOMAIN mBuckets' : mBuckets'[i] \subseteq Keys \X Values
         /\ \A i \in DOMAIN mBuckets', k \in Keys, v \in Values :
              <<k, v>> \in mBuckets'[i] <=>
                /\ Hash[k] % (2 * Map!Size) = i
                /\ \E j \in DOMAIN mBuckets : <<k, v>> \in mBuckets[j]
<1>1. /\ Map!Size \in Nat \ {0}
      /\ \A j \in DOMAIN mBuckets : mBuckets[j] \subseteq Keys \X Values
  BY ONLY BucketsInv, SizesAssumption, SMTT(30) DEF BucketsInv
<1>2. /\ DOMAIN mBuckets' = 0 .. 2 * Map!Size - 1
      /\ \A i \in DOMAIN mBuckets' :
           mBuckets'[i] = {e \in UNION {mBuckets[j] : j \in DOMAIN mBuckets} :
                             Hash[e[1]] % (2 * Map!Size) = i}
  BY ONLY mBuckets' = Spread(2 * Map!Size), Zenon DEF Spread
<1>3. \A i \in DOMAIN mBuckets' : mBuckets'[i] \subseteq Keys \X Values
  BY ONLY <1>1, <1>2
<1>4. ASSUME NEW i \in DOMAIN mBuckets', NEW k \in Keys, NEW v \in Values
      PROVE  <<k, v>> \in mBuckets'[i] <=>
                /\ Hash[k] % (2 * Map!Size) = i
                /\ \E j \in DOMAIN mBuckets : <<k, v>> \in mBuckets[j]
  <2>1. mBuckets'[i] = {e \in UNION {mBuckets[j] : j \in DOMAIN mBuckets} :
                          Hash[e[1]] % (2 * Map!Size) = i}
    BY ONLY <1>2, i \in DOMAIN mBuckets'
  <2> QED BY ONLY <2>1, SMTT(30)
<1> QED BY ONLY <1>1, <1>2, <1>3, <1>4

LEMMA SwapBuckets ==
  ASSUME BucketsInv, mBuckets' = Spread(2 * Map!Size), 2 * Map!Size <= MaxSize,
         mSize' = mSize, structure' = structure
  PROVE  /\ BucketsInv' /\ Map!Size' = 2 * Map!Size
         /\ \A k \in Keys, v \in Values :
              (\E i \in DOMAIN mBuckets' : <<k, v>> \in mBuckets'[i])
                <=> \E j \in DOMAIN mBuckets : <<k, v>> \in mBuckets[j]
<1> DEFINE n == 2 * Map!Size
<1>1. /\ Map!Size \in Nat \ {0} /\ DOMAIN mBuckets' = 0 .. n - 1
      /\ \A i \in DOMAIN mBuckets' : mBuckets'[i] \subseteq Keys \X Values
      /\ \A i \in DOMAIN mBuckets', k \in Keys, v \in Values :
           <<k, v>> \in mBuckets'[i] <=>
             Hash[k] % n = i /\ \E j \in DOMAIN mBuckets : <<k, v>> \in mBuckets[j]
  BY ONLY SwapPairs, BucketsInv, mBuckets' = Spread(2 * Map!Size)
<1>2. n \in Nat \ {0} /\ n \in 1 .. MaxSize
  BY ONLY <1>1, 2 * Map!Size <= MaxSize, SizesAssumption, SMTT(30)
<1> HIDE DEF n
<1>3. Map!Size' = n
  BY ONLY <1>1, <1>2, IntervalSize DEF Map!Size
<1>4. \A k \in Keys : Hash[k] % n \in DOMAIN mBuckets'
  BY ONLY <1>1, <1>2, KeysAssumption, ModRange
<1>5. \A k \in Keys, v \in Values :
        (\E i \in DOMAIN mBuckets' : <<k, v>> \in mBuckets'[i])
          <=> \E j \in DOMAIN mBuckets : <<k, v>> \in mBuckets[j]
  BY ONLY <1>1, <1>4, Zenon
<1>6. Present' = Present
  <2>1. ASSUME NEW k \in Keys PROVE k \in Present' <=> k \in Present
    BY ONLY <1>5, Zenon DEF Present
  <2> QED BY ONLY <2>1, SMTT(30) DEF Present
<1>7. \A j1, j2 \in DOMAIN mBuckets, k \in Keys, v, w \in Values :
        <<k, v>> \in mBuckets[j1] /\ <<k, w>> \in mBuckets[j2] => w = v
  BY ONLY BucketsInv DEF BucketsInv
<1>8. \A i \in DOMAIN mBuckets', k \in Keys, v \in Values :
        <<k, v>> \in mBuckets'[i] =>
          Hash[k] % n = i /\ \A w \in Values : <<k, w>> \in mBuckets'[i] => w = v
  BY ONLY <1>1, <1>7, SMTT(30)
<1>9. mSize' = IF Growing' THEN Cardinality(Present') ELSE 0
  BY ONLY <1>6, BucketsInv, mSize' = mSize, structure' = structure DEF BucketsInv, Growing
<1>10. BucketsInv'
  BY ONLY <1>1, <1>2, <1>3, <1>8, <1>9 DEF BucketsInv
<1> QED BY ONLY <1>3, <1>5, <1>10 DEF n

-----------------------------------------------------------------------------
(* StripedThreadSafeHashmap.                                               *)

(* Whoever moves the elements has every mutex, and whoever works on them   *)
(* has one.                                                                *)
LEMMA StripedAlone ==
  ASSUME LocksInv, \A t \in MapThreads : LocalInv(t), StripedInv,
         NEW t \in MapThreads, NEW u \in MapThreads, t # u,
         loc[t].pc \in {"compare", "copy", "swap"}
  PROVE  loc[u].pc \notin {"index", "access", "compare", "copy", "swap"}
<1>1. 0 \in Indices
  BY ONLY InUse, LocksInv, SizesAssumption, SMTT(30) DEF Indices
<1>2. \A i \in Indices : Holds(t, i)
  BY ONLY StripedInv, loc[t].pc \in {"compare", "copy", "swap"}, Zenon DEF StripedInv, StripedThread
<1>3. \A i \in Indices : ~ Holds(u, i)
  BY ONLY <1>2, t # u DEF Holds
<1>4. loc[u].pc \in {"index", "access"} => StripedMutex(u) \in Indices
  BY ONLY InUse, LocksInv, \A v \in MapThreads : LocalInv(v) DEF LocalInv, StripedMutex
<1> QED BY ONLY <1>1, <1>3, <1>4, StripedInv, Zenon DEF StripedInv, StripedThread

LEMMA StripedOther ==
  ASSUME LocksInv, NEW u \in MapThreads, LocalInv(u), StripedThread(u), loc'[u] = loc[u],
         mLocks' = mLocks, length' = length,
         \A i \in Indices : Holds(u, i) => Holds(u, i)',
         loc[u].pc \in {"copy", "swap"} => Map!Size' = Map!Size /\ mBuckets' = mBuckets
  PROVE  StripedThread(u)'
<1>1. loc[u].pc \in {"index", "access"} => StripedMutex(u) \in Indices
  BY ONLY InUse, LocksInv, LocalInv(u) DEF LocalInv, StripedMutex
<1>2. Indices' = Indices /\ StripedMutex(u)' = StripedMutex(u)
  BY ONLY mLocks' = mLocks, length' = length, loc'[u] = loc[u] DEF Indices, StripedMutex
<1>3. loc[u].pc \in {"copy", "swap"} => \A n : Spread(n)' = Spread(n)
  BY ONLY loc[u].pc \in {"copy", "swap"} => Map!Size' = Map!Size /\ mBuckets' = mBuckets
  DEF Spread
<1>4. loc[u].index \in Indices => \A i \in 0 .. loc[u].index - 1 : i \in Indices
  BY ONLY InUse, LocksInv, SizesAssumption, SMTT(30) DEF Indices
<1>0. PICK l : l = loc[u]
  OBVIOUS
<1>5. loc'[u] = l
  BY ONLY <1>0, loc'[u] = loc[u]
<1>6. /\ l.pc \in {"idle", "acquire", "index", "access", "rehash", "compare", "copy",
                   "swap", "unlock", "done"}
      /\ l.pc \in {"acquire", "index", "access"} => l.op # "getSnapShot"
      /\ l.pc \in {"index", "access"} => Holds(u, StripedMutex(u))
      /\ l.pc = "rehash" => l.index \in Indices /\ \A i \in 0 .. l.index - 1 : Holds(u, i)
      /\ l.pc \in {"compare", "copy", "swap"} =>
           l.index = 0 /\ \A i \in Indices : Holds(u, i)
      /\ l.pc = "unlock" =>
           l.index \in Indices /\ \A i \in Indices : i >= l.index => Holds(u, i)
      /\ l.pc \in {"rehash", "compare", "copy", "swap"} => 2 * l.prev <= MaxSize
      /\ l.pc \in {"copy", "swap"} => l.prev = Map!Size
      /\ l.pc = "swap" => l.new = Spread(2 * l.prev)
  BY ONLY <1>0, StripedThread(u) DEF StripedThread
<1>7. /\ l.pc \in {"index", "access"} => Holds(u, StripedMutex(u))'
      /\ l.pc = "rehash" => l.index \in Indices' /\ \A i \in 0 .. l.index - 1 : Holds(u, i)'
      /\ l.pc \in {"compare", "copy", "swap"} => \A i \in Indices' : Holds(u, i)'
      /\ l.pc = "unlock" =>
           l.index \in Indices' /\ \A i \in Indices' : i >= l.index => Holds(u, i)'
      /\ l.pc \in {"copy", "swap"} => l.prev = Map!Size'
      /\ l.pc = "swap" => l.new = Spread(2 * l.prev)'
  <2>1. l.pc \in {"index", "access"} => Holds(u, StripedMutex(u))'
    <3>1. l.pc \in {"index", "access"} => Holds(u, StripedMutex(u)) /\ StripedMutex(u) \in Indices
      BY ONLY <1>0, <1>1, <1>6
    <3>2. ASSUME NEW i \in Indices, Holds(u, i), i = StripedMutex(u)
          PROVE  Holds(u, StripedMutex(u))'
      BY ONLY <3>2, <1>2, \A j \in Indices : Holds(u, j) => Holds(u, j)' DEF Holds
    <3> QED BY ONLY <3>1, <3>2
  <2>2. l.pc = "rehash" => l.index \in Indices' /\ \A i \in 0 .. l.index - 1 : Holds(u, i)'
    BY ONLY <1>0, <1>2, <1>4, <1>6, \A i \in Indices : Holds(u, i) => Holds(u, i)'
  <2>3. /\ l.pc \in {"compare", "copy", "swap"} => \A i \in Indices' : Holds(u, i)'
        /\ l.pc = "unlock" =>
             l.index \in Indices' /\ \A i \in Indices' : i >= l.index => Holds(u, i)'
    BY ONLY <1>2, <1>6, \A i \in Indices : Holds(u, i) => Holds(u, i)'
  <2>4. /\ l.pc \in {"copy", "swap"} => l.prev = Map!Size'
        /\ l.pc = "swap" => l.new = Spread(2 * l.prev)'
    BY ONLY <1>0, <1>3, <1>6,
            loc[u].pc \in {"copy", "swap"} => Map!Size' = Map!Size /\ mBuckets' = mBuckets
  <2> QED BY ONLY <2>1, <2>2, <2>3, <2>4
<1> QED BY ONLY <1>5, <1>6, <1>7 DEF StripedThread

(* A step of t that leaves the buckets alone.                              *)
LEMMA StripedQuiet ==
  ASSUME MapInv, structure = "striped", structure' = structure, NEW t \in MapThreads,
         loc' \in [MapThreads -> Locals], \A u \in MapThreads : u # t => loc'[u] = loc[u],
         mBuckets' = mBuckets, mSize' = mSize, mLocks' = mLocks, length' = length,
         LocksInv', \A x \in DOMAIN owners' : owners'[x] # {} => x[1] = mLocks,
         \A u \in MapThreads : u # t => \A i \in Indices : Holds(u, i) => Holds(u, i)',
         LocalInv(t)', StripedThread(t)'
  PROVE  MapInv'
<1>1. BucketsInv' /\ Map!Size' = Map!Size
  BY ONLY MapInv, SameBuckets, mBuckets' = mBuckets, mSize' = mSize, structure' = structure
  DEF MapInv
<1>2. ASSUME NEW u \in MapThreads, u # t
      PROVE  LocalInv(u)' /\ StripedThread(u)'
  <2>1. LocalInv(u) /\ StripedThread(u) /\ LocksInv /\ loc'[u] = loc[u]
    BY ONLY <1>2, MapInv, structure = "striped",
            \A v \in MapThreads : v # t => loc'[v] = loc[v]
    DEF MapInv, StripedInv
  <2>2. LocalInv(u)'
    BY ONLY <2>1, <1>1, SameLocal
  <2>3. \A i \in Indices : Holds(u, i) => Holds(u, i)'
    BY ONLY <1>2,
            \A v \in MapThreads : v # t => \A i \in Indices : Holds(v, i) => Holds(v, i)'
  <2>4. StripedThread(u)'
    BY ONLY <2>1, <2>3, <1>1, mBuckets' = mBuckets, mLocks' = mLocks, length' = length,
            StripedOther
  <2> QED BY ONLY <2>2, <2>4
<1>3. StripedInv'
  BY ONLY <1>2, StripedThread(t)', mLocks' = mLocks,
          \A x \in DOMAIN owners' : owners'[x] # {} => x[1] = mLocks
  DEF StripedInv
<1> QED
  BY ONLY <1>1, <1>2, <1>3, structure = "striped", structure' = structure, LocksInv',
          LocalInv(t)', loc' \in [MapThreads -> Locals]
  DEF MapInv

LEMMA StripedOutside ==
  ASSUME MapInv, structure = "striped", structure' = structure, NEW t \in MapThreads,
         Map!Call(t, {"find", "addOrUpdate", "remove"}) \/ Map!Return(t)
  PROVE  MapInv'
<1>1. /\ loc \in [MapThreads -> Locals] /\ LocksInv
      /\ \A x \in DOMAIN owners : owners[x] # {} => x[1] = mLocks
  BY ONLY MapInv, structure = "striped" DEF MapInv, StripedInv
<1>2. /\ loc' \in [MapThreads -> Locals]
      /\ loc'[t].pc \in {"acquire", "idle"} /\ (loc'[t].pc = "acquire" => loc'[t].op # "getSnapShot")
      /\ \A u \in MapThreads : u # t => loc'[u] = loc[u]
      /\ LocalInv(t)'
      /\ mBuckets' = mBuckets /\ mSize' = mSize /\ owners' = owners
      /\ UNCHANGED OtherLocks
  <2>1. CASE Map!Call(t, {"find", "addOrUpdate", "remove"})
    <3>1. {"find", "addOrUpdate", "remove"} \subseteq {"find", "addOrUpdate", "remove", "getSnapShot"}
      OBVIOUS
    <3> QED BY ONLY <2>1, <3>1, <1>1, CallMoves
  <2>2. CASE Map!Return(t)
    <3>1. /\ loc' \in [MapThreads -> Locals] /\ loc'[t].pc = "idle"
          /\ \A u \in MapThreads : u # t => loc'[u] = loc[u]
          /\ mBuckets' = mBuckets /\ mSize' = mSize /\ owners' = owners
          /\ UNCHANGED OtherLocks
      BY ONLY <2>2, <1>1, ReturnMoves
    <3>2. LocalInv(t)'
      BY ONLY <3>1 DEF LocalInv, Pending
    <3> QED BY ONLY <3>1, <3>2
  <2> QED BY ONLY <2>1, <2>2, Map!Call(t, {"find", "addOrUpdate", "remove"}) \/ Map!Return(t)
<1>3. LocksInv'
  BY ONLY <1>1, <1>2, LocksKept
<1>4. mLocks' = mLocks /\ length' = length
  BY ONLY <1>2 DEF OtherLocks
<1>5. StripedThread(t)'
  BY ONLY <1>2 DEF StripedThread
<1>6. \A u \in MapThreads, i \in Indices : Holds(u, i) => Holds(u, i)'
  BY ONLY <1>2, <1>4 DEF Holds
<1> QED
  BY ONLY <1>1, <1>2, <1>3, <1>4, <1>5, <1>6, MapInv, structure = "striped",
          structure' = structure, StripedQuiet

LEMMA StripedAcquire ==
  ASSUME MapInv, structure = "striped", structure' = structure, NEW t \in MapThreads,
         Striped!acquire(t)
  PROVE  MapInv'
<1>1. /\ loc \in [MapThreads -> Locals] /\ LocksInv /\ loc[t] \in Locals
      /\ \A x \in DOMAIN owners : owners[x] # {} => x[1] = mLocks
      /\ LocalInv(t) /\ StripedThread(t)
  BY ONLY MapInv, structure = "striped" DEF MapInv, StripedInv
<1>2. /\ loc[t].pc = "acquire" /\ mBuckets' = mBuckets /\ mSize' = mSize
      /\ UNCHANGED OtherLocks /\ mLocks' = mLocks /\ length' = length
      /\ owners[<<mLocks, StripedMutex(t)>>] = {}
      /\ owners' = [owners EXCEPT ![<<mLocks, StripedMutex(t)>>] = {t}]
      /\ Map!Goto(t, Map!At(t, "index"))
  BY ONLY Striped!acquire(t)
  DEF Striped!acquire, Striped!Locked, Striped!Goto, Striped!At, Map!Goto, Map!At, OtherLocks,
      StripedMutex
<1>3. "index" \in Labels
  BY ONLY DEF Labels
<1>4. /\ loc' \in [MapThreads -> Locals] /\ loc'[t] = Map!At(t, "index")
      /\ \A u \in MapThreads : u # t => loc'[u] = loc[u]
  BY ONLY <1>1, <1>2, <1>3, Labelled, Moved
<1>5. /\ loc'[t].pc = "index" /\ loc'[t].key = loc[t].key /\ loc'[t].op = loc[t].op
      /\ loc'[t].val = loc[t].val
  BY ONLY <1>1, <1>4, LabelFields DEF SameFields
<1>6. loc[t].key \in Keys /\ loc[t].op # "getSnapShot"
  BY ONLY <1>1, <1>2 DEF LocalInv, StripedThread, Pending, Locals
<1>7. StripedMutex(t) \in Indices /\ StripedMutex(t) \in 0 .. length[mLocks] - 1
      /\ mLocks \in Ptrs
  BY ONLY <1>1, <1>6, InUse DEF StripedMutex, Indices
<1>8. /\ LocksInv' /\ DOMAIN owners' = DOMAIN owners
      /\ <<mLocks, StripedMutex(t)>> \in DOMAIN owners
      /\ \A x \in DOMAIN owners :
           owners'[x] = IF x = <<mLocks, StripedMutex(t)>> THEN {t} ELSE owners[x]
  <2>1. {t} \in SUBSET MapThreads
    OBVIOUS
  <2> QED BY ONLY <2>1, <1>1, <1>2, <1>7, LockTaken
<1>9. LocalInv(t)'
  BY ONLY <1>1, <1>2, <1>5, <1>6 DEF LocalInv, Pending
<1>10. StripedThread(t)'
  <2>1. StripedMutex(t)' = StripedMutex(t)
    BY ONLY <1>2, <1>5 DEF StripedMutex
  <2>2. Holds(t, StripedMutex(t))'
    BY ONLY <2>1, <1>2, <1>8 DEF Holds
  <2> QED BY ONLY <1>5, <1>6, <2>2 DEF StripedThread
<1>11. \A x \in DOMAIN owners' : owners'[x] # {} => x[1] = mLocks
  BY ONLY <1>1, <1>8
<1>12. \A u \in MapThreads : u # t => \A i \in Indices : Holds(u, i) => Holds(u, i)'
  BY ONLY <1>1, <1>2, <1>8, InUse DEF Holds
<1> QED
  BY ONLY <1>2, <1>4, <1>8, <1>9, <1>10, <1>11, <1>12, MapInv, structure = "striped",
          structure' = structure, StripedQuiet

LEMMA StripedParts ==
  ASSUME MapInv, structure = "striped", NEW t \in MapThreads
  PROVE  /\ loc \in [MapThreads -> Locals] /\ LocksInv /\ loc[t] \in Locals /\ BucketsInv
         /\ \A x \in DOMAIN owners : owners[x] # {} => x[1] = mLocks
         /\ LocalInv(t) /\ StripedThread(t) /\ StripedInv
         /\ \A u \in MapThreads : LocalInv(u)
BY ONLY MapInv, structure = "striped" DEF MapInv, StripedInv

LEMMA StripedIndex ==
  ASSUME MapInv, structure = "striped", structure' = structure, NEW t \in MapThreads,
         Map!getBucketIndex(t)
  PROVE  MapInv'
<1>1. /\ loc \in [MapThreads -> Locals] /\ LocksInv /\ loc[t] \in Locals /\ BucketsInv
      /\ \A x \in DOMAIN owners : owners[x] # {} => x[1] = mLocks
      /\ LocalInv(t) /\ StripedThread(t)
  BY ONLY MapInv, structure = "striped", StripedParts
<1> DEFINE i == Hash[loc[t].key] % Map!Size
<1>2. /\ loc[t].pc = "index" /\ mBuckets' = mBuckets /\ mSize' = mSize
      /\ UNCHANGED OtherLocks /\ mLocks' = mLocks /\ length' = length /\ owners' = owners
      /\ Map!Goto(t, [Map!At(t, "access") EXCEPT !.index = i])
  BY ONLY Map!getBucketIndex(t) DEF Map!getBucketIndex, Map!lockVars, OtherLocks
<1>3. loc[t].key \in Keys /\ i \in Nat
  <2>1. loc[t].key \in Keys /\ Hash[loc[t].key] \in Nat
    BY ONLY <1>1, <1>2, KeysAssumption DEF LocalInv
  <2>2. Map!Size \in Nat \ {0}
    BY ONLY <1>1, SizesAssumption, SMTT(30) DEF BucketsInv
  <2> QED BY ONLY <2>1, <2>2, ModRange, SMTT(30)
<1>4. "access" \in Labels
  BY ONLY DEF Labels
<1>5. /\ loc' \in [MapThreads -> Locals]
      /\ loc'[t] = [Map!At(t, "access") EXCEPT !.index = i]
      /\ \A u \in MapThreads : u # t => loc'[u] = loc[u]
  BY ONLY <1>1, <1>2, <1>3, <1>4, Labelled, Moved
<1> HIDE DEF i
<1>6. /\ loc'[t].pc = "access" /\ loc'[t].key = loc[t].key /\ loc'[t].op = loc[t].op
      /\ loc'[t].val = loc[t].val /\ loc'[t].index = i
  BY ONLY <1>1, <1>5, IndexFields DEF SameFields
<1>7. Map!Size' = Map!Size
  BY ONLY <1>2 DEF Map!Size
<1>8. LocalInv(t)'
  BY ONLY <1>1, <1>2, <1>3, <1>6, <1>7 DEF LocalInv, Pending, i
<1>9. StripedThread(t)'
  <2>1. Holds(t, StripedMutex(t)) /\ loc[t].op # "getSnapShot"
    BY ONLY <1>1, <1>2 DEF StripedThread
  <2>2. Holds(t, StripedMutex(t))'
    BY ONLY <2>1, <1>2, <1>6 DEF Holds, StripedMutex
  <2> QED BY ONLY <2>1, <2>2, <1>6 DEF StripedThread
<1>10. LocksInv'
  BY ONLY <1>1, <1>2, LocksKept
<1>11. \A u \in MapThreads : u # t => \A j \in Indices : Holds(u, j) => Holds(u, j)'
  BY ONLY <1>2 DEF Holds
<1> QED
  BY ONLY <1>1, <1>2, <1>5, <1>8, <1>9, <1>10, <1>11, MapInv, structure = "striped",
          structure' = structure, StripedQuiet

LEMMA StripedAccess ==
  ASSUME MapInv, structure = "striped", structure' = structure, NEW t \in MapThreads,
         Map!access(t, TRUE)
  PROVE  MapInv'
<1>1. /\ loc \in [MapThreads -> Locals] /\ LocksInv /\ loc[t] \in Locals /\ BucketsInv
      /\ \A x \in DOMAIN owners : owners[x] # {} => x[1] = mLocks
      /\ LocalInv(t) /\ StripedInv /\ \A u \in MapThreads : LocalInv(u)
  BY ONLY MapInv, structure = "striped", StripedParts
<1>2. Growing = TRUE
  BY ONLY structure = "striped" DEF Growing
<1>3. BucketsInv' /\ Map!Size' = Map!Size
  <2>1. Map!access(t, Growing)
    BY ONLY <1>2, Map!access(t, TRUE)
  <2> QED BY ONLY <1>1, <2>1, structure' = structure, AccessBuckets
<1>4. /\ loc[t].pc = "access" /\ Map!Unlocked(t)
      /\ loc' \in [MapThreads -> Locals]
      /\ \/ loc'[t].pc = "done"
         \/ loc'[t].pc = "rehash" /\ loc'[t].index = 0 /\ 2 * loc'[t].prev <= MaxSize
      /\ \A u \in MapThreads : u # t => loc'[u] = loc[u]
      /\ UNCHANGED <<mLocks, length, mRehash, slot, status, holders>>
  BY ONLY <1>1, Map!access(t, TRUE), AccessMoves
<1>5. UNCHANGED OtherLocks /\ mLocks' = mLocks /\ length' = length
  BY ONLY <1>4 DEF OtherLocks
<1>6. /\ LocksInv' /\ DOMAIN owners' = DOMAIN owners
      /\ \A x \in DOMAIN owners : owners'[x] = owners[x] \ {t}
  BY ONLY <1>1, <1>4, <1>5, LocksGiven
<1>7. ASSUME NEW u \in MapThreads, u # t
      PROVE  LocalInv(u)' /\ StripedThread(u)'
  <2>1. LocalInv(u) /\ StripedThread(u) /\ loc'[u] = loc[u]
    BY ONLY <1>1, <1>4, <1>7 DEF StripedInv
  <2>2. loc[u].pc \notin {"copy", "swap"}
    BY ONLY <1>1, <1>4, <1>7, StripedAlone
  <2>3. \A i \in Indices : Holds(u, i) => Holds(u, i)'
    BY ONLY <1>1, <1>5, <1>6, <1>7, InUse DEF Holds
  <2>4. StripedThread(u)'
    BY ONLY <1>1, <1>5, <2>1, <2>2, <2>3, StripedOther
  <2> QED BY ONLY <1>3, <2>1, <2>4, SameLocal
<1>8. LocalInv(t)'
  BY ONLY <1>4 DEF LocalInv, Pending
<1>9. StripedThread(t)'
  <2>1. loc'[t].pc = "rehash" =>
          loc'[t].index \in Indices' /\ \A i \in 0 .. loc'[t].index - 1 : Holds(t, i)'
    <3>1. 0 \in Indices'
      BY ONLY <1>1, <1>5, InUse, SizesAssumption, SMTT(30) DEF Indices
    <3>2. 0 .. 0 - 1 = {}
      BY ONLY SMTT(30)
    <3> QED BY ONLY <1>4, <3>1, <3>2
  <2> QED BY ONLY <1>4, <2>1 DEF StripedThread
<1>10. \A x \in DOMAIN owners' : owners'[x] # {} => x[1] = mLocks'
  BY ONLY <1>1, <1>5, <1>6
<1>11. StripedInv'
  BY ONLY <1>7, <1>9, <1>10 DEF StripedInv
<1> QED
  BY ONLY <1>3, <1>4, <1>6, <1>7, <1>8, <1>11, structure = "striped", structure' = structure
  DEF MapInv

(* Every step of the rehash that takes or gives back a mutex.              *)

LEMMA StripedLockAll ==
  ASSUME MapInv, structure = "striped", structure' = structure, NEW t \in MapThreads,
         Striped!lockAll(t)
  PROVE  MapInv'
<1>1. /\ loc \in [MapThreads -> Locals] /\ LocksInv /\ loc[t] \in Locals
      /\ \A x \in DOMAIN owners : owners[x] # {} => x[1] = mLocks
      /\ LocalInv(t) /\ StripedThread(t)
  BY ONLY MapInv, structure = "striped", StripedParts
<1> PICK i : i = loc[t].index
  OBVIOUS
<1> DEFINE r == IF i + 1 < length[mLocks] THEN [loc[t] EXCEPT !.index = i + 1]
                ELSE [Map!At(t, "compare") EXCEPT !.index = 0]
<1>2. /\ loc[t].pc = "rehash" /\ mBuckets' = mBuckets /\ mSize' = mSize
      /\ UNCHANGED OtherLocks /\ mLocks' = mLocks /\ length' = length
      /\ owners[<<mLocks, i>>] = {}
      /\ owners' = [owners EXCEPT ![<<mLocks, i>>] = {t}]
      /\ Map!Goto(t, r)
  BY ONLY Striped!lockAll(t), i = loc[t].index
  DEF Striped!lockAll, Striped!Locked, Striped!Goto, Striped!At, Map!Goto, Map!At, OtherLocks
<1> HIDE DEF r
<1>3. /\ i \in Indices /\ i \in 0 .. length[mLocks] - 1 /\ i \in Nat /\ i + 1 \in Nat
      /\ \A j \in 0 .. i - 1 : Holds(t, j)
      /\ 2 * loc[t].prev <= MaxSize
      /\ mLocks \in Ptrs
      /\ 0 \in Indices /\ i + 1 < length[mLocks] => i + 1 \in Indices
      /\ \A j \in 0 .. (i + 1) - 1 : j = i \/ j \in 0 .. i - 1
      /\ ~ i + 1 < length[mLocks] => \A j \in Indices : j = i \/ j \in 0 .. i - 1
      /\ \A j \in 0 .. (i + 1) - 1 : j \in Indices
  <2>1. i \in Indices /\ (\A j \in 0 .. i - 1 : Holds(t, j)) /\ 2 * loc[t].prev <= MaxSize
    BY ONLY <1>1, <1>2, i = loc[t].index DEF StripedThread
  <2>2. mLocks \in Ptrs /\ length[mLocks] \in 1 .. MaxSize
    BY ONLY <1>1, InUse
  <2> QED BY ONLY <2>1, <2>2, SizesAssumption, SMTT(30) DEF Indices
<1>4. /\ r \in Locals /\ r.pc \in {"rehash", "compare"} /\ SameFields(r, loc[t])
      /\ r.index = IF i + 1 < length[mLocks] THEN i + 1 ELSE 0
      /\ r.pc = IF i + 1 < length[mLocks] THEN "rehash" ELSE "compare"
  <2>1. "compare" \in Labels /\ "idle" \in Labels /\ 0 \in Nat
    BY ONLY SMTT(30) DEF Labels
  <2>2. CASE i + 1 < length[mLocks]
    <3>1. r = [loc[t] EXCEPT !.index = i + 1]
      BY ONLY <2>2 DEF r
    <3>2. r \in Locals
      BY ONLY <3>1, <1>1, <1>3, <2>1, Labelled
    <3>3. SameFields(r, loc[t]) /\ r.index = i + 1 /\ r.pc = "rehash"
      BY ONLY <3>1, <1>1, <1>2, NextFields
    <3> QED BY ONLY <3>2, <3>3, <2>2
  <2>3. CASE ~ i + 1 < length[mLocks]
    <3>1. r = [Map!At(t, "compare") EXCEPT !.index = 0]
      BY ONLY <2>3 DEF r
    <3>2. r \in Locals
      BY ONLY <3>1, <1>1, <2>1, Labelled
    <3>3. SameFields(r, loc[t]) /\ r.index = 0 /\ r.pc = "compare"
      <4>1. loc[t] \in Locals
        BY ONLY <1>1
      <4>2. /\ SameFields([Map!At(t, "compare") EXCEPT !.index = 0], loc[t])
            /\ [Map!At(t, "compare") EXCEPT !.index = 0].index = 0
            /\ [Map!At(t, "compare") EXCEPT !.index = 0].pc = "compare"
        BY ONLY <4>1, ResetFields
      <4> QED BY ONLY <3>1, <4>2
    <3> QED BY ONLY <3>2, <3>3, <2>3
  <2> QED BY ONLY <2>2, <2>3
<1>5. /\ loc' \in [MapThreads -> Locals] /\ loc'[t] = r
      /\ \A u \in MapThreads : u # t => loc'[u] = loc[u]
  BY ONLY <1>1, <1>2, <1>4, Moved
<1>6. /\ LocksInv' /\ DOMAIN owners' = DOMAIN owners
      /\ \A x \in DOMAIN owners :
           owners'[x] = IF x = <<mLocks, i>> THEN {t} ELSE owners[x]
  <2>1. {t} \in SUBSET MapThreads
    OBVIOUS
  <2> QED BY ONLY <2>1, <1>1, <1>2, <1>3, LockTaken
<1>7. LocalInv(t)'
  BY ONLY <1>4, <1>5 DEF LocalInv, Pending
<1>8. \A j \in Indices : j = i \/ Holds(t, j) => Holds(t, j)'
  BY ONLY <1>1, <1>2, <1>6, InUse DEF Holds
<1>9. StripedThread(t)'
  <2>1. Indices' = Indices
    BY ONLY <1>2 DEF Indices
  <2>2. CASE i + 1 < length[mLocks]
    <3>1. i + 1 \in Indices /\ \A j \in 0 .. (i + 1) - 1 : Holds(t, j)'
      BY ONLY <2>2, <1>3, <1>8
    <3> QED BY ONLY <2>1, <2>2, <3>1, <1>3, <1>4, <1>5 DEF StripedThread, SameFields
  <2>3. CASE ~ i + 1 < length[mLocks]
    <3>1. \A j \in Indices : Holds(t, j)'
      BY ONLY <2>3, <1>3, <1>8
    <3> QED BY ONLY <2>1, <2>3, <3>1, <1>3, <1>4, <1>5 DEF StripedThread, SameFields
  <2> QED BY ONLY <2>2, <2>3
<1>10. \A x \in DOMAIN owners' : owners'[x] # {} => x[1] = mLocks
  BY ONLY <1>1, <1>6
<1>11. \A u \in MapThreads : u # t => \A j \in Indices : Holds(u, j) => Holds(u, j)'
  BY ONLY <1>1, <1>2, <1>6, InUse DEF Holds
<1> QED
  BY ONLY <1>2, <1>5, <1>6, <1>7, <1>9, <1>10, <1>11, MapInv, structure = "striped",
          structure' = structure, StripedQuiet

LEMMA StripedUnlockAll ==
  ASSUME MapInv, structure = "striped", structure' = structure, NEW t \in MapThreads,
         Striped!unlockAll(t)
  PROVE  MapInv'
<1>1. /\ loc \in [MapThreads -> Locals] /\ LocksInv /\ loc[t] \in Locals
      /\ \A x \in DOMAIN owners : owners[x] # {} => x[1] = mLocks
      /\ LocalInv(t) /\ StripedThread(t)
  BY ONLY MapInv, structure = "striped", StripedParts
<1> PICK i : i = loc[t].index
  OBVIOUS
<1> DEFINE r == IF i + 1 < length[mLocks] THEN [loc[t] EXCEPT !.index = i + 1]
                ELSE Map!Done(t, NoValue)
<1>2. /\ loc[t].pc = "unlock" /\ mBuckets' = mBuckets /\ mSize' = mSize
      /\ UNCHANGED OtherLocks /\ mLocks' = mLocks /\ length' = length
      /\ owners' = [owners EXCEPT ![<<mLocks, i>>] = {}]
      /\ Map!Goto(t, r)
  BY ONLY Striped!unlockAll(t), i = loc[t].index
  DEF Striped!unlockAll, Striped!Goto, Striped!At, Map!Goto, Map!At, OtherLocks,
      Striped!Done, Map!Done, Striped!Away, Map!Away
<1> HIDE DEF r
<1>3. /\ i \in 0 .. length[mLocks] - 1 /\ i + 1 \in Nat /\ mLocks \in Ptrs
      /\ i \in Indices /\ \A j \in Indices : j >= i => Holds(t, j)
      /\ Holds(t, i)
      /\ i + 1 < length[mLocks] => i + 1 \in Indices
      /\ \A j \in Indices : j >= i + 1 => j >= i /\ j # i
  <2>1. i \in Indices /\ (\A j \in Indices : j >= i => Holds(t, j))
    BY ONLY <1>1, <1>2, i = loc[t].index DEF StripedThread
  <2>2. mLocks \in Ptrs /\ length[mLocks] \in 1 .. MaxSize
    BY ONLY <1>1, InUse
  <2> QED BY ONLY <2>1, <2>2, SizesAssumption, SMTT(30) DEF Indices
<1>4. /\ r \in Locals
      /\ IF i + 1 < length[mLocks] THEN r.pc = "unlock" /\ r.index = i + 1 ELSE r.pc = "done"
  <2>1. CASE i + 1 < length[mLocks]
    <3>1. r = [loc[t] EXCEPT !.index = i + 1]
      BY ONLY <2>1 DEF r
    <3>2. "unlock" \in Labels
      BY ONLY DEF Labels
    <3>3. r \in Locals
      BY ONLY <3>1, <3>2, <1>1, <1>3, Labelled
    <3>4. r.index = i + 1 /\ r.pc = "unlock"
      BY ONLY <3>1, <1>1, <1>2, NextFields
    <3> QED BY ONLY <3>3, <3>4, <2>1
  <2>2. CASE ~ i + 1 < length[mLocks]
    <3>1. r = Map!Done(t, NoValue)
      BY ONLY <2>2 DEF r
    <3>2. NoValue \in Values \cup {NoValue} \cup Snapshot
      OBVIOUS
    <3> QED BY ONLY <3>1, <3>2, <1>1, <2>2, DoneTyped
  <2> QED BY ONLY <2>1, <2>2
<1>5. /\ loc' \in [MapThreads -> Locals] /\ loc'[t] = r
      /\ \A u \in MapThreads : u # t => loc'[u] = loc[u]
  BY ONLY <1>1, <1>2, <1>4, Moved
<1>6. /\ LocksInv' /\ DOMAIN owners' = DOMAIN owners
      /\ \A x \in DOMAIN owners :
           owners'[x] = IF x = <<mLocks, i>> THEN {} ELSE owners[x]
  <2>1. {} \in SUBSET MapThreads
    OBVIOUS
  <2> QED BY ONLY <2>1, <1>1, <1>2, <1>3, LockTaken
<1>7. LocalInv(t)'
  BY ONLY <1>4, <1>5 DEF LocalInv, Pending
<1>8. \A u \in MapThreads, j \in Indices : j # i /\ Holds(u, j) => Holds(u, j)'
  BY ONLY <1>1, <1>2, <1>6, InUse DEF Holds
<1>9. StripedThread(t)'
  <2>1. Indices' = Indices
    BY ONLY <1>2 DEF Indices
  <2>2. CASE i + 1 < length[mLocks]
    <3>1. i + 1 \in Indices /\ \A j \in Indices : j >= i + 1 => Holds(t, j)'
      BY ONLY <2>2, <1>3, <1>8
    <3> QED BY ONLY <2>1, <2>2, <3>1, <1>4, <1>5 DEF StripedThread
  <2>3. CASE ~ i + 1 < length[mLocks]
    BY ONLY <2>3, <1>4, <1>5 DEF StripedThread
  <2> QED BY ONLY <2>2, <2>3
<1>10. \A x \in DOMAIN owners' : owners'[x] # {} => x[1] = mLocks
  BY ONLY <1>1, <1>6
<1>11. \A u \in MapThreads : u # t => \A j \in Indices : Holds(u, j) => Holds(u, j)'
  <2>1. \A u \in MapThreads : u # t => ~ Holds(u, i)
    BY ONLY <1>3 DEF Holds
  <2> QED BY ONLY <2>1, <1>8
<1> QED
  BY ONLY <1>2, <1>5, <1>6, <1>7, <1>9, <1>10, <1>11, MapInv, structure = "striped",
          structure' = structure, StripedQuiet

LEMMA StripedCompare ==
  ASSUME MapInv, structure = "striped", structure' = structure, NEW t \in MapThreads,
         Striped!compare(t)
  PROVE  MapInv'
<1>1. /\ loc \in [MapThreads -> Locals] /\ LocksInv /\ loc[t] \in Locals
      /\ \A x \in DOMAIN owners : owners[x] # {} => x[1] = mLocks
      /\ LocalInv(t) /\ StripedThread(t)
  BY ONLY MapInv, structure = "striped", StripedParts
<1>2. PICK label : label = IF loc[t].prev # Map!Size THEN "unlock" ELSE "copy"
  OBVIOUS
<1>3. /\ loc[t].pc = "compare" /\ mBuckets' = mBuckets /\ mSize' = mSize
      /\ UNCHANGED OtherLocks /\ mLocks' = mLocks /\ length' = length /\ owners' = owners
      /\ Map!Goto(t, Map!At(t, label))
  BY ONLY Striped!compare(t), <1>2, SameSize
  DEF Striped!compare, Striped!Goto, Striped!At, Map!Goto, Map!At, OtherLocks, Striped!lockVars
<1>4. label \in Labels /\ label \in {"unlock", "copy"}
  BY ONLY <1>2 DEF Labels
<1>5. Map!At(t, label) \in Locals
  <2>1. 0 \in Nat
    OBVIOUS
  <2> QED BY ONLY <1>1, <1>4, <2>1, Labelled
<1>6. /\ SameFields(Map!At(t, label), loc[t])
      /\ Map!At(t, label).index = loc[t].index /\ Map!At(t, label).pc = label
  BY ONLY <1>1, LabelFields
<1>7. /\ loc' \in [MapThreads -> Locals] /\ loc'[t] = Map!At(t, label)
      /\ \A u \in MapThreads : u # t => loc'[u] = loc[u]
  BY ONLY <1>1, <1>3, <1>5, Moved
<1>8. loc'[t].pc = label /\ loc'[t].prev = loc[t].prev /\ loc'[t].index = loc[t].index
  BY ONLY <1>6, <1>7 DEF SameFields
<1>9. LocalInv(t)'
  BY ONLY <1>4, <1>8 DEF LocalInv, Pending
<1>10. \A u \in MapThreads, j \in Indices : Holds(u, j) => Holds(u, j)'
  BY ONLY <1>3 DEF Holds
<1>11. StripedThread(t)'
  <2>1. Indices' = Indices /\ Map!Size' = Map!Size /\ 0 \in Indices
    BY ONLY <1>1, <1>3, InUse, SizesAssumption, SMTT(30) DEF Indices, Map!Size
  <2>2. loc[t].index = 0 /\ (\A i \in Indices : Holds(t, i)) /\ 2 * loc[t].prev <= MaxSize
    BY ONLY <1>1, <1>3 DEF StripedThread
  <2>3. \A i \in Indices' : Holds(t, i)'
    BY ONLY <2>1, <2>2, <1>10
  <2> QED BY ONLY <2>1, <2>2, <2>3, <1>2, <1>4, <1>8 DEF StripedThread
<1>12. LocksInv'
  BY ONLY <1>1, <1>3, LocksKept
<1>13. /\ \A x \in DOMAIN owners' : owners'[x] # {} => x[1] = mLocks
       /\ \A u \in MapThreads : u # t => \A j \in Indices : Holds(u, j) => Holds(u, j)'
  BY ONLY <1>1, <1>3, <1>10
<1> QED
  BY ONLY <1>3, <1>7, <1>9, <1>11, <1>12, <1>13, MapInv, structure = "striped",
          structure' = structure, StripedQuiet

LEMMA StripedCopy ==
  ASSUME MapInv, structure = "striped", structure' = structure, NEW t \in MapThreads,
         Map!copy(t)
  PROVE  MapInv'
<1>1. /\ loc \in [MapThreads -> Locals] /\ LocksInv /\ loc[t] \in Locals /\ BucketsInv
      /\ \A x \in DOMAIN owners : owners[x] # {} => x[1] = mLocks
      /\ LocalInv(t) /\ StripedThread(t)
  BY ONLY MapInv, structure = "striped", StripedParts
<1>2. PICK r : r = [Map!At(t, "swap") EXCEPT !.new = Spread(2 * loc[t].prev)]
  OBVIOUS
<1>3. /\ loc[t].pc = "copy" /\ mBuckets' = mBuckets /\ mSize' = mSize
      /\ UNCHANGED OtherLocks /\ mLocks' = mLocks /\ length' = length /\ owners' = owners
      /\ Map!Goto(t, r)
  BY ONLY Map!copy(t), <1>2 DEF Map!copy, OtherLocks, Map!lockVars, Spread
<1>4. /\ r \in Locals /\ r.pc = "swap" /\ r.prev = loc[t].prev /\ r.index = loc[t].index
      /\ r.new = Spread(2 * loc[t].prev)
  BY ONLY <1>1, <1>2, CopyTyped
<1>5. /\ loc' \in [MapThreads -> Locals] /\ loc'[t] = r
      /\ \A u \in MapThreads : u # t => loc'[u] = loc[u]
  BY ONLY <1>1, <1>3, <1>4, Moved
<1>6. LocalInv(t)'
  BY ONLY <1>4, <1>5 DEF LocalInv, Pending
<1>7. \A u \in MapThreads, j \in Indices : Holds(u, j) => Holds(u, j)'
  BY ONLY <1>3 DEF Holds
<1>8. StripedThread(t)'
  <2>1. Indices' = Indices /\ Map!Size' = Map!Size
    BY ONLY <1>3 DEF Indices, Map!Size
  <2>2. /\ loc[t].index = 0 /\ (\A i \in Indices : Holds(t, i))
        /\ 2 * loc[t].prev <= MaxSize /\ loc[t].prev = Map!Size
    BY ONLY <1>1, <1>3 DEF StripedThread
  <2>3. \A i \in Indices' : Holds(t, i)'
    BY ONLY <2>1, <2>2, <1>7
  <2>4. r.new = Spread(2 * r.prev)'
    BY ONLY <1>3, <1>4 DEF Spread
  <2> QED BY ONLY <2>1, <2>2, <2>3, <2>4, <1>4, <1>5 DEF StripedThread
<1>9. LocksInv'
  BY ONLY <1>1, <1>3, LocksKept
<1>10. /\ \A x \in DOMAIN owners' : owners'[x] # {} => x[1] = mLocks
       /\ \A u \in MapThreads : u # t => \A j \in Indices : Holds(u, j) => Holds(u, j)'
  BY ONLY <1>1, <1>3, <1>7
<1> QED
  BY ONLY <1>3, <1>5, <1>6, <1>8, <1>9, <1>10, MapInv, structure = "striped",
          structure' = structure, StripedQuiet

LEMMA StripedSwap ==
  ASSUME MapInv, structure = "striped", structure' = structure, NEW t \in MapThreads,
         Map!swap(t, "unlock")
  PROVE  MapInv'
<1>1. /\ loc \in [MapThreads -> Locals] /\ LocksInv /\ loc[t] \in Locals /\ BucketsInv
      /\ \A x \in DOMAIN owners : owners[x] # {} => x[1] = mLocks
      /\ LocalInv(t) /\ StripedThread(t) /\ StripedInv /\ \A u \in MapThreads : LocalInv(u)
  BY ONLY MapInv, structure = "striped", StripedParts
<1>2. PICK r : r = [Map!At(t, "unlock") EXCEPT !.new = <<>>]
  OBVIOUS
<1>3. /\ loc[t].pc = "swap" /\ mBuckets' = loc[t].new /\ mSize' = mSize
      /\ UNCHANGED OtherLocks /\ mLocks' = mLocks /\ length' = length /\ owners' = owners
      /\ Map!Goto(t, r)
  BY ONLY Map!swap(t, "unlock"), <1>2 DEF Map!swap, OtherLocks, Map!lockVars
<1>4. r \in Locals /\ r.pc = "unlock" /\ r.index = loc[t].index
  <2>1. "unlock" \in Labels
    BY ONLY DEF Labels
  <2> QED BY ONLY <2>1, <1>1, <1>2, SwapTyped
<1>5. /\ loc' \in [MapThreads -> Locals] /\ loc'[t] = r
      /\ \A u \in MapThreads : u # t => loc'[u] = loc[u]
  BY ONLY <1>1, <1>3, <1>4, Moved
<1>6. BucketsInv'
  <2>1. /\ loc[t].new = Spread(2 * loc[t].prev) /\ loc[t].prev = Map!Size
        /\ 2 * loc[t].prev <= MaxSize
    BY ONLY <1>1, <1>3 DEF StripedThread
  <2> QED BY ONLY <2>1, <1>1, <1>3, structure' = structure, SwapBuckets
<1>7. \A u \in MapThreads, j \in Indices : Holds(u, j) => Holds(u, j)'
  BY ONLY <1>3 DEF Holds
<1>8. ASSUME NEW u \in MapThreads, u # t
      PROVE  LocalInv(u)' /\ StripedThread(u)'
  <2>1. LocalInv(u) /\ StripedThread(u) /\ loc'[u] = loc[u]
    BY ONLY <1>1, <1>5, <1>8 DEF StripedInv
  <2>2. loc[u].pc \notin {"index", "access", "compare", "copy", "swap"}
    BY ONLY <1>1, <1>3, <1>8, StripedAlone
  <2>3. \A i \in Indices : Holds(u, i) => Holds(u, i)'
    BY ONLY <1>7
  <2>4. StripedThread(u)'
    BY ONLY <1>1, <1>3, <2>1, <2>2, <2>3, StripedOther
  <2>5. LocalInv(u)'
    BY ONLY <2>1, <2>2 DEF LocalInv
  <2> QED BY ONLY <2>4, <2>5
<1>9. LocalInv(t)'
  BY ONLY <1>4, <1>5 DEF LocalInv, Pending
<1>10. StripedThread(t)'
  <2>1. Indices' = Indices /\ 0 \in Indices
    BY ONLY <1>1, <1>3, InUse, SizesAssumption, SMTT(30) DEF Indices
  <2>2. loc[t].index = 0 /\ \A i \in Indices : Holds(t, i)
    BY ONLY <1>1, <1>3 DEF StripedThread
  <2>3. \A i \in Indices' : Holds(t, i)'
    BY ONLY <2>1, <2>2, <1>7
  <2> QED BY ONLY <2>1, <2>2, <2>3, <1>4, <1>5 DEF StripedThread
<1>11. LocksInv'
  BY ONLY <1>1, <1>3, LocksKept
<1>12. StripedInv'
  BY ONLY <1>1, <1>3, <1>8, <1>10 DEF StripedInv
<1> QED
  BY ONLY <1>5, <1>6, <1>8, <1>9, <1>11, <1>12, structure = "striped", structure' = structure
  DEF MapInv

LEMMA NextStriped ==
  ASSUME MapInv, structure = "striped", structure' = structure, Striped!Next
  PROVE  MapInv'
<1> PICK t \in MapThreads :
      \/ Striped!Call(t, {"find", "addOrUpdate", "remove"})
      \/ Striped!acquire(t) \/ Striped!getBucketIndex(t) \/ Striped!access(t, TRUE)
      \/ Striped!lockAll(t) \/ Striped!compare(t) \/ Striped!copy(t)
      \/ Striped!swap(t, "unlock") \/ Striped!unlockAll(t) \/ Striped!Return(t)
  BY ONLY Striped!Next DEF Striped!Next
<1>1. \/ Map!Call(t, {"find", "addOrUpdate", "remove"}) \/ Map!Return(t)
      \/ Striped!acquire(t) \/ Map!getBucketIndex(t) \/ Map!access(t, TRUE)
      \/ Striped!lockAll(t) \/ Striped!compare(t) \/ Map!copy(t)
      \/ Map!swap(t, "unlock") \/ Striped!unlockAll(t)
  BY ONLY SameOthers, SameAccess, Zenon,
      \/ Striped!Call(t, {"find", "addOrUpdate", "remove"})
      \/ Striped!acquire(t) \/ Striped!getBucketIndex(t) \/ Striped!access(t, TRUE)
      \/ Striped!lockAll(t) \/ Striped!compare(t) \/ Striped!copy(t)
      \/ Striped!swap(t, "unlock") \/ Striped!unlockAll(t) \/ Striped!Return(t)
<1> QED
  BY ONLY <1>1, MapInv, structure = "striped", structure' = structure, StripedOutside,
          StripedAcquire, StripedIndex, StripedAccess, StripedLockAll, StripedCompare,
          StripedCopy, StripedSwap, StripedUnlockAll

-----------------------------------------------------------------------------
(* FixedSizeThreadSafeHashMap.                                             *)

LEMMA FixedParts ==
  ASSUME MapInv, structure = "fixed", NEW t \in MapThreads
  PROVE  /\ loc \in [MapThreads -> Locals] /\ LocksInv /\ loc[t] \in Locals /\ BucketsInv
         /\ \A x \in DOMAIN owners : owners[x] # {} => x[1] = mLocks
         /\ length[mLocks] = Map!Size
         /\ LocalInv(t) /\ FixedThread(t)
         /\ \A u \in MapThreads : LocalInv(u) /\ FixedThread(u)
BY ONLY MapInv, structure = "fixed" DEF MapInv, FixedInv

LEMMA FixedOther ==
  ASSUME LocksInv, NEW u \in MapThreads, LocalInv(u), FixedThread(u), loc'[u] = loc[u],
         BucketsInv, length[mLocks] = Map!Size, mLocks' = mLocks, length' = length,
         \A i \in Indices : u \in owners[<<mLocks, i>>] => u \in owners'[<<mLocks, i>>],
         loc[u].op = "getSnapShot" => \A i \in Indices : Holds(u, i) => Holds(u, i)',
         loc[u].pc = "collect" => mBuckets' = mBuckets
  PROVE  FixedThread(u)'
<1>1. Indices' = Indices
  BY ONLY mLocks' = mLocks, length' = length DEF Indices
<1>2. loc[u].pc = "access" => loc[u].index \in Indices
  <2>1. loc[u].pc = "access" => loc[u].key \in Keys /\ loc[u].index = Hash[loc[u].key] % Map!Size
    BY ONLY LocalInv(u) DEF LocalInv
  <2> QED BY ONLY <2>1, LocksInv, InUse, length[mLocks] = Map!Size
<1>3. loc[u].index \in Indices => \A i \in 0 .. loc[u].index - 1 : i \in Indices
  BY ONLY InUse, LocksInv, SizesAssumption, SMTT(30) DEF Indices
<1>0. PICK l : l = loc[u]
  OBVIOUS
<1>4. loc'[u] = l
  BY ONLY <1>0, loc'[u] = loc[u]
<1>5. /\ l.pc \in {"idle", "acquire", "access", "collect", "done"}
      /\ l.pc = "access" => l.op # "getSnapShot" /\ u \in owners[<<mLocks, l.index>>]
      /\ l.pc = "acquire" => l.index \in Indices
      /\ l.pc = "acquire" /\ l.op = "getSnapShot" => \A i \in 0 .. l.index - 1 : Holds(u, i)
      /\ l.pc = "collect" =>
           /\ l.op = "getSnapShot" /\ l.index \in Indices
           /\ \A i \in Indices : Holds(u, i)
           /\ \A i \in 0 .. l.index - 1 : l.new[i] = mBuckets[i]
  BY ONLY <1>0, FixedThread(u) DEF FixedThread
<1>6. /\ l.pc = "access" => u \in owners'[<<mLocks', l.index>>]
      /\ l.pc = "acquire" => l.index \in Indices'
      /\ l.pc = "acquire" /\ l.op = "getSnapShot" => \A i \in 0 .. l.index - 1 : Holds(u, i)'
      /\ l.pc = "collect" =>
           /\ l.index \in Indices' /\ \A i \in Indices' : Holds(u, i)'
           /\ \A i \in 0 .. l.index - 1 : l.new[i] = mBuckets'[i]
  BY ONLY <1>0, <1>1, <1>2, <1>3, <1>5, mLocks' = mLocks,
          \A i \in Indices : u \in owners[<<mLocks, i>>] => u \in owners'[<<mLocks, i>>],
          loc[u].op = "getSnapShot" => \A i \in Indices : Holds(u, i) => Holds(u, i)',
          loc[u].pc = "collect" => mBuckets' = mBuckets
<1> QED BY ONLY <1>4, <1>5, <1>6 DEF FixedThread

(* A step of t that leaves the buckets alone.                              *)
LEMMA FixedQuiet ==
  ASSUME MapInv, structure = "fixed", structure' = structure, NEW t \in MapThreads,
         loc' \in [MapThreads -> Locals], \A u \in MapThreads : u # t => loc'[u] = loc[u],
         mBuckets' = mBuckets, mSize' = mSize, mLocks' = mLocks, length' = length,
         LocksInv', \A x \in DOMAIN owners' : owners'[x] # {} => x[1] = mLocks,
         \A u \in MapThreads : u # t => \A i \in Indices :
           u \in owners[<<mLocks, i>>] => u \in owners'[<<mLocks, i>>],
         \A u \in MapThreads : u # t /\ loc[u].op = "getSnapShot" =>
           \A i \in Indices : Holds(u, i) => Holds(u, i)',
         LocalInv(t)', FixedThread(t)'
  PROVE  MapInv'
<1>1. BucketsInv' /\ Map!Size' = Map!Size
  BY ONLY MapInv, SameBuckets, mBuckets' = mBuckets, mSize' = mSize, structure' = structure
  DEF MapInv
<1>2. LocksInv /\ BucketsInv /\ length[mLocks] = Map!Size
  BY ONLY MapInv, structure = "fixed" DEF MapInv, FixedInv
<1>3. ASSUME NEW u \in MapThreads, u # t
      PROVE  LocalInv(u)' /\ FixedThread(u)'
  <2>1. LocalInv(u) /\ FixedThread(u) /\ loc'[u] = loc[u]
    BY ONLY <1>3, MapInv, structure = "fixed",
            \A v \in MapThreads : v # t => loc'[v] = loc[v]
    DEF MapInv, FixedInv
  <2>2. LocalInv(u)'
    BY ONLY <2>1, <1>1, SameLocal
  <2>3. \A i \in Indices : u \in owners[<<mLocks, i>>] => u \in owners'[<<mLocks, i>>]
    BY ONLY <1>3, \A v \in MapThreads : v # t => \A i \in Indices :
                    v \in owners[<<mLocks, i>>] => v \in owners'[<<mLocks, i>>]
  <2>4. loc[u].op = "getSnapShot" => \A i \in Indices : Holds(u, i) => Holds(u, i)'
    BY ONLY <1>3, \A v \in MapThreads : v # t /\ loc[v].op = "getSnapShot" =>
                    \A i \in Indices : Holds(v, i) => Holds(v, i)'
  <2>5. FixedThread(u)'
    BY ONLY <2>1, <2>3, <2>4, <1>2, mBuckets' = mBuckets, mLocks' = mLocks,
            length' = length, FixedOther
  <2> QED BY ONLY <2>2, <2>5
<1>4. FixedInv'
  <2>1. length'[mLocks'] = Map!Size'
    BY ONLY <1>1, <1>2, mLocks' = mLocks, length' = length
  <2> QED
    BY ONLY <2>1, <1>3, FixedThread(t)', mLocks' = mLocks,
            \A x \in DOMAIN owners' : owners'[x] # {} => x[1] = mLocks
    DEF FixedInv
<1> QED
  BY ONLY <1>1, <1>3, <1>4, structure = "fixed", structure' = structure, LocksInv',
          LocalInv(t)', loc' \in [MapThreads -> Locals]
  DEF MapInv

LEMMA FixedOutside ==
  ASSUME MapInv, structure = "fixed", structure' = structure, NEW t \in MapThreads,
         \/ Map!Call(t, {"find", "addOrUpdate", "remove", "getSnapShot"})
         \/ Map!Return(t)
  PROVE  MapInv'
<1>1. /\ loc \in [MapThreads -> Locals] /\ LocksInv
      /\ \A x \in DOMAIN owners : owners[x] # {} => x[1] = mLocks
  BY ONLY MapInv, structure = "fixed", FixedParts
<1>2. /\ loc' \in [MapThreads -> Locals]
      /\ loc'[t].pc \in {"acquire", "idle"} /\ (loc'[t].pc = "acquire" => loc'[t].index = 0)
      /\ \A u \in MapThreads : u # t => loc'[u] = loc[u]
      /\ LocalInv(t)'
      /\ mBuckets' = mBuckets /\ mSize' = mSize /\ owners' = owners
      /\ UNCHANGED OtherLocks
  <2>1. CASE Map!Call(t, {"find", "addOrUpdate", "remove", "getSnapShot"})
    <3>1. {"find", "addOrUpdate", "remove", "getSnapShot"}
            \subseteq {"find", "addOrUpdate", "remove", "getSnapShot"}
      OBVIOUS
    <3> QED BY ONLY <2>1, <3>1, <1>1, CallMoves
  <2>2. CASE Map!Return(t)
    <3>1. /\ loc' \in [MapThreads -> Locals] /\ loc'[t].pc = "idle"
          /\ \A u \in MapThreads : u # t => loc'[u] = loc[u]
          /\ mBuckets' = mBuckets /\ mSize' = mSize /\ owners' = owners
          /\ UNCHANGED OtherLocks
      BY ONLY <2>2, <1>1, ReturnMoves
    <3>2. LocalInv(t)'
      BY ONLY <3>1 DEF LocalInv, Pending
    <3> QED BY ONLY <3>1, <3>2
  <2> QED
    BY ONLY <2>1, <2>2, \/ Map!Call(t, {"find", "addOrUpdate", "remove", "getSnapShot"})
                        \/ Map!Return(t)
<1>3. LocksInv'
  BY ONLY <1>1, <1>2, LocksKept
<1>4. mLocks' = mLocks /\ length' = length
  BY ONLY <1>2 DEF OtherLocks
<1>5. FixedThread(t)'
  <2>1. 0 \in Indices'
    BY ONLY <1>1, <1>4, InUse, SizesAssumption, SMTT(30) DEF Indices
  <2>2. 0 .. 0 - 1 = {}
    BY ONLY SMTT(30)
  <2> QED BY ONLY <1>2, <2>1, <2>2 DEF FixedThread
<1>6. \A u \in MapThreads, i \in Indices :
        /\ Holds(u, i) => Holds(u, i)'
        /\ u \in owners[<<mLocks, i>>] => u \in owners'[<<mLocks, i>>]
  BY ONLY <1>2, <1>4 DEF Holds
<1> QED
  BY ONLY <1>1, <1>2, <1>3, <1>4, <1>5, <1>6, MapInv, structure = "fixed",
          structure' = structure, FixedQuiet

LEMMA FixedLock ==
  ASSUME MapInv, structure = "fixed", structure' = structure, NEW t \in MapThreads,
         FixedSize!lock(t)
  PROVE  MapInv'
<1>1. /\ loc \in [MapThreads -> Locals] /\ LocksInv /\ loc[t] \in Locals /\ BucketsInv
      /\ \A x \in DOMAIN owners : owners[x] # {} => x[1] = mLocks
      /\ length[mLocks] = Map!Size
      /\ LocalInv(t) /\ FixedThread(t)
  BY ONLY MapInv, structure = "fixed", FixedParts
<1> PICK i : i = Hash[loc[t].key] % Map!Size
  OBVIOUS
<1> PICK S : S = owners[<<mLocks, i>>] \cup {t}
  OBVIOUS
<1>2. /\ loc[t].pc = "acquire" /\ loc[t].op # "getSnapShot"
      /\ mBuckets' = mBuckets /\ mSize' = mSize
      /\ UNCHANGED OtherLocks /\ mLocks' = mLocks /\ length' = length
      /\ \A u \in owners[<<mLocks, i>>] : {loc[t].op, loc[u].op} = {"find"}
      /\ owners' = [owners EXCEPT ![<<mLocks, i>>] = S]
      /\ Map!Goto(t, [Map!At(t, "access") EXCEPT !.index = i])
  BY ONLY FixedSize!lock(t), SameSize, i = Hash[loc[t].key] % Map!Size,
          S = owners[<<mLocks, i>>] \cup {t}
  DEF FixedSize!lock, FixedSize!Goto, FixedSize!At, Map!Goto, Map!At, OtherLocks
<1>3. loc[t].key \in Keys /\ i \in Indices /\ i \in 0 .. length[mLocks] - 1 /\ i \in Nat
      /\ mLocks \in Ptrs
  <2>1. loc[t].key \in Keys
    BY ONLY <1>1, <1>2 DEF LocalInv, Pending, Locals
  <2>2. i \in Indices /\ mLocks \in Ptrs
    BY ONLY <1>1, <2>1, i = Hash[loc[t].key] % Map!Size, InUse
  <2> QED BY ONLY <2>1, <2>2, SMTT(30) DEF Indices
<1>4. "access" \in Labels
  BY ONLY DEF Labels
<1>5. /\ loc' \in [MapThreads -> Locals]
      /\ loc'[t] = [Map!At(t, "access") EXCEPT !.index = i]
      /\ \A u \in MapThreads : u # t => loc'[u] = loc[u]
  BY ONLY <1>1, <1>2, <1>3, <1>4, Labelled, Moved
<1>6. /\ loc'[t].pc = "access" /\ loc'[t].key = loc[t].key /\ loc'[t].op = loc[t].op
      /\ loc'[t].val = loc[t].val /\ loc'[t].index = i
  BY ONLY <1>1, <1>5, IndexFields DEF SameFields
<1>7. /\ LocksInv' /\ DOMAIN owners' = DOMAIN owners
      /\ \A x \in DOMAIN owners : owners'[x] = IF x = <<mLocks, i>> THEN S ELSE owners[x]
  <2>1. S \in SUBSET MapThreads
    BY ONLY <1>1, <1>3, InUse, S = owners[<<mLocks, i>>] \cup {t}, t \in MapThreads
    DEF LocksInv
  <2> QED BY ONLY <2>1, <1>1, <1>2, <1>3, LockTaken
<1>8. LocalInv(t)'
  <2>1. Map!Size' = Map!Size
    BY ONLY <1>2 DEF Map!Size
  <2> QED
    BY ONLY <2>1, <1>1, <1>2, <1>3, <1>6, i = Hash[loc[t].key] % Map!Size
    DEF LocalInv, Pending
<1>9. \A j \in Indices : owners'[<<mLocks, j>>] = IF j = i THEN S ELSE owners[<<mLocks, j>>]
  BY ONLY <1>1, <1>7, InUse
<1>10. FixedThread(t)'
  BY ONLY <1>2, <1>3, <1>6, <1>9, S = owners[<<mLocks, i>>] \cup {t} DEF FixedThread
<1>11. \A x \in DOMAIN owners' : owners'[x] # {} => x[1] = mLocks
  BY ONLY <1>1, <1>7
<1>12. \A u \in MapThreads, j \in Indices :
         u \in owners[<<mLocks, j>>] => u \in owners'[<<mLocks, j>>]
  BY ONLY <1>9, S = owners[<<mLocks, i>>] \cup {t}
<1>13. ASSUME NEW u \in MapThreads, u # t, loc[u].op = "getSnapShot", NEW j \in Indices, Holds(u, j)
       PROVE  Holds(u, j)'
  <2>1. j # i
    BY ONLY <1>2, <1>13, t \in MapThreads DEF Holds
  <2> QED BY ONLY <2>1, <1>2, <1>9, <1>13 DEF Holds
<1> QED
  BY ONLY <1>2, <1>5, <1>7, <1>8, <1>10, <1>11, <1>12, <1>13, MapInv, structure = "fixed",
          structure' = structure, FixedQuiet

LEMMA FixedAccess ==
  ASSUME MapInv, structure = "fixed", structure' = structure, NEW t \in MapThreads,
         Map!access(t, FALSE)
  PROVE  MapInv'
<1>1. /\ loc \in [MapThreads -> Locals] /\ LocksInv /\ loc[t] \in Locals /\ BucketsInv
      /\ \A x \in DOMAIN owners : owners[x] # {} => x[1] = mLocks
      /\ length[mLocks] = Map!Size /\ LocalInv(t) /\ FixedThread(t)
      /\ \A u \in MapThreads : LocalInv(u) /\ FixedThread(u)
  BY ONLY MapInv, structure = "fixed", FixedParts
<1>2. Growing = FALSE
  BY ONLY structure = "fixed" DEF Growing
<1>3. BucketsInv' /\ Map!Size' = Map!Size
  <2>1. Map!access(t, Growing)
    BY ONLY <1>2, Map!access(t, FALSE)
  <2> QED BY ONLY <1>1, <2>1, structure' = structure, AccessBuckets
<1>4. /\ loc[t].pc = "access" /\ Map!Unlocked(t)
      /\ loc' \in [MapThreads -> Locals] /\ loc'[t].pc = "done"
      /\ \A u \in MapThreads : u # t => loc'[u] = loc[u]
      /\ UNCHANGED <<mLocks, length, mRehash, slot, status, holders>>
  BY ONLY <1>1, Map!access(t, FALSE), AccessMoves
<1>5. UNCHANGED OtherLocks /\ mLocks' = mLocks /\ length' = length
  BY ONLY <1>4 DEF OtherLocks
<1>6. /\ LocksInv' /\ DOMAIN owners' = DOMAIN owners
      /\ \A x \in DOMAIN owners : owners'[x] = owners[x] \ {t}
  BY ONLY <1>1, <1>4, <1>5, LocksGiven
<1>7. \A i \in Indices : owners'[<<mLocks, i>>] = owners[<<mLocks, i>>] \ {t}
  BY ONLY <1>1, <1>6, InUse
<1>8. loc[t].index \in Indices /\ t \in owners[<<mLocks, loc[t].index>>]
  <2>1. loc[t].key \in Keys /\ loc[t].index = Hash[loc[t].key] % Map!Size
    BY ONLY <1>1, <1>4 DEF LocalInv
  <2>2. loc[t].index \in Indices
    BY ONLY <1>1, <2>1, InUse
  <2> QED BY ONLY <1>1, <1>4, <2>2 DEF FixedThread
<1>9. ASSUME NEW u \in MapThreads, u # t
      PROVE  LocalInv(u)' /\ FixedThread(u)'
  <2>1. LocalInv(u) /\ FixedThread(u) /\ loc'[u] = loc[u]
    BY ONLY <1>1, <1>4, <1>9
  <2>2. loc[u].pc # "collect"
    BY ONLY <1>8, <1>9, <2>1 DEF FixedThread, Holds
  <2>3. \A i \in Indices : Holds(u, i) => Holds(u, i)'
    BY ONLY <1>5, <1>7, <1>9 DEF Holds
  <2>4. \A i \in Indices : u \in owners[<<mLocks, i>>] => u \in owners'[<<mLocks, i>>]
    BY ONLY <1>7, <1>9
  <2>5. FixedThread(u)'
    BY ONLY <1>1, <1>5, <2>1, <2>2, <2>3, <2>4, FixedOther
  <2> QED BY ONLY <1>3, <2>1, <2>5, SameLocal
<1>10. LocalInv(t)'
  BY ONLY <1>4 DEF LocalInv, Pending
<1>11. FixedThread(t)'
  BY ONLY <1>4 DEF FixedThread
<1>12. \A x \in DOMAIN owners' : owners'[x] # {} => x[1] = mLocks'
  BY ONLY <1>1, <1>5, <1>6
<1>13. FixedInv'
  <2>1. length'[mLocks'] = Map!Size'
    BY ONLY <1>1, <1>3, <1>5
  <2> QED BY ONLY <2>1, <1>9, <1>11, <1>12 DEF FixedInv
<1> QED
  BY ONLY <1>3, <1>4, <1>6, <1>9, <1>10, <1>13, structure = "fixed", structure' = structure
  DEF MapInv

LEMMA FixedLockAll ==
  ASSUME MapInv, structure = "fixed", structure' = structure, NEW t \in MapThreads,
         FixedSize!lockAll(t)
  PROVE  MapInv'
<1>1. /\ loc \in [MapThreads -> Locals] /\ LocksInv /\ loc[t] \in Locals
      /\ \A x \in DOMAIN owners : owners[x] # {} => x[1] = mLocks
      /\ length[mLocks] = Map!Size /\ LocalInv(t) /\ FixedThread(t)
  BY ONLY MapInv, structure = "fixed", FixedParts
<1> PICK i : i = loc[t].index
  OBVIOUS
<1> DEFINE r == IF i + 1 < length[mLocks] THEN [loc[t] EXCEPT !.index = i + 1]
                ELSE [Map!At(t, "collect") EXCEPT !.index = 0]
<1>2. /\ loc[t].pc = "acquire" /\ loc[t].op = "getSnapShot"
      /\ mBuckets' = mBuckets /\ mSize' = mSize
      /\ UNCHANGED OtherLocks /\ mLocks' = mLocks /\ length' = length
      /\ owners[<<mLocks, i>>] = {}
      /\ owners' = [owners EXCEPT ![<<mLocks, i>>] = {t}]
      /\ Map!Goto(t, r)
  BY ONLY FixedSize!lockAll(t), i = loc[t].index, SameSize, <1>1
  DEF FixedSize!lockAll, FixedSize!Locked, FixedSize!Goto, FixedSize!At, Map!Goto, Map!At,
      OtherLocks
<1> HIDE DEF r
<1>3. /\ i \in Indices /\ i \in 0 .. length[mLocks] - 1 /\ i \in Nat /\ i + 1 \in Nat
      /\ \A j \in 0 .. i - 1 : Holds(t, j)
      /\ mLocks \in Ptrs
      /\ 0 \in Indices /\ i + 1 < length[mLocks] => i + 1 \in Indices
      /\ \A j \in 0 .. (i + 1) - 1 : j = i \/ j \in 0 .. i - 1
      /\ ~ i + 1 < length[mLocks] => \A j \in Indices : j = i \/ j \in 0 .. i - 1
      /\ \A j \in 0 .. (i + 1) - 1 : j \in Indices
  <2>1. i \in Indices /\ \A j \in 0 .. i - 1 : Holds(t, j)
    BY ONLY <1>1, <1>2, i = loc[t].index DEF FixedThread
  <2>2. mLocks \in Ptrs /\ length[mLocks] \in 1 .. MaxSize
    BY ONLY <1>1, InUse
  <2> QED BY ONLY <2>1, <2>2, SizesAssumption, SMTT(30) DEF Indices
<1>4. /\ r \in Locals /\ SameFields(r, loc[t])
      /\ IF i + 1 < length[mLocks] THEN r.pc = "acquire" /\ r.index = i + 1
         ELSE r.pc = "collect" /\ r.index = 0
  <2>1. "collect" \in Labels /\ 0 \in Nat
    BY ONLY SMTT(30) DEF Labels
  <2>2. CASE i + 1 < length[mLocks]
    <3>1. r = [loc[t] EXCEPT !.index = i + 1]
      BY ONLY <2>2 DEF r
    <3>2. r \in Locals
      BY ONLY <3>1, <1>1, <1>3, <2>1, Labelled
    <3>3. SameFields(r, loc[t]) /\ r.index = i + 1 /\ r.pc = "acquire"
      BY ONLY <3>1, <1>1, <1>2, NextFields
    <3> QED BY ONLY <3>2, <3>3, <2>2
  <2>3. CASE ~ i + 1 < length[mLocks]
    <3>1. r = [Map!At(t, "collect") EXCEPT !.index = 0]
      BY ONLY <2>3 DEF r
    <3>2. r \in Locals
      BY ONLY <3>1, <1>1, <2>1, Labelled
    <3>3. SameFields(r, loc[t]) /\ r.index = 0 /\ r.pc = "collect"
      <4>1. loc[t] \in Locals
        BY ONLY <1>1
      <4>2. /\ SameFields([Map!At(t, "collect") EXCEPT !.index = 0], loc[t])
            /\ [Map!At(t, "collect") EXCEPT !.index = 0].index = 0
            /\ [Map!At(t, "collect") EXCEPT !.index = 0].pc = "collect"
        BY ONLY <4>1, ResetFields
      <4> QED BY ONLY <3>1, <4>2
    <3> QED BY ONLY <3>2, <3>3, <2>3
  <2> QED BY ONLY <2>2, <2>3
<1>5. /\ loc' \in [MapThreads -> Locals] /\ loc'[t] = r
      /\ \A u \in MapThreads : u # t => loc'[u] = loc[u]
  BY ONLY <1>1, <1>2, <1>4, Moved
<1>6. /\ LocksInv' /\ DOMAIN owners' = DOMAIN owners
      /\ \A x \in DOMAIN owners : owners'[x] = IF x = <<mLocks, i>> THEN {t} ELSE owners[x]
  <2>1. {t} \in SUBSET MapThreads
    OBVIOUS
  <2> QED BY ONLY <2>1, <1>1, <1>2, <1>3, LockTaken
<1>7. LocalInv(t)'
  BY ONLY <1>1, <1>2, <1>4, <1>5 DEF LocalInv, Pending, SameFields
<1>8. \A j \in Indices : owners'[<<mLocks, j>>] = IF j = i THEN {t} ELSE owners[<<mLocks, j>>]
  BY ONLY <1>1, <1>6, InUse
<1>9. \A j \in Indices : j = i \/ Holds(t, j) => Holds(t, j)'
  BY ONLY <1>2, <1>8 DEF Holds
<1>10. FixedThread(t)'
  <2>1. Indices' = Indices
    BY ONLY <1>2 DEF Indices
  <2>2. CASE i + 1 < length[mLocks]
    <3>1. i + 1 \in Indices /\ \A j \in 0 .. (i + 1) - 1 : Holds(t, j)'
      BY ONLY <2>2, <1>3, <1>9
    <3> QED BY ONLY <2>1, <2>2, <3>1, <1>4, <1>5 DEF FixedThread, SameFields
  <2>3. CASE ~ i + 1 < length[mLocks]
    <3>1. 0 \in Indices /\ \A j \in Indices : Holds(t, j)'
      BY ONLY <2>3, <1>1, <1>3, <1>9, InUse, SizesAssumption, SMTT(30) DEF Indices
    <3>2. 0 .. 0 - 1 = {}
      BY ONLY SMTT(30)
    <3> QED BY ONLY <2>1, <2>3, <3>1, <3>2, <1>2, <1>4, <1>5 DEF FixedThread, SameFields
  <2> QED BY ONLY <2>2, <2>3
<1>11. \A x \in DOMAIN owners' : owners'[x] # {} => x[1] = mLocks
  BY ONLY <1>1, <1>6
<1>12. \A u \in MapThreads, j \in Indices :
         /\ u \in owners[<<mLocks, j>>] => u \in owners'[<<mLocks, j>>]
         /\ Holds(u, j) => Holds(u, j)'
  BY ONLY <1>2, <1>8 DEF Holds
<1> QED
  BY ONLY <1>2, <1>5, <1>6, <1>7, <1>10, <1>11, <1>12, MapInv, structure = "fixed",
          structure' = structure, FixedQuiet

(* A snapshot is a map.                                                    *)
LEMMA SnapshotTyped ==
  ASSUME BucketsInv, NEW b, DOMAIN b \subseteq DOMAIN mBuckets,
         \A i \in DOMAIN b : b[i] = mBuckets[i]
  PROVE  Map!ContentsOf(b) \in Snapshot
<1> DEFINE Of(k) == {e[2] : e \in {d \in UNION {b[i] : i \in DOMAIN b} : d[1] = k}}
           In(k) == IF Of(k) = {} THEN NoValue ELSE CHOOSE v \in Of(k) : TRUE
<1>0. Map!ContentsOf(b) = [k \in Keys |-> In(k)]
  BY ONLY DEF Map!ContentsOf
<1>1. ASSUME NEW k \in Keys PROVE Of(k) \subseteq Values
  <2>1. \A i \in DOMAIN b : b[i] \subseteq Keys \X Values
    BY ONLY BucketsInv, DOMAIN b \subseteq DOMAIN mBuckets,
            \A i \in DOMAIN b : b[i] = mBuckets[i]
    DEF BucketsInv
  <2>2. \A d \in UNION {b[i] : i \in DOMAIN b} : d[2] \in Values
    BY ONLY <2>1, SMTT(30)
  <2> QED BY ONLY <2>2
<1> HIDE DEF Of
<1>2. ASSUME NEW k \in Keys PROVE In(k) \in Values \cup {NoValue}
  <2>1. Of(k) # {} => (CHOOSE v \in Of(k) : TRUE) \in Of(k)
    OBVIOUS
  <2> QED BY ONLY <1>1, <2>1
<1> HIDE DEF In
<1> QED BY ONLY <1>0, <1>2 DEF Snapshot

LEMMA FixedCollect ==
  ASSUME MapInv, structure = "fixed", structure' = structure, NEW t \in MapThreads,
         FixedSize!collect(t)
  PROVE  MapInv'
<1>1. /\ loc \in [MapThreads -> Locals] /\ LocksInv /\ loc[t] \in Locals /\ BucketsInv
      /\ \A x \in DOMAIN owners : owners[x] # {} => x[1] = mLocks
      /\ length[mLocks] = Map!Size /\ LocalInv(t) /\ FixedThread(t)
  BY ONLY MapInv, structure = "fixed", FixedParts
<1> PICK i : i = loc[t].index
  OBVIOUS
<1> PICK ans : ans = [j \in 0 .. i |-> mBuckets[j]]
  OBVIOUS
<1>2. /\ loc[t].pc = "collect" /\ loc[t].op = "getSnapShot" /\ i \in Indices
      /\ \A j \in Indices : Holds(t, j)
      /\ \A j \in 0 .. i - 1 : loc[t].new[j] = mBuckets[j]
  BY ONLY <1>1, FixedSize!collect(t), i = loc[t].index DEF FixedThread, FixedSize!collect
<1>3. /\ i \in Nat /\ i + 1 \in Nat /\ 0 .. i \in SUBSET Nat
      /\ \A j \in 0 .. i : j = i \/ j \in 0 .. i - 1
      /\ 0 .. i \subseteq DOMAIN mBuckets
      /\ i + 1 < Map!Size => i + 1 \in Indices
      /\ 0 .. (i + 1) - 1 = 0 .. i
  <2>1. Indices = 0 .. Map!Size - 1 /\ Map!Size \in 1 .. MaxSize
        /\ DOMAIN mBuckets = 0 .. Map!Size - 1
    BY ONLY <1>1 DEF Indices, BucketsInv
  <2> QED BY ONLY <1>2, <2>1, SizesAssumption, SMTT(30)
<1>4. ans = [j \in 0 .. i |-> IF j = i THEN mBuckets[j] ELSE loc[t].new[j]]
  BY ONLY <1>2, <1>3, ans = [j \in 0 .. i |-> mBuckets[j]]
<1>5. /\ mBuckets' = mBuckets /\ mSize' = mSize
      /\ UNCHANGED OtherLocks /\ mLocks' = mLocks /\ length' = length
      /\ IF i + 1 < Map!Size
         THEN Map!Goto(t, [loc[t] EXCEPT !.index = i + 1, !.new = ans]) /\ owners' = owners
         ELSE Map!Goto(t, Map!Done(t, Map!ContentsOf(ans))) /\ Map!Unlocked(t)
  <2>1. FixedSize!ContentsOf(ans) = Map!ContentsOf(ans)
    BY ONLY DEF FixedSize!ContentsOf, Map!ContentsOf
  <2> QED
    BY ONLY FixedSize!collect(t), i = loc[t].index, <1>4, <2>1, SameSize
    DEF FixedSize!collect, FixedSize!Goto, Map!Goto, FixedSize!Done, Map!Done, FixedSize!Away,
        Map!Away, FixedSize!Unlocked, Map!Unlocked, OtherLocks
<1>6. CASE i + 1 < Map!Size
  <2> DEFINE r == [loc[t] EXCEPT !.index = i + 1, !.new = ans]
  <2>1. r = [loc[t] EXCEPT !.index = i + 1, !.new = ans]
    OBVIOUS
  <2> HIDE DEF r
  <2>2. ans \in Table
    <3>1. \A j \in 0 .. i : mBuckets[j] \in SUBSET (Keys \X Values)
      BY ONLY <1>1, <1>3 DEF BucketsInv
    <3>2. ans \in [0 .. i -> SUBSET (Keys \X Values)]
      BY ONLY <3>1, ans = [j \in 0 .. i |-> mBuckets[j]]
    <3> QED BY ONLY <3>2, <1>3, TableHas
  <2>3. r \in Locals
    BY ONLY <2>1, <2>2, <1>1, <1>3, Zenon DEF Locals
  <2>4. /\ r.pc = "collect" /\ r.op = "getSnapShot" /\ r.index = i + 1 /\ r.new = ans
        /\ r.key = loc[t].key /\ r.val = loc[t].val
    <3>1. DOMAIN loc[t] = {"pc", "op", "key", "val", "locks", "index", "prev", "new"}
      BY ONLY <1>1 DEF Locals
    <3> QED BY ONLY <3>1, <2>1, <1>2, SMTT(30)
  <2>5. /\ loc' \in [MapThreads -> Locals] /\ loc'[t] = r
        /\ \A u \in MapThreads : u # t => loc'[u] = loc[u]
    BY ONLY <1>1, <1>5, <1>6, <2>1, <2>3, Moved
  <2>6. LocksInv' /\ owners' = owners
    BY ONLY <1>1, <1>5, <1>6, LocksKept
  <2>7. \A u \in MapThreads, j \in Indices : Holds(u, j) => Holds(u, j)'
    BY ONLY <1>5, <2>6 DEF Holds
  <2>8. LocalInv(t)'
    BY ONLY <1>1, <1>2, <2>4, <2>5 DEF LocalInv, Pending
  <2>9. FixedThread(t)'
    <3>1. Indices' = Indices
      BY ONLY <1>5 DEF Indices
    <3>2. \A j \in 0 .. (i + 1) - 1 : ans[j] = mBuckets'[j]
      BY ONLY <1>3, <1>5, ans = [j \in 0 .. i |-> mBuckets[j]]
    <3>3. i + 1 \in Indices' /\ \A j \in Indices' : Holds(t, j)'
      BY ONLY <1>2, <1>3, <1>6, <2>7, <3>1
    <3> QED BY ONLY <2>4, <2>5, <3>2, <3>3 DEF FixedThread
  <2>10. \A x \in DOMAIN owners' : owners'[x] # {} => x[1] = mLocks
    BY ONLY <1>1, <2>6
  <2> QED
    BY ONLY <1>5, <2>5, <2>6, <2>7, <2>8, <2>9, <2>10, MapInv, structure = "fixed",
            structure' = structure, FixedQuiet
<1>7. CASE ~ i + 1 < Map!Size
  <2>1. /\ Map!Done(t, Map!ContentsOf(ans)) \in Locals
        /\ Map!Done(t, Map!ContentsOf(ans)).pc = "done"
    <3>1. Map!ContentsOf(ans) \in Snapshot
      <4>1. DOMAIN ans \subseteq DOMAIN mBuckets /\ \A j \in DOMAIN ans : ans[j] = mBuckets[j]
        BY ONLY <1>3, ans = [j \in 0 .. i |-> mBuckets[j]]
      <4> QED BY ONLY <1>1, <4>1, SnapshotTyped
    <3> QED BY ONLY <3>1, <1>1, DoneTyped
  <2>2. /\ loc' \in [MapThreads -> Locals] /\ loc'[t].pc = "done"
        /\ \A u \in MapThreads : u # t => loc'[u] = loc[u]
    BY ONLY <1>1, <1>5, <1>7, <2>1, Moved
  <2>3. /\ LocksInv' /\ DOMAIN owners' = DOMAIN owners
        /\ \A x \in DOMAIN owners : owners'[x] = owners[x] \ {t}
    BY ONLY <1>1, <1>5, <1>7, LocksGiven
  <2>4. \A j \in Indices : owners'[<<mLocks, j>>] = owners[<<mLocks, j>>] \ {t}
    BY ONLY <1>1, <2>3, InUse
  <2>5. \A u \in MapThreads : u # t => \A j \in Indices :
          /\ u \in owners[<<mLocks, j>>] => u \in owners'[<<mLocks, j>>]
          /\ Holds(u, j) => Holds(u, j)'
    BY ONLY <1>5, <2>4 DEF Holds
  <2>6. LocalInv(t)'
    BY ONLY <2>2 DEF LocalInv, Pending
  <2>7. FixedThread(t)'
    BY ONLY <2>2 DEF FixedThread
  <2>8. \A x \in DOMAIN owners' : owners'[x] # {} => x[1] = mLocks
    BY ONLY <1>1, <2>3
  <2> QED
    BY ONLY <1>5, <2>2, <2>3, <2>5, <2>6, <2>7, <2>8, MapInv, structure = "fixed",
            structure' = structure, FixedQuiet
<1> QED BY ONLY <1>6, <1>7

LEMMA NextFixed ==
  ASSUME MapInv, structure = "fixed", structure' = structure, FixedSize!Next
  PROVE  MapInv'
<1> PICK t \in MapThreads :
      \/ FixedSize!Call(t, {"find", "addOrUpdate", "remove", "getSnapShot"})
      \/ FixedSize!lock(t) \/ FixedSize!access(t, FALSE) \/ FixedSize!lockAll(t)
      \/ FixedSize!collect(t) \/ FixedSize!Return(t)
  BY ONLY FixedSize!Next DEF FixedSize!Next
<1>1. \/ Map!Call(t, {"find", "addOrUpdate", "remove", "getSnapShot"}) \/ Map!Return(t)
      \/ FixedSize!lock(t) \/ Map!access(t, FALSE) \/ FixedSize!lockAll(t)
      \/ FixedSize!collect(t)
  BY ONLY SameOthers, SameAccess, Zenon,
      \/ FixedSize!Call(t, {"find", "addOrUpdate", "remove", "getSnapShot"})
      \/ FixedSize!lock(t) \/ FixedSize!access(t, FALSE) \/ FixedSize!lockAll(t)
      \/ FixedSize!collect(t) \/ FixedSize!Return(t)
<1> QED
  BY ONLY <1>1, MapInv, structure = "fixed", structure' = structure, FixedOutside,
          FixedLock, FixedAccess, FixedLockAll, FixedCollect

-----------------------------------------------------------------------------
(* RefinableThreadSafeHashmap.                                             *)

LEMMA RefinableParts ==
  ASSUME MapInv, structure = "refinable", NEW t \in MapThreads
  PROVE  /\ loc \in [MapThreads -> Locals] /\ LocksInv /\ loc[t] \in Locals /\ BucketsInv
         /\ LocalInv(t) /\ RefinableThread(t) /\ OwnersInside
         /\ \A u \in MapThreads : LocalInv(u) /\ RefinableThread(u)
         /\ \A u \in MapThreads : Apart(t, u) /\ Apart(u, t)
         /\ \A u, v \in MapThreads : Apart(u, v)
BY ONLY MapInv, structure = "refinable" DEF MapInv, RefinableInv

(* What a step of another thread leaves to u.                              *)
Undisturbed(u) ==
  /\ loc'[u] = loc[u]
  /\ loc[u].pc \in {"lock", "recheckFlag", "recheckLocks"} => Protected(u)'
  /\ loc[u].pc \in Inside =>
       /\ length'[loc[u].locks] = length[loc[u].locks]
       /\ owners'[<<loc[u].locks, MyMutex(u)>>] = {u}
  /\ loc[u].pc \in {"index", "access", "drain", "copy", "swap", "publish"} => mLocks' = mLocks
  /\ loc[u].pc = "drain" => length'[mLocks] = length[mLocks]
  /\ loc[u].pc \in Rehashing => mRehash'
  /\ loc[u].pc \in {"open", "retire"} =>
       loc[u].locks # mLocks' /\ status'[loc[u].locks] = "live"
  /\ loc[u].pc \in {"drain", "copy", "swap", "publish"} => Map!Size' = Map!Size
  /\ loc[u].pc = "swap" => mBuckets' = mBuckets

LEMMA RefinableOther ==
  ASSUME NEW u \in MapThreads, RefinableThread(u), Undisturbed(u)
  PROVE  RefinableThread(u)'
<1>0. PICK l : l = loc[u]
  OBVIOUS
<1>1. loc'[u] = l
  BY ONLY <1>0, Undisturbed(u) DEF Undisturbed
<1>2. l.pc \in Inside => MyMutex(u)' = MyMutex(u)
  BY ONLY <1>0, <1>1, Undisturbed(u) DEF Undisturbed, MyMutex
<1>3. l.pc = "drain" => Indices' = Indices
  BY ONLY <1>0, Undisturbed(u) DEF Undisturbed, Indices
<1>4. l.pc = "swap" => Spread(2 * l.prev)' = Spread(2 * l.prev)
  BY ONLY <1>0, Undisturbed(u) DEF Undisturbed, Spread
<1>5. /\ l.pc \in {"lock", "recheckFlag", "recheckLocks"} => Protected(u)'
      /\ l.pc \in Inside => owners'[<<l.locks, MyMutex(u)>>] = {u}
      /\ l.pc \in {"index", "access", "drain", "copy", "swap", "publish"} => mLocks' = mLocks
      /\ l.pc \in Rehashing => mRehash'
      /\ l.pc \in {"open", "retire"} => l.locks # mLocks' /\ status'[l.locks] = "live"
      /\ l.pc \in {"drain", "copy", "swap", "publish"} => Map!Size' = Map!Size
  BY ONLY <1>0, Undisturbed(u) DEF Undisturbed
<1>6. /\ l.pc \in {"idle", "acquire", "spin", "lock", "rehash", "retire", "done"}
                    \cup Inside \cup Rehashing
      /\ l.pc \in {"acquire", "spin", "lock"} \cup Inside => l.op # "getSnapShot"
      /\ l.pc \in {"index", "access"} => l.locks = mLocks
      /\ l.pc \in {"drain", "copy", "swap", "publish"} => l.locks = mLocks
      /\ l.pc \in {"rehash", "compare"} => l.index = 0
      /\ l.pc = "drain" => l.index \in Indices
      /\ l.pc \in {"open", "retire"} => l.locks \in Ptrs
      /\ l.pc \in {"rehash", "compare", "drain", "copy", "swap", "publish"} =>
           2 * l.prev <= MaxSize
      /\ l.pc \in {"drain", "copy", "swap"} => l.prev = Map!Size
      /\ l.pc = "publish" => 2 * l.prev = Map!Size
      /\ l.pc = "swap" => l.new = Spread(2 * l.prev)
  BY ONLY <1>0, RefinableThread(u), Zenon DEF RefinableThread
<1>7. /\ l.pc \in Inside => owners'[<<l.locks, MyMutex(u)'>>] = {u}
      /\ l.pc \in {"index", "access"} => l.locks = mLocks'
      /\ l.pc \in {"drain", "copy", "swap", "publish"} => l.locks = mLocks'
      /\ l.pc = "drain" => l.index \in Indices'
      /\ l.pc \in {"open", "retire"} => l.locks \in Ptrs \ {mLocks'}
      /\ l.pc \in {"drain", "copy", "swap"} => l.prev = Map!Size'
      /\ l.pc = "publish" => 2 * l.prev = Map!Size'
      /\ l.pc = "swap" => l.new = Spread(2 * l.prev)'
  BY ONLY <1>2, <1>3, <1>4, <1>5, <1>6
<1> QED BY ONLY <1>1, <1>5, <1>6, <1>7 DEF RefinableThread

(* A thread that neither rehashes nor works on the buckets.                *)
LEMMA ApartOutside ==
  ASSUME NEW t, NEW u, loc'[t].pc \notin Rehashing \cup Checked \cup {"retire"}
  PROVE  Apart(t, u)' /\ Apart(u, t)'
BY ONLY loc'[t].pc \notin Rehashing \cup Checked \cup {"retire"}
DEF Apart, Rehashing, Checked

(* Two threads that do nothing, and the array in use is the same.          *)
LEMMA ApartKept ==
  ASSUME NEW u, NEW v, Apart(u, v), loc'[u] = loc[u], loc'[v] = loc[v],
         loc[u].pc \in Checked /\ loc[u].locks = mLocks' =>
           mLocks' = mLocks /\ length'[loc[u].locks] = length[loc[u].locks]
  PROVE  Apart(u, v)'
<1>1. loc[u].pc \in Checked /\ loc[u].locks = mLocks' =>
        mLocks' = mLocks /\ MyMutex(u)' = MyMutex(u)
  BY ONLY loc'[u] = loc[u],
         loc[u].pc \in Checked /\ loc[u].locks = mLocks' =>
           mLocks' = mLocks /\ length'[loc[u].locks] = length[loc[u].locks]
  DEF MyMutex
<1> QED BY ONLY <1>1, Apart(u, v), loc'[u] = loc[u], loc'[v] = loc[v] DEF Apart

(* A step of t in the array in use.                                        *)
LEMMA RefinableStep ==
  ASSUME MapInv, structure = "refinable", structure' = structure, NEW t \in MapThreads,
         loc' \in [MapThreads -> Locals],
         \A u \in MapThreads : u # t => Undisturbed(u) /\ LocalInv(u)',
         LocksInv', BucketsInv', OwnersInside', LocalInv(t)', RefinableThread(t)',
         \A u \in MapThreads : u # t => Apart(t, u)' /\ Apart(u, t)',
         \A u \in MapThreads : u # t /\ loc[u].pc \in Checked /\ loc[u].locks = mLocks' =>
           mLocks' = mLocks /\ length'[loc[u].locks] = length[loc[u].locks]
  PROVE  MapInv'
<1>1. ASSUME NEW u \in MapThreads PROVE RefinableThread(u)'
  <2>1. CASE u = t
    BY ONLY <2>1, RefinableThread(t)'
  <2>2. CASE u # t
    BY ONLY <2>2, RefinableParts, MapInv, structure = "refinable", RefinableOther,
            \A v \in MapThreads : v # t => Undisturbed(v) /\ LocalInv(v)'
  <2> QED BY ONLY <2>1, <2>2
<1>2. ASSUME NEW u \in MapThreads PROVE LocalInv(u)'
  <2>1. CASE u = t
    BY ONLY <2>1, LocalInv(t)'
  <2>2. CASE u # t
    BY ONLY <2>2, \A v \in MapThreads : v # t => Undisturbed(v) /\ LocalInv(v)'
  <2> QED BY ONLY <2>1, <2>2
<1>3. Apart(t, t)'
  BY ONLY DEF Apart, Checked
<1>4. ASSUME NEW u \in MapThreads, NEW v \in MapThreads PROVE Apart(u, v)'
  <2>1. CASE u = t \/ v = t
    BY ONLY <1>3, <2>1, \A w \in MapThreads : w # t => Apart(t, w)' /\ Apart(w, t)'
  <2>2. CASE u # t /\ v # t
    <3>1. Apart(u, v)
      BY ONLY RefinableParts, MapInv, structure = "refinable"
    <3>2. loc'[u] = loc[u] /\ loc'[v] = loc[v]
      BY ONLY <2>2, \A w \in MapThreads : w # t => Undisturbed(w) /\ LocalInv(w)'
      DEF Undisturbed
    <3>3. loc[u].pc \in Checked /\ loc[u].locks = mLocks' =>
            mLocks' = mLocks /\ length'[loc[u].locks] = length[loc[u].locks]
      BY ONLY <2>2,
         \A w \in MapThreads : w # t /\ loc[w].pc \in Checked /\ loc[w].locks = mLocks' =>
           mLocks' = mLocks /\ length'[loc[w].locks] = length[loc[w].locks]
    <3> QED BY ONLY <3>1, <3>2, <3>3, ApartKept
  <2> QED BY ONLY <2>1, <2>2
<1>5. RefinableInv'
  BY ONLY <1>1, <1>4, OwnersInside' DEF RefinableInv
<1> QED
  BY ONLY <1>2, <1>5, structure = "refinable", structure' = structure, LocksInv',
          BucketsInv', loc' \in [MapThreads -> Locals]
  DEF MapInv

(* The array that a thread uses is not deleted, nor is it too short.       *)
LEMMA MutexInRange ==
  ASSUME MapInv, structure = "refinable", NEW u \in MapThreads,
         loc[u].pc \in {"lock"} \cup Inside
  PROVE  /\ loc[u].locks \in Ptrs /\ status[loc[u].locks] # "free"
         /\ length[loc[u].locks] \in 1 .. MaxSize
         /\ MyMutex(u) \in 0 .. length[loc[u].locks] - 1 /\ MyMutex(u) \in Nat
         /\ <<loc[u].locks, MyMutex(u)>> \in DOMAIN owners
         /\ loc[u].key \in Keys
<1>1. RefinableThread(u) /\ LocksInv /\ LocalInv(u) /\ loc[u] \in Locals
  BY ONLY MapInv, structure = "refinable", RefinableParts
<1>2. loc[u].locks \in Ptrs /\ status[loc[u].locks] # "free"
  <2>1. CASE loc[u].pc \in {"lock", "recheckFlag", "recheckLocks"}
    BY ONLY <1>1, <2>1 DEF RefinableThread, Protected
  <2>2. CASE loc[u].pc \in {"index", "access"}
    BY ONLY <1>1, <2>2 DEF RefinableThread, LocksInv
  <2> QED BY ONLY <2>1, <2>2, loc[u].pc \in {"lock"} \cup Inside DEF Inside
<1>3. loc[u].key \in Keys
  BY ONLY <1>1, loc[u].pc \in {"lock"} \cup Inside
  DEF LocalInv, RefinableThread, Pending, Inside, Locals
<1>4. length[loc[u].locks] \in 1 .. MaxSize
  BY ONLY <1>1, <1>2, SizesAssumption, SMTT(30) DEF LocksInv
<1>5. length[loc[u].locks] \in Nat \ {0} /\ Hash[loc[u].key] \in Nat
  BY ONLY <1>3, <1>4, SizesAssumption, KeysAssumption, SMTT(30)
<1>6. MyMutex(u) \in 0 .. length[loc[u].locks] - 1
  BY ONLY <1>5, ModRange DEF MyMutex
<1>7. MyMutex(u) \in 0 .. MaxSize - 1 /\ MyMutex(u) \in Nat
  BY ONLY <1>4, <1>6, SizesAssumption, SMTT(30)
<1>8. <<loc[u].locks, MyMutex(u)>> \in DOMAIN owners
  BY ONLY <1>1, <1>2, <1>7 DEF LocksInv
<1> QED BY ONLY <1>2, <1>3, <1>4, <1>6, <1>7, <1>8

(* The owners after a step that gives none of the mutexes to another.      *)
LEMMA OwnersKept ==
  ASSUME OwnersInside, LocksInv, LocksInv', NEW t \in MapThreads,
         \A x \in DOMAIN owners : \A u \in owners'[x] : u # t => u \in owners[x],
         \A x \in DOMAIN owners : t \in owners'[x] =>
           loc'[t].pc \in Inside /\ x = <<loc'[t].locks, MyMutex(t)'>>,
         \A u \in MapThreads : u # t => Undisturbed(u)
  PROVE  OwnersInside'
<1>1. DOMAIN owners' = DOMAIN owners /\ \A x \in DOMAIN owners : owners'[x] \subseteq MapThreads
  BY ONLY LocksInv, LocksInv' DEF LocksInv
<1>2. ASSUME NEW x \in DOMAIN owners, NEW u \in owners'[x]
      PROVE  loc'[u].pc \in Inside /\ x = <<loc'[u].locks, MyMutex(u)'>>
  <2>1. CASE u = t
    BY ONLY <1>2, <2>1, \A y \in DOMAIN owners : t \in owners'[y] =>
           loc'[t].pc \in Inside /\ y = <<loc'[t].locks, MyMutex(t)'>>
  <2>2. CASE u # t
    <3>1. loc[u].pc \in Inside /\ x = <<loc[u].locks, MyMutex(u)>>
      BY ONLY <1>2, <2>2, OwnersInside,
         \A y \in DOMAIN owners : \A v \in owners'[y] : v # t => v \in owners[y]
      DEF OwnersInside
    <3>2. loc'[u] = loc[u] /\ length'[loc[u].locks] = length[loc[u].locks]
      BY ONLY <1>1, <1>2, <2>2, <3>1, \A v \in MapThreads : v # t => Undisturbed(v)
      DEF Undisturbed
    <3>3. MyMutex(u)' = MyMutex(u)
      BY ONLY <3>2 DEF MyMutex
    <3> QED BY ONLY <3>1, <3>2, <3>3
  <2> QED BY ONLY <2>1, <2>2
<1> QED BY ONLY <1>1, <1>2 DEF OwnersInside

LEMMA ProtectedKept ==
  ASSUME NEW u, Protected(u), loc'[u] = loc[u], UNCHANGED <<slot, status, holders>>
  PROVE  Protected(u)'
BY ONLY Protected(u), loc'[u] = loc[u], UNCHANGED <<slot, status, holders>> DEF Protected

LEMMA ProtectedByOwn ==
  ASSUME LocksInv, NEW t \in MapThreads, NEW u \in MapThreads, u # t, NEW p, Protected(u),
         loc'[u] = loc[u], Map!R!Announce(t, p)
  PROVE  Protected(u)'
<1>1. slot \in [MapThreads -> Ptrs \cup {NoPtr}]
  BY ONLY LocksInv DEF LocksInv, Map!R!ReclamationTypeOK
<1> QED
  BY ONLY <1>1, Protected(u), loc'[u] = loc[u], Map!R!Announce(t, p), u # t, SMTT(30)
  DEF Protected, Map!R!Announce

(* When t moves in the array in use, and only its own mutex and its own    *)
(* hazard pointer change.                                                  *)
LEMMA OthersUndisturbed ==
  ASSUME MapInv, structure = "refinable", NEW t \in MapThreads,
         \A u \in MapThreads : u # t => loc'[u] = loc[u],
         mLocks' = mLocks, length' = length, status' = status,
         UNCHANGED <<slot, holders>> \/ \E p : Map!R!Announce(t, p),
         \A x \in DOMAIN owners, u \in MapThreads : u # t /\ owners[x] = {u} => owners'[x] = {u},
         \A u \in MapThreads : u # t /\ loc[u].pc \in Rehashing => mRehash',
         Map!Size' = Map!Size,
         \A u \in MapThreads : u # t /\ loc[u].pc = "swap" => mBuckets' = mBuckets
  PROVE  \A u \in MapThreads : u # t => Undisturbed(u)
<1> SUFFICES ASSUME NEW u \in MapThreads, u # t PROVE Undisturbed(u)
  OBVIOUS
<1>1. RefinableThread(u) /\ LocksInv /\ LocalInv(u) /\ loc'[u] = loc[u] /\ loc[u] \in Locals
  BY ONLY MapInv, structure = "refinable", RefinableParts, u # t,
          \A v \in MapThreads : v # t => loc'[v] = loc[v]
<1>2. loc[u].pc \in {"lock", "recheckFlag", "recheckLocks"} => Protected(u)'
  <2>1. loc[u].pc \in {"lock", "recheckFlag", "recheckLocks"} => Protected(u)
    BY ONLY <1>1 DEF RefinableThread
  <2>2. Protected(u) => Protected(u)'
    <3>1. CASE UNCHANGED <<slot, holders>>
      BY ONLY <1>1, <3>1, status' = status, ProtectedKept
    <3>2. CASE \E p : Map!R!Announce(t, p)
      BY ONLY <1>1, <3>2, u # t, ProtectedByOwn
    <3> QED BY ONLY <3>1, <3>2, UNCHANGED <<slot, holders>> \/ \E p : Map!R!Announce(t, p)
  <2> QED BY ONLY <2>1, <2>2
<1>3. loc[u].pc \in Inside =>
        /\ length'[loc[u].locks] = length[loc[u].locks]
        /\ owners'[<<loc[u].locks, MyMutex(u)>>] = {u}
  <2>1. loc[u].pc \in Inside => owners[<<loc[u].locks, MyMutex(u)>>] = {u}
    BY ONLY <1>1 DEF RefinableThread
  <2>2. loc[u].pc \in Inside => <<loc[u].locks, MyMutex(u)>> \in DOMAIN owners
    BY ONLY MapInv, structure = "refinable", MutexInRange
  <2> QED
    BY ONLY <2>1, <2>2, u # t, length' = length,
       \A x \in DOMAIN owners, v \in MapThreads : v # t /\ owners[x] = {v} => owners'[x] = {v}
<1>4. loc[u].pc \in {"open", "retire"} =>
        loc[u].locks # mLocks' /\ status'[loc[u].locks] = "live"
  BY ONLY <1>1, mLocks' = mLocks, status' = status DEF RefinableThread
<1> QED
  BY ONLY <1>1, <1>2, <1>3, <1>4, u # t, mLocks' = mLocks, length' = length, Map!Size' = Map!Size,
          \A v \in MapThreads : v # t /\ loc[v].pc = "swap" => mBuckets' = mBuckets,
          \A v \in MapThreads : v # t /\ loc[v].pc \in Rehashing => mRehash'
  DEF Undisturbed

(* A step of t that leaves the buckets and the array in use alone.         *)
LEMMA RefinableQuiet ==
  ASSUME MapInv, structure = "refinable", structure' = structure, NEW t \in MapThreads,
         loc' \in [MapThreads -> Locals], \A u \in MapThreads : u # t => loc'[u] = loc[u],
         mBuckets' = mBuckets, mSize' = mSize,
         mLocks' = mLocks, length' = length, status' = status, LocksInv',
         UNCHANGED <<slot, holders>> \/ \E p : Map!R!Announce(t, p),
         \A x \in DOMAIN owners, u \in MapThreads : u # t /\ owners[x] = {u} => owners'[x] = {u},
         \A x \in DOMAIN owners : \A u \in owners'[x] : u # t => u \in owners[x],
         \A x \in DOMAIN owners : t \in owners'[x] =>
           loc'[t].pc \in Inside /\ x = <<loc'[t].locks, MyMutex(t)'>>,
         \A u \in MapThreads : u # t /\ loc[u].pc \in Rehashing => mRehash',
         LocalInv(t)', RefinableThread(t)',
         \A u \in MapThreads : u # t => Apart(t, u)' /\ Apart(u, t)'
  PROVE  MapInv'
<1>1. /\ OwnersInside /\ LocksInv /\ BucketsInv
      /\ \A u \in MapThreads : LocalInv(u)
  BY ONLY MapInv, structure = "refinable" DEF MapInv, RefinableInv
<1>2. BucketsInv' /\ Map!Size' = Map!Size
  BY ONLY <1>1, SameBuckets, mBuckets' = mBuckets, mSize' = mSize, structure' = structure
<1>3. \A u \in MapThreads : u # t => Undisturbed(u)
  BY ONLY <1>2, OthersUndisturbed, MapInv, structure = "refinable", mBuckets' = mBuckets,
     \A u \in MapThreads : u # t => loc'[u] = loc[u],
     mLocks' = mLocks, length' = length, status' = status,
     UNCHANGED <<slot, holders>> \/ \E p : Map!R!Announce(t, p),
     \A x \in DOMAIN owners, u \in MapThreads : u # t /\ owners[x] = {u} => owners'[x] = {u},
     \A u \in MapThreads : u # t /\ loc[u].pc \in Rehashing => mRehash'
<1>4. \A u \in MapThreads : u # t => LocalInv(u)'
  BY ONLY <1>1, <1>2, SameLocal, \A u \in MapThreads : u # t => loc'[u] = loc[u]
<1>5. OwnersInside'
  BY ONLY <1>1, <1>3, OwnersKept, LocksInv',
     \A x \in DOMAIN owners : \A u \in owners'[x] : u # t => u \in owners[x],
     \A x \in DOMAIN owners : t \in owners'[x] =>
       loc'[t].pc \in Inside /\ x = <<loc'[t].locks, MyMutex(t)'>>
<1> QED
  BY ONLY <1>2, <1>3, <1>4, <1>5, RefinableStep, MapInv, structure = "refinable",
     structure' = structure, loc' \in [MapThreads -> Locals], mLocks' = mLocks,
     length' = length, LocksInv', LocalInv(t)', RefinableThread(t)',
     \A u \in MapThreads : u # t => Apart(t, u)' /\ Apart(u, t)'

(* The same when only the place of t and mRehash change.                   *)
LEMMA RefinableMoves ==
  ASSUME MapInv, structure = "refinable", structure' = structure, NEW t \in MapThreads,
         loc' \in [MapThreads -> Locals], \A u \in MapThreads : u # t => loc'[u] = loc[u],
         mBuckets' = mBuckets, mSize' = mSize, owners' = owners,
         UNCHANGED <<mLocks, length, slot, status, holders>>, mRehash' \in BOOLEAN,
         \A u \in MapThreads : u # t /\ loc[u].pc \in Rehashing => mRehash',
         loc[t].pc \in Inside =>
           loc'[t].pc \in Inside /\ loc'[t].locks = loc[t].locks /\ loc'[t].key = loc[t].key,
         LocalInv(t)', RefinableThread(t)',
         \A u \in MapThreads : u # t => Apart(t, u)' /\ Apart(u, t)'
  PROVE  MapInv'
<1>1. OwnersInside /\ LocksInv
  BY ONLY MapInv, structure = "refinable" DEF MapInv, RefinableInv
<1>2. LocksInv'
  BY ONLY <1>1, owners' = owners, UNCHANGED <<mLocks, length, slot, status, holders>>,
          mRehash' \in BOOLEAN
  DEF LocksInv, Map!R!ReclamationTypeOK
<1>3. \A x \in DOMAIN owners : t \in owners'[x] =>
        loc'[t].pc \in Inside /\ x = <<loc'[t].locks, MyMutex(t)'>>
  <2>1. loc[t].pc \in Inside => MyMutex(t)' = MyMutex(t)
    BY ONLY UNCHANGED <<mLocks, length, slot, status, holders>>, loc[t].pc \in Inside =>
           loc'[t].pc \in Inside /\ loc'[t].locks = loc[t].locks /\ loc'[t].key = loc[t].key
    DEF MyMutex
  <2> QED
    BY ONLY <1>1, <2>1, owners' = owners, loc[t].pc \in Inside =>
           loc'[t].pc \in Inside /\ loc'[t].locks = loc[t].locks /\ loc'[t].key = loc[t].key
    DEF OwnersInside
<1>4. /\ mLocks' = mLocks /\ length' = length /\ status' = status /\ UNCHANGED <<slot, holders>>
      /\ \A x \in DOMAIN owners, u \in MapThreads : u # t /\ owners[x] = {u} => owners'[x] = {u}
      /\ \A x \in DOMAIN owners : \A u \in owners'[x] : u # t => u \in owners[x]
  BY ONLY owners' = owners, UNCHANGED <<mLocks, length, slot, status, holders>>
<1> QED
  BY ONLY <1>2, <1>3, <1>4, RefinableQuiet, MapInv, structure = "refinable",
     structure' = structure, loc' \in [MapThreads -> Locals], mBuckets' = mBuckets,
     mSize' = mSize, \A u \in MapThreads : u # t => loc'[u] = loc[u],
     \A u \in MapThreads : u # t /\ loc[u].pc \in Rehashing => mRehash',
     LocalInv(t)', RefinableThread(t)',
     \A u \in MapThreads : u # t => Apart(t, u)' /\ Apart(u, t)'

LEMMA RefinableOutside ==
  ASSUME MapInv, structure = "refinable", structure' = structure, NEW t \in MapThreads,
         Map!Call(t, {"find", "addOrUpdate", "remove"}) \/ Map!Return(t)
  PROVE  MapInv'
<1>1. /\ loc \in [MapThreads -> Locals] /\ LocksInv
      /\ \A u \in MapThreads : RefinableThread(u)
  BY ONLY MapInv, structure = "refinable" DEF MapInv, RefinableInv
<1>2. /\ loc' \in [MapThreads -> Locals]
      /\ loc[t].pc \notin Inside
      /\ loc'[t].pc \in {"acquire", "idle"} /\ (loc'[t].pc = "acquire" => loc'[t].op # "getSnapShot")
      /\ \A u \in MapThreads : u # t => loc'[u] = loc[u]
      /\ LocalInv(t)'
      /\ mBuckets' = mBuckets /\ mSize' = mSize /\ owners' = owners
      /\ UNCHANGED OtherLocks
  <2>1. CASE Map!Call(t, {"find", "addOrUpdate", "remove"})
    <3>1. {"find", "addOrUpdate", "remove"} \subseteq {"find", "addOrUpdate", "remove", "getSnapShot"}
      OBVIOUS
    <3> QED BY ONLY <2>1, <3>1, <1>1, CallMoves DEF Inside
  <2>2. CASE Map!Return(t)
    <3>1. /\ loc' \in [MapThreads -> Locals] /\ loc'[t].pc = "idle" /\ loc[t].pc = "done"
          /\ \A u \in MapThreads : u # t => loc'[u] = loc[u]
          /\ mBuckets' = mBuckets /\ mSize' = mSize /\ owners' = owners
          /\ UNCHANGED OtherLocks
      BY ONLY <2>2, <1>1, ReturnMoves
    <3>2. LocalInv(t)'
      BY ONLY <3>1 DEF LocalInv, Pending
    <3> QED BY ONLY <3>1, <3>2 DEF Inside
  <2> QED BY ONLY <2>1, <2>2, Map!Call(t, {"find", "addOrUpdate", "remove"}) \/ Map!Return(t)
<1>3. RefinableThread(t)'
  BY ONLY <1>2 DEF RefinableThread, Inside, Rehashing
<1>4. /\ UNCHANGED <<mLocks, length, slot, status, holders>> /\ mRehash' \in BOOLEAN
      /\ \A u \in MapThreads : u # t /\ loc[u].pc \in Rehashing => mRehash'
  BY ONLY <1>1, <1>2 DEF OtherLocks, LocksInv, RefinableThread
<1>5. loc'[t].pc \notin Rehashing \cup Checked \cup {"retire"}
  BY ONLY <1>2 DEF Rehashing, Checked
<1>6. \A u \in MapThreads : u # t => Apart(t, u)' /\ Apart(u, t)'
  BY ONLY <1>5, ApartOutside
<1> QED
  BY ONLY <1>2, <1>3, <1>4, <1>6, MapInv, structure = "refinable", structure' = structure,
          RefinableMoves

LEMMA Relabels ==
  ASSUME loc \in [MapThreads -> Locals], NEW t \in MapThreads, NEW label \in Labels,
         Map!Goto(t, Map!At(t, label))
  PROVE  /\ loc' \in [MapThreads -> Locals] /\ loc'[t].pc = label
         /\ SameFields(loc'[t], loc[t]) /\ loc'[t].index = loc[t].index
         /\ \A u \in MapThreads : u # t => loc'[u] = loc[u]
<1>1. loc[t] \in Locals /\ 0 \in Nat
  BY ONLY loc \in [MapThreads -> Locals], t \in MapThreads
<1>2. Map!At(t, label) \in Locals
  BY ONLY <1>1, label \in Labels, Labelled
<1>3. SameFields(Map!At(t, label), loc[t])
      /\ Map!At(t, label).index = loc[t].index /\ Map!At(t, label).pc = label
  BY ONLY <1>1, LabelFields
<1> QED
  BY ONLY <1>2, <1>3, Moved, loc \in [MapThreads -> Locals], Map!Goto(t, Map!At(t, label))

(* claim and the ways back to acquire change locks as well.                *)
LEMMA Relocks ==
  ASSUME loc \in [MapThreads -> Locals], NEW t \in MapThreads, NEW label \in Labels,
         NEW p \in Ptrs \cup {NoPtr}, Map!Goto(t, [Map!At(t, label) EXCEPT !.locks = p])
  PROVE  /\ loc' \in [MapThreads -> Locals] /\ loc'[t].pc = label /\ loc'[t].locks = p
         /\ loc'[t].op = loc[t].op /\ loc'[t].key = loc[t].key /\ loc'[t].val = loc[t].val
         /\ loc'[t].prev = loc[t].prev /\ loc'[t].index = loc[t].index
         /\ \A u \in MapThreads : u # t => loc'[u] = loc[u]
<1> DEFINE r == [Map!At(t, label) EXCEPT !.locks = p]
<1>1. loc[t] \in Locals
  BY ONLY loc \in [MapThreads -> Locals], t \in MapThreads
<1>2. r \in Locals
  BY ONLY <1>1, label \in Labels, p \in Ptrs \cup {NoPtr}, Zenon DEF Map!At, Locals
<1>3. DOMAIN loc[t] = {"pc", "op", "key", "val", "locks", "index", "prev", "new"}
  BY ONLY <1>1 DEF Locals
<1>4. /\ r.pc = label /\ r.locks = p /\ r.op = loc[t].op /\ r.key = loc[t].key
      /\ r.val = loc[t].val /\ r.prev = loc[t].prev /\ r.index = loc[t].index
  BY ONLY <1>3, SMTT(30) DEF Map!At
<1>5. Map!Goto(t, r)
  BY ONLY Map!Goto(t, [Map!At(t, label) EXCEPT !.locks = p])
<1> HIDE DEF r
<1> QED BY ONLY <1>2, <1>4, <1>5, Moved, loc \in [MapThreads -> Locals]

LEMMA RefinableSpin ==
  ASSUME MapInv, structure = "refinable", structure' = structure, NEW t \in MapThreads,
         Refinable!spin(t)
  PROVE  MapInv'
<1>1. /\ loc \in [MapThreads -> Locals] /\ LocksInv /\ loc[t] \in Locals /\ LocalInv(t)
      /\ \A u \in MapThreads : RefinableThread(u)
  BY ONLY MapInv, structure = "refinable", RefinableParts
<1>2. /\ loc[t].pc = "acquire" /\ mBuckets' = mBuckets /\ mSize' = mSize /\ owners' = owners
      /\ UNCHANGED <<mLocks, length, slot, status, holders>> /\ mRehash' = mRehash
      /\ Map!Goto(t, Map!At(t, "spin"))
  BY ONLY Refinable!spin(t)
  DEF Refinable!spin, Refinable!Goto, Refinable!At, Refinable!Fixed, Refinable!lockVars,
      Map!Goto, Map!At
<1>3. "spin" \in Labels
  BY ONLY DEF Labels
<1>4. /\ loc' \in [MapThreads -> Locals] /\ loc'[t].pc = "spin"
      /\ SameFields(loc'[t], loc[t])
      /\ \A u \in MapThreads : u # t => loc'[u] = loc[u]
  BY ONLY <1>1, <1>2, <1>3, Relabels
<1>5. /\ mRehash' \in BOOLEAN
      /\ \A u \in MapThreads : u # t /\ loc[u].pc \in Rehashing => mRehash'
  BY ONLY <1>1, <1>2 DEF LocksInv, RefinableThread
<1>6. LocalInv(t)'
  BY ONLY <1>1, <1>2, <1>4 DEF LocalInv, Pending, SameFields
<1>7. RefinableThread(t)'
  BY ONLY <1>1, <1>2, <1>4 DEF RefinableThread, Inside, Rehashing, SameFields
<1>8. loc'[t].pc \notin Rehashing \cup Checked \cup {"retire"} /\ loc[t].pc \notin Inside
  BY ONLY <1>2, <1>4 DEF Rehashing, Checked, Inside
<1>9. \A u \in MapThreads : u # t => Apart(t, u)' /\ Apart(u, t)'
  BY ONLY <1>8, ApartOutside
<1> QED
  BY ONLY <1>2, <1>4, <1>5, <1>6, <1>7, <1>8, <1>9, MapInv, structure = "refinable",
          structure' = structure, RefinableMoves

LEMMA AnnounceTyped ==
  ASSUME LocksInv, NEW t \in MapThreads, NEW p \in Ptrs \cup {NoPtr}, Map!R!Announce(t, p)
  PROVE  /\ Map!R!ReclamationTypeOK' /\ status' = status /\ slot'[t] = p
BY ONLY LocksInv, p \in Ptrs \cup {NoPtr}, t \in MapThreads, Map!R!Announce(t, p), SMTT(30)
DEF LocksInv, Map!R!ReclamationTypeOK, Map!R!Announce

LEMMA RefinableClaim ==
  ASSUME MapInv, structure = "refinable", structure' = structure, NEW t \in MapThreads,
         Refinable!claim(t)
  PROVE  MapInv'
<1>1. /\ loc \in [MapThreads -> Locals] /\ LocksInv /\ loc[t] \in Locals /\ LocalInv(t)
      /\ OwnersInside /\ \A u \in MapThreads : RefinableThread(u)
  BY ONLY MapInv, structure = "refinable", RefinableParts
<1>2. /\ loc[t].pc = "spin" /\ mBuckets' = mBuckets /\ mSize' = mSize /\ owners' = owners
      /\ mLocks' = mLocks /\ length' = length /\ mRehash' = mRehash
      /\ Map!R!Announce(t, mLocks)
      /\ Map!Goto(t, [Map!At(t, "lock") EXCEPT !.locks = mLocks])
  BY ONLY Refinable!claim(t)
  DEF Refinable!claim, Refinable!Goto, Refinable!At, Refinable!Fixed, Map!Goto, Map!At,
      Refinable!R!Announce, Map!R!Announce
<1>3. "lock" \in Labels /\ mLocks \in Ptrs /\ mLocks \in Ptrs \cup {NoPtr} /\ status[mLocks] = "live"
  BY ONLY <1>1 DEF Labels, LocksInv
<1>4. /\ loc' \in [MapThreads -> Locals] /\ loc'[t].pc = "lock" /\ loc'[t].locks = mLocks
      /\ loc'[t].op = loc[t].op /\ loc'[t].key = loc[t].key /\ loc'[t].val = loc[t].val
      /\ \A u \in MapThreads : u # t => loc'[u] = loc[u]
  BY ONLY <1>1, <1>2, <1>3, Relocks
<1>5. Map!R!ReclamationTypeOK' /\ status' = status /\ slot'[t] = mLocks
  BY ONLY <1>1, <1>2, <1>3, AnnounceTyped
<1>6. LocksInv'
  BY ONLY <1>1, <1>2, <1>5 DEF LocksInv
<1>7. LocalInv(t)'
  BY ONLY <1>1, <1>2, <1>4 DEF LocalInv, Pending
<1>8. RefinableThread(t)'
  <2>1. Protected(t)'
    BY ONLY <1>3, <1>4, <1>5 DEF Protected
  <2>2. loc'[t].op # "getSnapShot"
    BY ONLY <1>1, <1>2, <1>4 DEF RefinableThread
  <2> QED BY ONLY <1>4, <2>1, <2>2 DEF RefinableThread, Inside, Rehashing
<1>9. loc'[t].pc \notin Rehashing \cup Checked \cup {"retire"} /\ loc[t].pc \notin Inside
  BY ONLY <1>2, <1>4 DEF Rehashing, Checked, Inside
<1>10. \A u \in MapThreads : u # t => Apart(t, u)' /\ Apart(u, t)'
  BY ONLY <1>9, ApartOutside
<1>11. /\ \E p : Map!R!Announce(t, p)
       /\ \A x \in DOMAIN owners, u \in MapThreads : u # t /\ owners[x] = {u} => owners'[x] = {u}
       /\ \A x \in DOMAIN owners : \A u \in owners'[x] : u # t => u \in owners[x]
       /\ \A x \in DOMAIN owners : t \notin owners'[x]
       /\ \A u \in MapThreads : u # t /\ loc[u].pc \in Rehashing => mRehash'
  BY ONLY <1>1, <1>2, <1>9 DEF OwnersInside, RefinableThread
<1> QED
  BY ONLY <1>2, <1>4, <1>5, <1>6, <1>7, <1>8, <1>10, <1>11, MapInv, structure = "refinable",
          structure' = structure, RefinableQuiet

LEMMA RefinableLock ==
  ASSUME MapInv, structure = "refinable", structure' = structure, NEW t \in MapThreads,
         Refinable!lock(t)
  PROVE  MapInv'
<1>1. /\ loc \in [MapThreads -> Locals] /\ LocksInv /\ loc[t] \in Locals /\ LocalInv(t)
      /\ OwnersInside /\ \A u \in MapThreads : RefinableThread(u)
  BY ONLY MapInv, structure = "refinable", RefinableParts
<1>2. /\ loc[t].pc = "lock" /\ mBuckets' = mBuckets /\ mSize' = mSize
      /\ UNCHANGED OtherLocks
      /\ owners[<<loc[t].locks, MyMutex(t)>>] = {}
      /\ owners' = [owners EXCEPT ![<<loc[t].locks, MyMutex(t)>>] = {t}]
      /\ Map!Goto(t, Map!At(t, "recheckFlag"))
  BY ONLY Refinable!lock(t)
  DEF Refinable!lock, Refinable!Locked, Refinable!mutex, Refinable!Goto, Refinable!At,
      Refinable!Fixed, Map!Goto, Map!At, OtherLocks, MyMutex
<1>3. "recheckFlag" \in Labels
  BY ONLY DEF Labels
<1>4. /\ loc' \in [MapThreads -> Locals] /\ loc'[t].pc = "recheckFlag"
      /\ SameFields(loc'[t], loc[t])
      /\ \A u \in MapThreads : u # t => loc'[u] = loc[u]
  BY ONLY <1>1, <1>2, <1>3, Relabels
<1>5. loc[t].locks \in Ptrs /\ MyMutex(t) \in 0 .. length[loc[t].locks] - 1
  BY ONLY <1>2, MapInv, structure = "refinable", MutexInRange
<1>6. /\ LocksInv' /\ <<loc[t].locks, MyMutex(t)>> \in DOMAIN owners
      /\ \A x \in DOMAIN owners :
           owners'[x] = IF x = <<loc[t].locks, MyMutex(t)>> THEN {t} ELSE owners[x]
  <2>1. {t} \in SUBSET MapThreads
    OBVIOUS
  <2> QED BY ONLY <2>1, <1>1, <1>2, <1>5, LockTaken
<1>7. /\ mLocks' = mLocks /\ length' = length /\ status' = status
      /\ UNCHANGED <<slot, holders>> /\ mRehash' = mRehash
  BY ONLY <1>2 DEF OtherLocks
<1>8. LocalInv(t)'
  BY ONLY <1>1, <1>2, <1>4 DEF LocalInv, Pending, SameFields
<1>9. MyMutex(t)' = MyMutex(t) /\ loc'[t].locks = loc[t].locks /\ loc'[t].op = loc[t].op
  BY ONLY <1>4, <1>7 DEF MyMutex, SameFields
<1>10. RefinableThread(t)'
  <2>1. Protected(t)'
    BY ONLY <1>1, <1>2, <1>7, <1>9 DEF RefinableThread, Protected
  <2>2. loc'[t].op # "getSnapShot"
    BY ONLY <1>1, <1>2, <1>9 DEF RefinableThread
  <2>3. owners'[<<loc'[t].locks, MyMutex(t)'>>] = {t}
    BY ONLY <1>6, <1>9
  <2> QED BY ONLY <1>4, <2>1, <2>2, <2>3 DEF RefinableThread, Inside, Rehashing
<1>11. loc'[t].pc \notin Rehashing \cup Checked \cup {"retire"}
       /\ loc[t].pc \notin Inside /\ loc'[t].pc \in Inside
  BY ONLY <1>2, <1>4 DEF Rehashing, Checked, Inside
<1>12. \A u \in MapThreads : u # t => Apart(t, u)' /\ Apart(u, t)'
  BY ONLY <1>11, ApartOutside
<1>13. /\ \A x \in DOMAIN owners, u \in MapThreads : u # t /\ owners[x] = {u} => owners'[x] = {u}
       /\ \A x \in DOMAIN owners : \A u \in owners'[x] : u # t => u \in owners[x]
       /\ \A x \in DOMAIN owners : t \in owners'[x] =>
            loc'[t].pc \in Inside /\ x = <<loc'[t].locks, MyMutex(t)'>>
       /\ \A u \in MapThreads : u # t /\ loc[u].pc \in Rehashing => mRehash'
  BY ONLY <1>1, <1>2, <1>6, <1>7, <1>9, <1>11 DEF OwnersInside, RefinableThread
<1> QED
  BY ONLY <1>2, <1>4, <1>6, <1>7, <1>8, <1>10, <1>12, <1>13, MapInv, structure = "refinable",
          structure' = structure, RefinableQuiet

(* acquire was in vain.                                                    *)
LEMMA RefinableBack ==
  ASSUME MapInv, structure = "refinable", structure' = structure, NEW t \in MapThreads,
         loc[t].pc \in {"recheckFlag", "recheckLocks"},
         Map!Unlocked(t), Map!R!Announce(t, NoPtr),
         Map!Goto(t, [Map!At(t, "acquire") EXCEPT !.locks = NoPtr]),
         UNCHANGED <<mBuckets, mSize, mLocks, length, mRehash>>
  PROVE  MapInv'
<1>1. /\ loc \in [MapThreads -> Locals] /\ LocksInv /\ loc[t] \in Locals /\ LocalInv(t)
      /\ OwnersInside /\ \A u \in MapThreads : RefinableThread(u)
  BY ONLY MapInv, structure = "refinable", RefinableParts
<1>2. "acquire" \in Labels /\ NoPtr \in Ptrs \cup {NoPtr}
  BY ONLY DEF Labels
<1>3. /\ loc' \in [MapThreads -> Locals] /\ loc'[t].pc = "acquire"
      /\ loc'[t].op = loc[t].op /\ loc'[t].key = loc[t].key /\ loc'[t].val = loc[t].val
      /\ \A u \in MapThreads : u # t => loc'[u] = loc[u]
  BY ONLY <1>1, <1>2, Relocks, Map!Goto(t, [Map!At(t, "acquire") EXCEPT !.locks = NoPtr])
<1>4. Map!R!ReclamationTypeOK' /\ status' = status
  BY ONLY <1>1, <1>2, AnnounceTyped, Map!R!Announce(t, NoPtr)
<1>5. /\ owners' \in [Ptrs \X (0 .. MaxSize - 1) -> SUBSET MapThreads]
      /\ DOMAIN owners' = DOMAIN owners
      /\ \A x \in DOMAIN owners : owners'[x] = owners[x] \ {t}
  BY ONLY <1>1, Map!Unlocked(t) DEF LocksInv, Map!Unlocked
<1>6. LocksInv'
  BY ONLY <1>1, <1>4, <1>5, UNCHANGED <<mBuckets, mSize, mLocks, length, mRehash>> DEF LocksInv
<1>7. LocalInv(t)'
  BY ONLY <1>1, <1>3, loc[t].pc \in {"recheckFlag", "recheckLocks"} DEF LocalInv, Pending
<1>8. RefinableThread(t)'
  <2>1. loc'[t].op # "getSnapShot"
    BY ONLY <1>1, <1>3, loc[t].pc \in {"recheckFlag", "recheckLocks"} DEF RefinableThread, Inside
  <2> QED BY ONLY <1>3, <2>1 DEF RefinableThread, Inside, Rehashing
<1>9. loc'[t].pc \notin Rehashing \cup Checked \cup {"retire"}
  BY ONLY <1>3 DEF Rehashing, Checked
<1>10. \A u \in MapThreads : u # t => Apart(t, u)' /\ Apart(u, t)'
  BY ONLY <1>9, ApartOutside
<1>11. /\ \E p : Map!R!Announce(t, p)
       /\ \A x \in DOMAIN owners, u \in MapThreads : u # t /\ owners[x] = {u} => owners'[x] = {u}
       /\ \A x \in DOMAIN owners : \A u \in owners'[x] : u # t => u \in owners[x]
       /\ \A x \in DOMAIN owners : t \notin owners'[x]
  BY ONLY <1>5, Map!R!Announce(t, NoPtr)
<1>12. /\ mBuckets' = mBuckets /\ mSize' = mSize /\ mLocks' = mLocks /\ length' = length
       /\ \A u \in MapThreads : u # t /\ loc[u].pc \in Rehashing => mRehash'
  BY ONLY <1>1, UNCHANGED <<mBuckets, mSize, mLocks, length, mRehash>> DEF RefinableThread
<1> QED
  BY ONLY <1>3, <1>4, <1>6, <1>7, <1>8, <1>10, <1>11, <1>12, MapInv, structure = "refinable",
          structure' = structure, RefinableQuiet

LEMMA RefinableRecheckFlag ==
  ASSUME MapInv, structure = "refinable", structure' = structure, NEW t \in MapThreads,
         Refinable!recheckFlag(t)
  PROVE  MapInv'
<1>1. /\ loc \in [MapThreads -> Locals] /\ LocksInv /\ loc[t] \in Locals /\ LocalInv(t)
      /\ OwnersInside /\ \A u \in MapThreads : RefinableThread(u)
  BY ONLY MapInv, structure = "refinable", RefinableParts
<1>2. /\ loc[t].pc = "recheckFlag" /\ UNCHANGED <<mBuckets, mSize, mLocks, length, mRehash>>
      /\ IF mRehash
         THEN /\ Map!Unlocked(t) /\ Map!R!Announce(t, NoPtr)
              /\ Map!Goto(t, [Map!At(t, "acquire") EXCEPT !.locks = NoPtr])
         ELSE Map!Goto(t, Map!At(t, "recheckLocks")) /\ UNCHANGED <<owners, slot, status, holders>>
  BY ONLY Refinable!recheckFlag(t)
  DEF Refinable!recheckFlag, Refinable!Unlocked, Refinable!Goto, Refinable!At, Refinable!Fixed,
      Map!Goto, Map!At, Map!Unlocked, Refinable!R!Announce, Map!R!Announce
<1>3. CASE mRehash
  BY ONLY <1>2, <1>3, MapInv, structure = "refinable", structure' = structure, RefinableBack
<1>4. CASE ~ mRehash
  <2>1. "recheckLocks" \in Labels
    BY ONLY DEF Labels
  <2>2. /\ loc' \in [MapThreads -> Locals] /\ loc'[t].pc = "recheckLocks"
        /\ SameFields(loc'[t], loc[t])
        /\ \A u \in MapThreads : u # t => loc'[u] = loc[u]
    BY ONLY <1>1, <1>2, <1>4, <2>1, Relabels
  <2>3. /\ mBuckets' = mBuckets /\ mSize' = mSize /\ owners' = owners
        /\ UNCHANGED <<mLocks, length, slot, status, holders>> /\ mRehash' \in BOOLEAN
        /\ \A u \in MapThreads : loc[u].pc \notin Rehashing
    BY ONLY <1>1, <1>2, <1>4 DEF LocksInv, RefinableThread
  <2>4. LocalInv(t)'
    BY ONLY <1>1, <1>2, <2>2 DEF LocalInv, Pending, SameFields
  <2>5. /\ loc'[t].locks = loc[t].locks /\ loc'[t].op = loc[t].op /\ loc'[t].key = loc[t].key
        /\ MyMutex(t)' = MyMutex(t)
    BY ONLY <2>2, <2>3 DEF MyMutex, SameFields
  <2>6. RefinableThread(t)'
    <3>1. Protected(t) /\ loc[t].op # "getSnapShot"
          /\ owners[<<loc[t].locks, MyMutex(t)>>] = {t}
      BY ONLY <1>1, <1>2 DEF RefinableThread, Inside
    <3>2. Protected(t)' /\ owners'[<<loc'[t].locks, MyMutex(t)'>>] = {t}
      BY ONLY <2>3, <2>5, <3>1 DEF Protected
    <3> QED BY ONLY <2>2, <2>5, <3>1, <3>2 DEF RefinableThread, Inside, Rehashing
  <2>7. \A u \in MapThreads : u # t => Apart(t, u)' /\ Apart(u, t)'
    BY ONLY <2>2, <2>3 DEF Apart, Rehashing, Checked
  <2>8. loc[t].pc \in Inside =>
          loc'[t].pc \in Inside /\ loc'[t].locks = loc[t].locks /\ loc'[t].key = loc[t].key
    BY ONLY <2>2, <2>5 DEF Inside
  <2> QED
    BY ONLY <2>2, <2>3, <2>4, <2>6, <2>7, <2>8, MapInv, structure = "refinable",
            structure' = structure, RefinableMoves
<1> QED BY ONLY <1>3, <1>4

(* A thread that goes on to work on the buckets.                           *)
LEMMA ApartChecked ==
  ASSUME NEW t, NEW u, Apart(t, u), loc'[u] = loc[u], mLocks' = mLocks, length' = length,
         loc[t].pc \in Checked, loc'[t].pc \in Checked,
         loc'[t].locks = loc[t].locks, loc'[t].key = loc[t].key
  PROVE  Apart(t, u)' /\ Apart(u, t)'
<1>1. MyMutex(t)' = MyMutex(t)
  BY ONLY length' = length, loc'[t].locks = loc[t].locks, loc'[t].key = loc[t].key DEF MyMutex
<1> QED
  BY ONLY <1>1, Apart(t, u), loc'[u] = loc[u], mLocks' = mLocks, loc[t].pc \in Checked,
          loc'[t].pc \in Checked, loc'[t].locks = loc[t].locks
  DEF Apart, Checked, Rehashing

LEMMA RefinableRecheckLocks ==
  ASSUME MapInv, structure = "refinable", structure' = structure, NEW t \in MapThreads,
         Refinable!recheckLocks(t)
  PROVE  MapInv'
<1>1. /\ loc \in [MapThreads -> Locals] /\ LocksInv /\ loc[t] \in Locals /\ LocalInv(t)
      /\ OwnersInside /\ \A u \in MapThreads : RefinableThread(u)
      /\ \A u \in MapThreads : Apart(t, u)
  BY ONLY MapInv, structure = "refinable", RefinableParts
<1>2. /\ loc[t].pc = "recheckLocks" /\ UNCHANGED <<mBuckets, mSize, mLocks, length, mRehash>>
      /\ Map!R!Announce(t, NoPtr)
      /\ IF loc[t].locks = mLocks
         THEN Map!Goto(t, Map!At(t, "index")) /\ UNCHANGED owners
         ELSE /\ Map!Unlocked(t)
              /\ Map!Goto(t, [Map!At(t, "acquire") EXCEPT !.locks = NoPtr])
  BY ONLY Refinable!recheckLocks(t)
  DEF Refinable!recheckLocks, Refinable!Unlocked, Refinable!Goto, Refinable!At,
      Refinable!Fixed, Map!Goto, Map!At, Map!Unlocked, Refinable!R!Announce, Map!R!Announce
<1>3. CASE loc[t].locks # mLocks
  BY ONLY <1>2, <1>3, MapInv, structure = "refinable", structure' = structure, RefinableBack
<1>4. CASE loc[t].locks = mLocks
  <2>1. "index" \in Labels /\ NoPtr \in Ptrs \cup {NoPtr}
    BY ONLY DEF Labels
  <2>2. /\ loc' \in [MapThreads -> Locals] /\ loc'[t].pc = "index"
        /\ SameFields(loc'[t], loc[t])
        /\ \A u \in MapThreads : u # t => loc'[u] = loc[u]
    BY ONLY <1>1, <1>2, <1>4, <2>1, Relabels
  <2>3. /\ mBuckets' = mBuckets /\ mSize' = mSize /\ owners' = owners
        /\ mLocks' = mLocks /\ length' = length /\ mRehash' = mRehash
    BY ONLY <1>2, <1>4
  <2>4. Map!R!ReclamationTypeOK' /\ status' = status
    BY ONLY <1>1, <1>2, <2>1, AnnounceTyped
  <2>5. LocksInv'
    BY ONLY <1>1, <2>3, <2>4 DEF LocksInv
  <2>6. LocalInv(t)'
    <3>1. loc[t].key \in Keys
      BY ONLY <1>2, MapInv, structure = "refinable", MutexInRange DEF Inside
    <3> QED BY ONLY <1>1, <1>2, <2>2, <3>1 DEF LocalInv, Pending, SameFields
  <2>7. /\ loc'[t].locks = loc[t].locks /\ loc'[t].op = loc[t].op /\ loc'[t].key = loc[t].key
        /\ MyMutex(t)' = MyMutex(t)
    BY ONLY <2>2, <2>3 DEF MyMutex, SameFields
  <2>8. RefinableThread(t)'
    <3>1. loc[t].op # "getSnapShot" /\ owners[<<loc[t].locks, MyMutex(t)>>] = {t}
      BY ONLY <1>1, <1>2 DEF RefinableThread, Inside
    <3>2. owners'[<<loc'[t].locks, MyMutex(t)'>>] = {t} /\ loc'[t].locks = mLocks'
      BY ONLY <1>4, <2>3, <2>7, <3>1
    <3> QED BY ONLY <2>2, <2>7, <3>1, <3>2 DEF RefinableThread, Inside, Rehashing
  <2>9. \A u \in MapThreads : u # t => Apart(t, u)' /\ Apart(u, t)'
    <3>1. loc[t].pc \in Checked /\ loc'[t].pc \in Checked
      BY ONLY <1>2, <2>2 DEF Checked
    <3> QED BY ONLY <1>1, <2>2, <2>3, <2>7, <3>1, ApartChecked
  <2>10. \E p : Map!R!Announce(t, p)
    BY ONLY <1>2
  <2>12. /\ \A x \in DOMAIN owners, u \in MapThreads : u # t /\ owners[x] = {u} => owners'[x] = {u}
         /\ \A x \in DOMAIN owners : \A u \in owners'[x] : u # t => u \in owners[x]
    BY ONLY <2>3
  <2>13. \A u \in MapThreads : u # t /\ loc[u].pc \in Rehashing => mRehash'
    BY ONLY <1>1, <2>3 DEF RefinableThread
  <2>11. \A x \in DOMAIN owners : t \in owners'[x] =>
           loc'[t].pc \in Inside /\ x = <<loc'[t].locks, MyMutex(t)'>>
    <3>1. loc'[t].pc \in Inside
      BY ONLY <2>2 DEF Inside
    <3> QED BY ONLY <1>1, <2>3, <2>7, <3>1 DEF OwnersInside
  <2> QED
    BY ONLY <2>2, <2>3, <2>4, <2>5, <2>6, <2>8, <2>9, <2>10, <2>11, <2>12, <2>13, MapInv,
            structure = "refinable", structure' = structure, RefinableQuiet
<1> QED BY ONLY <1>3, <1>4

LEMMA RefinableIndex ==
  ASSUME MapInv, structure = "refinable", structure' = structure, NEW t \in MapThreads,
         Map!getBucketIndex(t)
  PROVE  MapInv'
<1>1. /\ loc \in [MapThreads -> Locals] /\ LocksInv /\ loc[t] \in Locals /\ BucketsInv
      /\ LocalInv(t) /\ OwnersInside /\ \A u \in MapThreads : RefinableThread(u)
      /\ \A u \in MapThreads : Apart(t, u)
  BY ONLY MapInv, structure = "refinable", RefinableParts
<1> DEFINE i == Hash[loc[t].key] % Map!Size
<1>2. /\ loc[t].pc = "index" /\ mBuckets' = mBuckets /\ mSize' = mSize
      /\ UNCHANGED OtherLocks /\ owners' = owners
      /\ Map!Goto(t, [Map!At(t, "access") EXCEPT !.index = i])
  BY ONLY Map!getBucketIndex(t) DEF Map!getBucketIndex, Map!lockVars, OtherLocks
<1>3. loc[t].key \in Keys /\ i \in Nat
  <2>1. loc[t].key \in Keys /\ Hash[loc[t].key] \in Nat
    BY ONLY <1>1, <1>2, KeysAssumption DEF LocalInv
  <2>2. Map!Size \in Nat \ {0}
    BY ONLY <1>1, SizesAssumption, SMTT(30) DEF BucketsInv
  <2> QED BY ONLY <2>1, <2>2, ModRange, SMTT(30)
<1>4. "access" \in Labels
  BY ONLY DEF Labels
<1>5. /\ loc' \in [MapThreads -> Locals]
      /\ loc'[t] = [Map!At(t, "access") EXCEPT !.index = i]
      /\ \A u \in MapThreads : u # t => loc'[u] = loc[u]
  BY ONLY <1>1, <1>2, <1>3, <1>4, Labelled, Moved
<1> HIDE DEF i
<1>6. /\ loc'[t].pc = "access" /\ loc'[t].key = loc[t].key /\ loc'[t].op = loc[t].op
      /\ loc'[t].val = loc[t].val /\ loc'[t].index = i /\ loc'[t].locks = loc[t].locks
  BY ONLY <1>1, <1>5, IndexFields DEF SameFields
<1>7. Map!Size' = Map!Size
  BY ONLY <1>2 DEF Map!Size
<1>8. LocalInv(t)'
  BY ONLY <1>1, <1>2, <1>3, <1>6, <1>7 DEF LocalInv, Pending, i
<1>9. /\ UNCHANGED <<mLocks, length, slot, status, holders>> /\ mRehash' \in BOOLEAN
      /\ mLocks' = mLocks /\ length' = length
      /\ \A u \in MapThreads : u # t /\ loc[u].pc \in Rehashing => mRehash'
  BY ONLY <1>1, <1>2 DEF OtherLocks, LocksInv, RefinableThread
<1>10. RefinableThread(t)'
  <2>1. /\ loc[t].op # "getSnapShot" /\ owners[<<loc[t].locks, MyMutex(t)>>] = {t}
        /\ loc[t].locks = mLocks
    BY ONLY <1>1, <1>2 DEF RefinableThread, Inside
  <2>2. MyMutex(t)' = MyMutex(t)
    BY ONLY <1>6, <1>9 DEF MyMutex
  <2>3. owners'[<<loc'[t].locks, MyMutex(t)'>>] = {t} /\ loc'[t].locks = mLocks'
    BY ONLY <1>2, <1>6, <1>9, <2>1, <2>2
  <2> QED BY ONLY <1>6, <2>1, <2>3 DEF RefinableThread, Inside, Rehashing
<1>11. \A u \in MapThreads : u # t => Apart(t, u)' /\ Apart(u, t)'
  <2>1. loc[t].pc \in Checked /\ loc'[t].pc \in Checked
    BY ONLY <1>2, <1>6 DEF Checked
  <2> QED BY ONLY <1>1, <1>5, <1>6, <1>9, <2>1, ApartChecked
<1>12. loc[t].pc \in Inside =>
         loc'[t].pc \in Inside /\ loc'[t].locks = loc[t].locks /\ loc'[t].key = loc[t].key
  BY ONLY <1>6 DEF Inside
<1> QED
  BY ONLY <1>2, <1>5, <1>8, <1>9, <1>10, <1>11, <1>12, MapInv, structure = "refinable",
          structure' = structure, RefinableMoves

(* A thread in its critical section of the array in use keeps rehash from  *)
(* moving the elements.                                                    *)
LEMMA RefinableAlone ==
  ASSUME MapInv, structure = "refinable", NEW t \in MapThreads, NEW u \in MapThreads,
         loc[t].pc \in {"index", "access"}
  PROVE  loc[u].pc \notin {"copy", "swap", "publish"}
<1>1. RefinableThread(t) /\ Apart(t, u)
  BY ONLY MapInv, structure = "refinable", RefinableParts
<1>2. loc[t].locks = mLocks /\ loc[t].pc \in Checked
  BY ONLY <1>1, loc[t].pc \in {"index", "access"} DEF RefinableThread, Checked
<1> QED BY ONLY <1>1, <1>2 DEF Apart

LEMMA RefinableAccess ==
  ASSUME MapInv, structure = "refinable", structure' = structure, NEW t \in MapThreads,
         Map!access(t, TRUE)
  PROVE  MapInv'
<1>1. /\ loc \in [MapThreads -> Locals] /\ LocksInv /\ loc[t] \in Locals /\ BucketsInv
      /\ LocalInv(t) /\ OwnersInside
      /\ \A u \in MapThreads : LocalInv(u) /\ RefinableThread(u)
  BY ONLY MapInv, structure = "refinable", RefinableParts
<1>2. Growing = TRUE
  BY ONLY structure = "refinable" DEF Growing
<1>3. BucketsInv' /\ Map!Size' = Map!Size
  <2>1. Map!access(t, Growing)
    BY ONLY <1>2, Map!access(t, TRUE)
  <2> QED BY ONLY <1>1, <2>1, structure' = structure, AccessBuckets
<1>4. /\ loc[t].pc = "access" /\ Map!Unlocked(t)
      /\ loc' \in [MapThreads -> Locals]
      /\ \/ loc'[t].pc = "done"
         \/ loc'[t].pc = "rehash" /\ loc'[t].index = 0 /\ 2 * loc'[t].prev <= MaxSize
      /\ \A u \in MapThreads : u # t => loc'[u] = loc[u]
      /\ UNCHANGED <<mLocks, length, mRehash, slot, status, holders>>
  BY ONLY <1>1, Map!access(t, TRUE), AccessMoves
<1>5. /\ UNCHANGED OtherLocks /\ mLocks' = mLocks /\ length' = length /\ status' = status
      /\ UNCHANGED <<slot, holders>> /\ mRehash' = mRehash
  BY ONLY <1>4 DEF OtherLocks
<1>6. /\ LocksInv' /\ DOMAIN owners' = DOMAIN owners
      /\ \A x \in DOMAIN owners : owners'[x] = owners[x] \ {t}
  BY ONLY <1>1, <1>4, <1>5, LocksGiven
<1>7. LocalInv(t)'
  BY ONLY <1>4 DEF LocalInv, Pending
<1>8. RefinableThread(t)'
  BY ONLY <1>4 DEF RefinableThread, Inside, Rehashing
<1>9. \A u \in MapThreads : u # t => Undisturbed(u)
  <2>1. /\ \A x \in DOMAIN owners, u \in MapThreads : u # t /\ owners[x] = {u} => owners'[x] = {u}
        /\ \A u \in MapThreads : u # t /\ loc[u].pc \in Rehashing => mRehash'
    BY ONLY <1>1, <1>5, <1>6 DEF RefinableThread
  <2>2. \A u \in MapThreads : loc[u].pc # "swap"
    BY ONLY <1>4, MapInv, structure = "refinable", RefinableAlone
  <2> QED
    BY ONLY <1>3, <1>4, <1>5, <2>1, <2>2, MapInv, structure = "refinable", OthersUndisturbed
<1>10. \A u \in MapThreads : u # t => LocalInv(u)'
  BY ONLY <1>1, <1>3, <1>4, SameLocal
<1>11. OwnersInside'
  <2>1. /\ \A x \in DOMAIN owners : \A u \in owners'[x] : u # t => u \in owners[x]
        /\ \A x \in DOMAIN owners : t \notin owners'[x]
    BY ONLY <1>6
  <2> QED BY ONLY <1>1, <1>6, <1>9, <2>1, OwnersKept
<1>12. \A u \in MapThreads : u # t => Apart(t, u)' /\ Apart(u, t)'
  <2>1. loc'[t].pc \notin Rehashing \cup Checked \cup {"retire"}
    BY ONLY <1>4 DEF Rehashing, Checked
  <2> QED BY ONLY <2>1, ApartOutside
<1> QED
  BY ONLY <1>3, <1>4, <1>5, <1>6, <1>7, <1>8, <1>9, <1>10, <1>11, <1>12, MapInv,
          structure = "refinable", structure' = structure, RefinableStep

(* The one that rehashes goes on, and waits for those who are in.          *)
LEMMA ApartRehashing ==
  ASSUME NEW t, NEW u, Apart(t, u), loc'[u] = loc[u], mLocks' = mLocks, length' = length,
         loc[t].pc \in Rehashing, loc'[t].pc \in {"drain", "copy", "swap", "publish"},
         loc[u].pc \in Checked /\ loc[u].locks = mLocks =>
           loc'[t].pc = "drain" /\ loc'[t].index <= MyMutex(u)
  PROVE  Apart(t, u)' /\ Apart(u, t)'
<1>1. MyMutex(u)' = MyMutex(u)
  BY ONLY length' = length, loc'[u] = loc[u] DEF MyMutex
<1>2. loc[u].pc \in Rehashing => t = u
  BY ONLY Apart(t, u), loc[t].pc \in Rehashing DEF Apart
<1>3. /\ loc'[t].pc \in Rehashing /\ loc'[t].pc \notin Checked
      /\ loc'[t].pc \notin {"open", "retire"}
  BY ONLY loc'[t].pc \in {"drain", "copy", "swap", "publish"} DEF Rehashing, Checked
<1> QED
  BY ONLY <1>1, <1>2, <1>3, loc'[u] = loc[u], mLocks' = mLocks,
          loc[u].pc \in Checked /\ loc[u].locks = mLocks =>
            loc'[t].pc = "drain" /\ loc'[t].index <= MyMutex(u)
  DEF Apart

LEMMA RefinableExchange ==
  ASSUME MapInv, structure = "refinable", structure' = structure, NEW t \in MapThreads,
         Refinable!exchange(t)
  PROVE  MapInv'
<1>1. /\ loc \in [MapThreads -> Locals] /\ LocksInv /\ loc[t] \in Locals
      /\ RefinableThread(t) /\ \A u \in MapThreads : RefinableThread(u)
  BY ONLY MapInv, structure = "refinable", RefinableParts
<1>2. /\ loc[t].pc = "rehash" /\ ~ mRehash /\ mRehash' = TRUE
      /\ mBuckets' = mBuckets /\ mSize' = mSize /\ owners' = owners
      /\ UNCHANGED <<mLocks, length, slot, status, holders>>
      /\ Map!Goto(t, Map!At(t, "compare"))
  BY ONLY Refinable!exchange(t)
  DEF Refinable!exchange, Refinable!Goto, Refinable!At, Refinable!Fixed, Map!Goto, Map!At
<1>3. "compare" \in Labels
  BY ONLY DEF Labels
<1>4. /\ loc' \in [MapThreads -> Locals] /\ loc'[t].pc = "compare"
      /\ SameFields(loc'[t], loc[t]) /\ loc'[t].index = loc[t].index
      /\ \A u \in MapThreads : u # t => loc'[u] = loc[u]
  BY ONLY <1>1, <1>2, <1>3, Relabels
<1>5. /\ mRehash' \in BOOLEAN
      /\ \A u \in MapThreads : u # t /\ loc[u].pc \in Rehashing => mRehash'
  BY ONLY <1>2
<1>6. LocalInv(t)'
  BY ONLY <1>4 DEF LocalInv, Pending
<1>7. RefinableThread(t)'
  <2>1. loc[t].index = 0 /\ 2 * loc[t].prev <= MaxSize
    BY ONLY <1>1, <1>2 DEF RefinableThread
  <2> QED BY ONLY <1>2, <1>4, <2>1 DEF RefinableThread, Inside, Rehashing, SameFields
<1>8. \A u \in MapThreads : u # t => Apart(t, u)' /\ Apart(u, t)'
  <2>1. \A u \in MapThreads : loc[u].pc \notin Rehashing
    BY ONLY <1>1, <1>2 DEF RefinableThread
  <2> QED BY ONLY <1>4, <2>1 DEF Apart, Checked, Rehashing
<1>9. loc[t].pc \notin Inside
  BY ONLY <1>2 DEF Inside
<1> QED
  BY ONLY <1>2, <1>4, <1>5, <1>6, <1>7, <1>8, <1>9, MapInv, structure = "refinable",
          structure' = structure, RefinableMoves

(* Only one thread rehashes at a time.                                     *)
LEMMA OneRehashes ==
  ASSUME MapInv, structure = "refinable", NEW t \in MapThreads, NEW u \in MapThreads, u # t,
         loc[t].pc \in Rehashing
  PROVE  loc[u].pc \notin Rehashing
<1>1. Apart(t, u)
  BY ONLY MapInv, structure = "refinable", RefinableParts
<1> QED BY ONLY <1>1, u # t, loc[t].pc \in Rehashing DEF Apart

LEMMA RefinableCompare ==
  ASSUME MapInv, structure = "refinable", structure' = structure, NEW t \in MapThreads,
         Refinable!compare(t)
  PROVE  MapInv'
<1>1. /\ loc \in [MapThreads -> Locals] /\ LocksInv /\ loc[t] \in Locals
      /\ RefinableThread(t) /\ \A u \in MapThreads : Apart(t, u)
  BY ONLY MapInv, structure = "refinable", RefinableParts
<1>2. /\ loc[t].pc = "compare"
      /\ mBuckets' = mBuckets /\ mSize' = mSize /\ owners' = owners
      /\ UNCHANGED <<mLocks, length, slot, status, holders>>
      /\ IF loc[t].prev # Map!Size
         THEN mRehash' = FALSE /\ Map!Goto(t, Map!Done(t, NoValue))
         ELSE mRehash' = mRehash
              /\ Map!Goto(t, [Map!At(t, "drain") EXCEPT !.locks = mLocks])
  BY ONLY Refinable!compare(t), SameSize
  DEF Refinable!compare, Refinable!Goto, Refinable!At, Refinable!Done, Refinable!Away,
      Refinable!Fixed, Map!Goto, Map!At, Map!Done, Map!Away
<1>3. loc[t].pc \in Rehashing /\ loc[t].pc \notin Inside
  BY ONLY <1>2 DEF Rehashing, Inside
<1>4. \A u \in MapThreads : u # t => loc[u].pc \notin Rehashing
  BY ONLY <1>3, MapInv, structure = "refinable", OneRehashes
<1>5. /\ mLocks' = mLocks /\ length' = length
      /\ \A u \in MapThreads : u # t /\ loc[u].pc \in Rehashing => mRehash'
  BY ONLY <1>2, <1>4
<1>6. CASE loc[t].prev # Map!Size
  <2>1. Map!Done(t, NoValue) \in Locals /\ Map!Done(t, NoValue).pc = "done"
    <3>1. NoValue \in Values \cup {NoValue} \cup Snapshot
      OBVIOUS
    <3> QED BY ONLY <1>1, <3>1, DoneTyped
  <2>2. /\ loc' \in [MapThreads -> Locals] /\ loc'[t].pc = "done"
        /\ \A u \in MapThreads : u # t => loc'[u] = loc[u]
    BY ONLY <1>1, <1>2, <1>6, <2>1, Moved
  <2>3. mRehash' \in BOOLEAN
    BY ONLY <1>2, <1>6
  <2>4. LocalInv(t)'
    BY ONLY <2>2 DEF LocalInv, Pending
  <2>5. RefinableThread(t)'
    BY ONLY <2>2 DEF RefinableThread, Inside, Rehashing
  <2>6. loc'[t].pc \notin Rehashing \cup Checked \cup {"retire"}
    BY ONLY <2>2 DEF Rehashing, Checked
  <2>7. \A u \in MapThreads : u # t => Apart(t, u)' /\ Apart(u, t)'
    BY ONLY <2>6, ApartOutside
  <2> QED
    BY ONLY <1>2, <1>3, <1>5, <2>2, <2>3, <2>4, <2>5, <2>7, MapInv, structure = "refinable",
            structure' = structure, RefinableMoves
<1>7. CASE loc[t].prev = Map!Size
  <2>1. "drain" \in Labels /\ mLocks \in Ptrs \cup {NoPtr}
    BY ONLY <1>1 DEF Labels, LocksInv
  <2>2. /\ loc' \in [MapThreads -> Locals] /\ loc'[t].pc = "drain" /\ loc'[t].locks = mLocks
        /\ loc'[t].prev = loc[t].prev /\ loc'[t].index = loc[t].index
        /\ \A u \in MapThreads : u # t => loc'[u] = loc[u]
    BY ONLY <1>1, <1>2, <1>7, <2>1, Relocks
  <2>3. loc[t].index = 0 /\ 2 * loc[t].prev <= MaxSize /\ mRehash /\ mRehash' = mRehash
    BY ONLY <1>1, <1>2, <1>3, <1>7 DEF RefinableThread
  <2>4. mRehash' \in BOOLEAN
    BY ONLY <1>1, <2>3 DEF LocksInv
  <2>5. LocalInv(t)'
    BY ONLY <2>2 DEF LocalInv, Pending
  <2>6. Indices' = Indices /\ Map!Size' = Map!Size /\ 0 \in Indices
    <3>1. Indices' = Indices /\ Map!Size' = Map!Size
      BY ONLY <1>2, <1>5 DEF Indices, Map!Size
    <3> QED BY ONLY <1>1, <3>1, InUse, SizesAssumption, SMTT(30) DEF Indices
  <2>7. RefinableThread(t)'
    BY ONLY <1>2, <1>5, <1>7, <2>2, <2>3, <2>6 DEF RefinableThread, Inside, Rehashing
  <2>8. ASSUME NEW u \in MapThreads, u # t PROVE Apart(t, u)' /\ Apart(u, t)'
    <3>1. loc[u].pc \in Checked => 0 <= MyMutex(u)
      <4>1. loc[u].pc \in Checked => loc[u].pc \in {"lock"} \cup Inside
        BY ONLY DEF Checked, Inside
      <4>2. loc[u].pc \in Checked => MyMutex(u) \in Nat
        BY ONLY <4>1, MapInv, structure = "refinable", MutexInRange
      <4> QED BY ONLY <4>2, SMTT(30)
    <3>2. /\ Apart(t, u) /\ loc'[u] = loc[u] /\ loc'[t].pc = "drain" /\ loc'[t].index = 0
          /\ loc'[t].pc \in {"drain", "copy", "swap", "publish"}
      BY ONLY <1>1, <2>2, <2>3, <2>8
    <3>3. loc[u].pc \in Checked /\ loc[u].locks = mLocks =>
            loc'[t].pc = "drain" /\ loc'[t].index <= MyMutex(u)
      BY ONLY <3>1, <3>2
    <3> QED BY ONLY <1>3, <1>5, <3>2, <3>3, ApartRehashing
  <2> QED
    BY ONLY <1>2, <1>3, <1>5, <2>2, <2>4, <2>5, <2>7, <2>8, MapInv, structure = "refinable",
            structure' = structure, RefinableMoves
<1> QED BY ONLY <1>6, <1>7

(* A mutex that was free was not one of those rehash waits for.            *)
LEMMA RefinableDrain ==
  ASSUME MapInv, structure = "refinable", structure' = structure, NEW t \in MapThreads,
         Refinable!drain(t)
  PROVE  MapInv'
<1>1. /\ loc \in [MapThreads -> Locals] /\ LocksInv /\ loc[t] \in Locals
      /\ RefinableThread(t) /\ \A u \in MapThreads : Apart(t, u) /\ Apart(u, t)
      /\ \A u \in MapThreads : RefinableThread(u)
  BY ONLY MapInv, structure = "refinable", RefinableParts
<1> DEFINE i == loc[t].index
           more == i + 1 < length[loc[t].locks]
<1>2. PICK r : r = IF more THEN [loc[t] EXCEPT !.index = i + 1]
                   ELSE [Map!At(t, "copy") EXCEPT !.index = 0]
  OBVIOUS
<1>3. /\ loc[t].pc = "drain" /\ owners[<<loc[t].locks, i>>] = {}
      /\ mBuckets' = mBuckets /\ mSize' = mSize /\ owners' = owners
      /\ UNCHANGED <<mLocks, length, slot, status, holders>> /\ mRehash' = mRehash
      /\ mLocks' = mLocks /\ length' = length
  BY ONLY Refinable!drain(t), Zenon DEF Refinable!drain, Refinable!Fixed, Refinable!lockVars
<1>4. Map!Goto(t, r)
  BY ONLY <1>2, Refinable!drain(t), Zenon
  DEF Refinable!drain, Refinable!Goto, Refinable!At, Map!Goto, Map!At
<1>5. /\ loc[t].locks = mLocks /\ i \in Indices /\ mRehash /\ 2 * loc[t].prev <= MaxSize
      /\ loc[t].prev = Map!Size
  BY ONLY <1>1, <1>3 DEF RefinableThread, Rehashing
<1>6. i \in Nat /\ i + 1 \in Nat /\ length[mLocks] \in Nat
  <2>1. i \in Nat /\ length[mLocks] \in 1 .. MaxSize
    BY ONLY <1>1, InUse DEF Locals
  <2> QED BY ONLY <2>1, SizesAssumption, SMTT(30)
<1>7. /\ r \in Locals /\ r.locks = loc[t].locks /\ r.prev = loc[t].prev
      /\ r.pc = IF more THEN "drain" ELSE "copy"
      /\ more => r.index = i + 1
  <2>1. "copy" \in Labels /\ 0 \in Nat
    BY ONLY DEF Labels
  <2>2. /\ [Map!At(t, "copy") EXCEPT !.index = 0] \in Locals
        /\ [loc[t] EXCEPT !.index = i + 1] \in Locals
    BY ONLY <1>1, <1>6, <2>1, Labelled
  <2>3. CASE ~ more
    <3>1. r = [Map!At(t, "copy") EXCEPT !.index = 0]
      BY ONLY <1>2, <2>3
    <3>2. SameFields(r, loc[t]) /\ r.pc = "copy"
      BY ONLY <1>1, <3>1, ResetFields
    <3> QED BY ONLY <2>2, <2>3, <3>1, <3>2 DEF SameFields
  <2>4. CASE more
    <3>1. r = [loc[t] EXCEPT !.index = i + 1]
      BY ONLY <1>2, <2>4
    <3>2. SameFields(r, loc[t]) /\ r.pc = loc[t].pc /\ r.index = i + 1
      BY ONLY <1>1, <3>1, NextFields
    <3> QED BY ONLY <1>3, <2>2, <2>4, <3>1, <3>2 DEF SameFields
  <2> QED BY ONLY <2>3, <2>4
<1>8. /\ loc' \in [MapThreads -> Locals] /\ loc'[t] = r
      /\ \A u \in MapThreads : u # t => loc'[u] = loc[u]
  BY ONLY <1>1, <1>4, <1>7, Moved
<1>9. loc'[t].pc \in {"copy", "drain"} /\ loc'[t].prev = loc[t].prev /\ loc'[t].locks = mLocks
  BY ONLY <1>5, <1>7, <1>8
<1>10. LocalInv(t)'
  BY ONLY <1>9 DEF LocalInv, Pending
<1>11. RefinableThread(t)'
  <2>1. Map!Size' = Map!Size /\ Indices' = Indices
    BY ONLY <1>3 DEF Map!Size, Indices
  <2>2. loc'[t].pc = "drain" => loc'[t].index \in Indices
    <3>1. loc'[t].pc = "drain" => loc'[t].index = i + 1 /\ i + 1 < length[mLocks]
      BY ONLY <1>5, <1>7, <1>8
    <3> QED BY ONLY <1>6, <3>1, SMTT(30) DEF Indices
  <2> QED BY ONLY <1>3, <1>5, <1>9, <2>1, <2>2 DEF RefinableThread, Inside, Rehashing
<1>12. ASSUME NEW u \in MapThreads, u # t PROVE Apart(t, u)' /\ Apart(u, t)'
  <2>1. loc[u].pc \in Checked /\ loc[u].locks = mLocks => loc'[t].pc = "drain" /\ loc'[t].index <= MyMutex(u)
    <3>1. SUFFICES ASSUME loc[u].pc \in Checked, loc[u].locks = mLocks
                   PROVE  loc'[t].pc = "drain" /\ loc'[t].index <= MyMutex(u)
      OBVIOUS
    <3>2. loc[u].pc \in Inside
      BY ONLY <3>1 DEF Checked, Inside
    <3>3. owners[<<mLocks, MyMutex(u)>>] = {u}
      BY ONLY <1>1, <3>1, <3>2 DEF RefinableThread
    <3>4. MyMutex(u) # i
      BY ONLY <1>3, <1>5, <3>3
    <3>5. MyMutex(u) \in 0 .. length[mLocks] - 1 /\ MyMutex(u) \in Nat
      BY ONLY <3>1, <3>2, MapInv, structure = "refinable", MutexInRange
    <3>6. i <= MyMutex(u)
      BY ONLY <1>1, <1>3, <3>1 DEF Apart
    <3>7. i + 1 <= MyMutex(u) /\ i + 1 < length[mLocks]
      BY ONLY <1>6, <3>4, <3>5, <3>6, SMTT(30)
    <3> QED BY ONLY <1>5, <1>7, <1>8, <3>7
  <2>2. /\ Apart(t, u) /\ loc'[u] = loc[u] /\ loc[t].pc \in Rehashing
        /\ loc'[t].pc \in {"drain", "copy", "swap", "publish"}
    BY ONLY <1>1, <1>3, <1>8, <1>9, <1>12 DEF Rehashing
  <2> QED BY ONLY <1>3, <2>1, <2>2, ApartRehashing
<1>13. /\ mRehash' \in BOOLEAN
       /\ \A u \in MapThreads : u # t /\ loc[u].pc \in Rehashing => mRehash'
       /\ loc[t].pc \notin Inside
  BY ONLY <1>1, <1>3, <1>5 DEF LocksInv, Inside
<1> QED
  BY ONLY <1>3, <1>8, <1>10, <1>11, <1>12, <1>13, MapInv, structure = "refinable",
          structure' = structure, RefinableMoves

(* Nobody works on the buckets or rehashes while t moves the elements.     *)
LEMMA AloneWithTheElements ==
  ASSUME MapInv, structure = "refinable", NEW t \in MapThreads, NEW u \in MapThreads, u # t,
         loc[t].pc \in {"copy", "swap", "publish"}
  PROVE  /\ loc[u].pc \notin Rehashing /\ loc[u].pc \notin {"index", "access"}
         /\ loc[u].pc \in Checked => loc[u].locks # mLocks
<1>1. Apart(u, t) /\ RefinableThread(u)
  BY ONLY MapInv, structure = "refinable", RefinableParts
<1>2. loc[t].pc \in Rehashing
  BY ONLY loc[t].pc \in {"copy", "swap", "publish"} DEF Rehashing
<1>3. loc[u].pc \notin Rehashing
  BY ONLY <1>2, u # t, MapInv, structure = "refinable", OneRehashes
<1>4. loc[u].pc \in Checked => loc[u].locks # mLocks
  BY ONLY <1>1, loc[t].pc \in {"copy", "swap", "publish"} DEF Apart
<1>5. loc[u].pc \notin {"index", "access"}
  BY ONLY <1>1, <1>4 DEF RefinableThread, Checked
<1> QED BY ONLY <1>3, <1>4, <1>5

LEMMA RefinableCopy ==
  ASSUME MapInv, structure = "refinable", structure' = structure, NEW t \in MapThreads,
         Map!copy(t)
  PROVE  MapInv'
<1>1. /\ loc \in [MapThreads -> Locals] /\ LocksInv /\ loc[t] \in Locals /\ BucketsInv
      /\ RefinableThread(t) /\ \A u \in MapThreads : Apart(t, u)
  BY ONLY MapInv, structure = "refinable", RefinableParts
<1>2. PICK r : r = [Map!At(t, "swap") EXCEPT !.new = Spread(2 * loc[t].prev)]
  OBVIOUS
<1>3. /\ loc[t].pc = "copy" /\ mBuckets' = mBuckets /\ mSize' = mSize
      /\ UNCHANGED <<mLocks, length, slot, status, holders>> /\ mRehash' = mRehash
      /\ mLocks' = mLocks /\ length' = length /\ owners' = owners
      /\ Map!Goto(t, r)
  BY ONLY Map!copy(t), <1>2 DEF Map!copy, Map!lockVars, Spread
<1>4. /\ r \in Locals /\ r.pc = "swap" /\ r.prev = loc[t].prev /\ r.locks = loc[t].locks
      /\ r.new = Spread(2 * loc[t].prev)
  BY ONLY <1>1, <1>2, CopyTyped
<1>5. /\ loc' \in [MapThreads -> Locals] /\ loc'[t] = r
      /\ \A u \in MapThreads : u # t => loc'[u] = loc[u]
  BY ONLY <1>1, <1>3, <1>4, Moved
<1>6. LocalInv(t)'
  BY ONLY <1>4, <1>5 DEF LocalInv, Pending
<1>7. loc[t].pc \in Rehashing /\ loc[t].pc \notin Inside
  BY ONLY <1>3 DEF Rehashing, Inside
<1>8. /\ loc[t].locks = mLocks /\ mRehash /\ 2 * loc[t].prev <= MaxSize
      /\ loc[t].prev = Map!Size
  BY ONLY <1>1, <1>3, <1>7 DEF RefinableThread
<1>9. RefinableThread(t)'
  <2>1. Map!Size' = Map!Size
    BY ONLY <1>3 DEF Map!Size
  <2>2. r.new = Spread(2 * r.prev)'
    BY ONLY <1>3, <1>4 DEF Spread
  <2>3. /\ loc'[t].pc = "swap" /\ loc'[t].prev = loc[t].prev /\ loc'[t].locks = mLocks'
        /\ mRehash'
    BY ONLY <1>3, <1>4, <1>5, <1>8
  <2> QED BY ONLY <1>4, <1>5, <1>8, <2>1, <2>2, <2>3 DEF RefinableThread, Inside, Rehashing
<1>10. ASSUME NEW u \in MapThreads, u # t PROVE Apart(t, u)' /\ Apart(u, t)'
  <2>1. ~ (loc[u].pc \in Checked /\ loc[u].locks = mLocks)
    BY ONLY <1>3, <1>10, MapInv, structure = "refinable", AloneWithTheElements
  <2>2. /\ Apart(t, u) /\ loc'[u] = loc[u]
        /\ loc'[t].pc \in {"drain", "copy", "swap", "publish"}
    BY ONLY <1>1, <1>4, <1>5, <1>10
  <2> QED BY ONLY <1>3, <1>7, <2>1, <2>2, ApartRehashing
<1>11. /\ mRehash' \in BOOLEAN
       /\ \A u \in MapThreads : u # t /\ loc[u].pc \in Rehashing => mRehash'
  BY ONLY <1>1, <1>3, <1>8 DEF LocksInv
<1> QED
  BY ONLY <1>3, <1>5, <1>6, <1>7, <1>9, <1>10, <1>11, MapInv, structure = "refinable",
          structure' = structure, RefinableMoves

LEMMA RefinableSwap ==
  ASSUME MapInv, structure = "refinable", structure' = structure, NEW t \in MapThreads,
         Map!swap(t, "publish")
  PROVE  MapInv'
<1>1. /\ loc \in [MapThreads -> Locals] /\ LocksInv /\ loc[t] \in Locals /\ BucketsInv
      /\ RefinableThread(t) /\ OwnersInside
      /\ \A u \in MapThreads : LocalInv(u) /\ RefinableThread(u) /\ Apart(t, u)
  BY ONLY MapInv, structure = "refinable", RefinableParts
<1>2. PICK r : r = [Map!At(t, "publish") EXCEPT !.new = <<>>]
  OBVIOUS
<1>3. /\ loc[t].pc = "swap" /\ mBuckets' = loc[t].new /\ mSize' = mSize
      /\ UNCHANGED OtherLocks /\ mLocks' = mLocks /\ length' = length /\ owners' = owners
      /\ UNCHANGED <<slot, status, holders>> /\ mRehash' = mRehash
      /\ Map!Goto(t, r)
  BY ONLY Map!swap(t, "publish"), <1>2 DEF Map!swap, OtherLocks, Map!lockVars
<1>4. r \in Locals /\ r.pc = "publish" /\ r.prev = loc[t].prev /\ r.locks = loc[t].locks
  <2>1. "publish" \in Labels
    BY ONLY DEF Labels
  <2> QED BY ONLY <2>1, <1>1, <1>2, SwapTyped
<1>5. /\ loc' \in [MapThreads -> Locals] /\ loc'[t] = r
      /\ \A u \in MapThreads : u # t => loc'[u] = loc[u]
  BY ONLY <1>1, <1>3, <1>4, Moved
<1>6. loc[t].pc \in Rehashing /\ loc[t].pc \notin Inside
  BY ONLY <1>3 DEF Rehashing, Inside
<1>7. /\ loc[t].new = Spread(2 * loc[t].prev) /\ loc[t].prev = Map!Size
      /\ 2 * loc[t].prev <= MaxSize /\ loc[t].locks = mLocks /\ mRehash
  BY ONLY <1>1, <1>3, <1>6 DEF RefinableThread
<1>8. BucketsInv' /\ Map!Size' = 2 * Map!Size
  BY ONLY <1>1, <1>3, <1>7, structure' = structure, SwapBuckets
<1>9. LocksInv'
  BY ONLY <1>1, <1>3, LocksKept
<1>10. LocalInv(t)'
  BY ONLY <1>4, <1>5 DEF LocalInv, Pending
<1>11. RefinableThread(t)'
  BY ONLY <1>3, <1>4, <1>5, <1>7, <1>8 DEF RefinableThread, Inside, Rehashing
<1>12. ASSUME NEW u \in MapThreads, u # t
       PROVE  /\ loc[u].pc \notin Rehashing /\ loc[u].pc \notin {"index", "access"}
              /\ loc[u].pc \in Checked => loc[u].locks # mLocks
  BY ONLY <1>3, <1>12, MapInv, structure = "refinable", AloneWithTheElements
<1>13. ASSUME NEW u \in MapThreads, u # t PROVE Undisturbed(u) /\ LocalInv(u)'
  <2>1. loc'[u] = loc[u] /\ RefinableThread(u) /\ LocalInv(u)
    BY ONLY <1>1, <1>5, <1>13
  <2>2. loc[u].pc \in {"lock", "recheckFlag", "recheckLocks"} => Protected(u)'
    BY ONLY <1>3, <2>1, ProtectedKept DEF RefinableThread
  <2>3. loc[u].pc \in Inside =>
          /\ length'[loc[u].locks] = length[loc[u].locks]
          /\ owners'[<<loc[u].locks, MyMutex(u)>>] = {u}
    BY ONLY <1>3, <2>1 DEF RefinableThread
  <2>4. loc[u].pc \in {"open", "retire"} =>
          loc[u].locks # mLocks' /\ status'[loc[u].locks] = "live"
    BY ONLY <1>3, <2>1 DEF RefinableThread
  <2>5. loc[u].pc \notin Rehashing
    BY ONLY <1>12, <1>13
  <2>6. Undisturbed(u)
    BY ONLY <1>3, <2>1, <2>2, <2>3, <2>4, <2>5 DEF Undisturbed, Rehashing
  <2>7. LocalInv(u)'
    BY ONLY <1>12, <1>13, <2>1 DEF LocalInv
  <2> QED BY ONLY <2>6, <2>7
<1>14. OwnersInside'
  <2>1. /\ \A x \in DOMAIN owners : \A u \in owners'[x] : u # t => u \in owners[x]
        /\ \A x \in DOMAIN owners : t \notin owners'[x]
        /\ \A u \in MapThreads : u # t => Undisturbed(u)
    BY ONLY <1>1, <1>3, <1>6, <1>13 DEF OwnersInside
  <2> QED BY ONLY <1>1, <1>9, <2>1, OwnersKept
<1>15. ASSUME NEW u \in MapThreads, u # t PROVE Apart(t, u)' /\ Apart(u, t)'
  <2>1. ~ (loc[u].pc \in Checked /\ loc[u].locks = mLocks)
    BY ONLY <1>12, <1>15
  <2>2. /\ Apart(t, u) /\ loc'[u] = loc[u]
        /\ loc'[t].pc \in {"drain", "copy", "swap", "publish"}
    BY ONLY <1>1, <1>4, <1>5, <1>15
  <2> QED BY ONLY <1>3, <1>6, <2>1, <2>2, ApartRehashing
<1> QED
  BY ONLY <1>3, <1>5, <1>8, <1>9, <1>10, <1>11, <1>13, <1>14, <1>15, MapInv,
          structure = "refinable", structure' = structure, RefinableStep

(* The new array of mutexes, where there was nothing.                      *)
LEMMA RefinablePublish ==
  ASSUME MapInv, structure = "refinable", structure' = structure, NEW t \in MapThreads,
         Refinable!publish(t)
  PROVE  MapInv'
<1>1. /\ loc \in [MapThreads -> Locals] /\ LocksInv /\ loc[t] \in Locals /\ BucketsInv
      /\ RefinableThread(t) /\ OwnersInside
      /\ \A u \in MapThreads : LocalInv(u) /\ RefinableThread(u) /\ Apart(t, u) /\ Apart(u, t)
  BY ONLY MapInv, structure = "refinable", RefinableParts
<1>2. /\ loc[t].pc = "publish" /\ mBuckets' = mBuckets /\ mSize' = mSize
      /\ owners' = owners /\ mRehash' = mRehash
      /\ Map!Goto(t, Map!At(t, "open"))
  BY ONLY Refinable!publish(t)
  DEF Refinable!publish, Refinable!Goto, Refinable!At, Refinable!Fixed, Map!Goto, Map!At
<1>3. PICK p \in Ptrs : /\ status[p] = "free" /\ status' = [status EXCEPT ![p] = "live"]
                        /\ UNCHANGED <<slot, holders>>
                        /\ mLocks' = p /\ length' = [length EXCEPT ![p] = 2 * loc[t].prev]
  BY ONLY Refinable!publish(t) DEF Refinable!publish, Refinable!R!Allocate
<1>4. "open" \in Labels /\ loc[t].pc \in Rehashing /\ loc[t].pc \notin Inside
  BY ONLY <1>2 DEF Labels, Rehashing, Inside
<1>5. /\ loc' \in [MapThreads -> Locals] /\ loc'[t].pc = "open"
      /\ loc'[t].locks = loc[t].locks
      /\ \A u \in MapThreads : u # t => loc'[u] = loc[u]
  BY ONLY <1>1, <1>2, <1>4, Relabels DEF SameFields
<1>6. loc[t].locks = mLocks /\ mRehash /\ 2 * loc[t].prev = Map!Size
  BY ONLY <1>1, <1>2, <1>4 DEF RefinableThread
<1>7. /\ status \in [Ptrs -> {"free", "live", "retired"}] /\ length \in [Ptrs -> 0 .. MaxSize]
      /\ mLocks \in Ptrs /\ status[mLocks] = "live" /\ length[p] = 0
      /\ \A q \in Ptrs : length[q] > 0 <=> status[q] # "free"
  BY ONLY <1>1, <1>3, SizesAssumption, SMTT(30) DEF LocksInv, Map!R!ReclamationTypeOK
<1>8. /\ \A q \in Ptrs : q # p => status'[q] = status[q] /\ length'[q] = length[q]
      /\ status'[p] = "live" /\ length'[p] = Map!Size /\ p # mLocks
  BY ONLY <1>3, <1>6, <1>7
<1>9. BucketsInv' /\ Map!Size' = Map!Size
  BY ONLY <1>1, <1>2, structure' = structure, SameBuckets
<1>10. LocksInv'
  <2>1. Map!R!ReclamationTypeOK'
    <3>1. status' \in [Ptrs -> {"free", "live", "retired"}]
      BY ONLY <1>3, <1>7
    <3> QED BY ONLY <1>1, <1>3, <3>1 DEF LocksInv, Map!R!ReclamationTypeOK
  <2>2. Map!Size \in 1 .. MaxSize
    BY ONLY <1>1 DEF BucketsInv
  <2>3. length' \in [Ptrs -> 0 .. MaxSize]
    <3>1. Map!Size \in 0 .. MaxSize
      BY ONLY <2>2, SizesAssumption, SMTT(30)
    <3> QED BY ONLY <1>3, <1>6, <1>7, <3>1
  <2>4. \A q \in Ptrs : length'[q] > 0 <=> status'[q] # "free"
    <3>1. length'[p] > 0
      BY ONLY <1>8, <2>2, SizesAssumption, SMTT(30)
    <3> QED BY ONLY <1>7, <1>8, <3>1
  <2>5. \A x \in DOMAIN owners : owners[x] # {} => x[2] < length'[x[1]]
    <3>1. SUFFICES ASSUME NEW x \in DOMAIN owners, owners[x] # {}
                   PROVE  x[2] < length'[x[1]]
      OBVIOUS
    <3>2. x[2] < length[x[1]] /\ x[1] \in Ptrs /\ x[2] \in 0 .. MaxSize - 1
      BY ONLY <1>1, <3>1 DEF LocksInv
    <3>3. x[1] # p
      BY ONLY <1>7, <3>2, SizesAssumption, SMTT(30)
    <3> QED BY ONLY <1>8, <3>2, <3>3
  <2>6. owners' \in [Ptrs \X (0 .. MaxSize - 1) -> SUBSET MapThreads] /\ mRehash' \in BOOLEAN
    BY ONLY <1>1, <1>2 DEF LocksInv
  <2>7. mLocks' \in Ptrs /\ status'[mLocks'] = "live"
    BY ONLY <1>3, <1>8
  <2>8. \A x \in DOMAIN owners' : owners'[x] # {} => x[2] < length'[x[1]]
    BY ONLY <1>2, <2>5
  <2> QED BY ONLY <2>1, <2>3, <2>4, <2>6, <2>7, <2>8 DEF LocksInv
<1>11. LocalInv(t)'
  BY ONLY <1>5 DEF LocalInv, Pending
<1>12. RefinableThread(t)'
  <2>1. loc'[t].locks \in Ptrs \ {mLocks'} /\ status'[loc'[t].locks] = "live"
    BY ONLY <1>3, <1>5, <1>6, <1>7, <1>8
  <2> QED BY ONLY <1>2, <1>5, <1>6, <2>1 DEF RefinableThread, Inside, Rehashing
<1>13. ASSUME NEW u \in MapThreads, u # t
       PROVE  /\ loc[u].pc \notin Rehashing /\ loc[u].pc \notin {"index", "access"}
              /\ loc[u].pc \in {"lock"} \cup Inside => loc[u].locks \in Ptrs \ {p}
  <2>1. loc[u].pc \in {"lock"} \cup Inside =>
          loc[u].locks \in Ptrs /\ status[loc[u].locks] # "free"
    BY ONLY MapInv, structure = "refinable", MutexInRange
  <2>2. loc[u].pc \notin Rehashing /\ loc[u].pc \notin {"index", "access"}
    BY ONLY <1>2, <1>13, MapInv, structure = "refinable", AloneWithTheElements
  <2> QED BY ONLY <1>3, <2>1, <2>2
<1>14. ASSUME NEW u \in MapThreads, u # t PROVE Undisturbed(u)
  <2>1. loc'[u] = loc[u] /\ RefinableThread(u)
    BY ONLY <1>1, <1>5, <1>14
  <2>2. loc[u].pc \in {"lock", "recheckFlag", "recheckLocks"} => Protected(u)'
    <3>1. loc[u].pc \in {"lock", "recheckFlag", "recheckLocks"} => loc[u].locks \in Ptrs \ {p}
      BY ONLY <1>13, <1>14 DEF Inside
    <3>2. loc[u].pc \in {"lock", "recheckFlag", "recheckLocks"} => Protected(u)
      BY ONLY <2>1 DEF RefinableThread
    <3> QED BY ONLY <1>3, <1>8, <2>1, <3>1, <3>2 DEF Protected
  <2>3. loc[u].pc \in Inside =>
          /\ length'[loc[u].locks] = length[loc[u].locks]
          /\ owners'[<<loc[u].locks, MyMutex(u)>>] = {u}
    BY ONLY <1>2, <1>8, <1>13, <1>14, <2>1 DEF RefinableThread
  <2>4. loc[u].pc \in {"open", "retire"} =>
          loc[u].locks # mLocks' /\ status'[loc[u].locks] = "live"
    BY ONLY <1>3, <1>8, <2>1 DEF RefinableThread
  <2>5. loc[u].pc \notin Rehashing /\ loc[u].pc \notin {"index", "access"}
    BY ONLY <1>13, <1>14
  <2> QED BY ONLY <2>1, <2>2, <2>3, <2>4, <2>5 DEF Undisturbed, Rehashing
<1>15. \A u \in MapThreads : u # t => LocalInv(u)'
  BY ONLY <1>1, <1>5, <1>9, SameLocal
<1>16. OwnersInside'
  <2>1. /\ \A x \in DOMAIN owners : \A u \in owners'[x] : u # t => u \in owners[x]
        /\ \A x \in DOMAIN owners : t \notin owners'[x]
        /\ \A u \in MapThreads : u # t => Undisturbed(u)
    BY ONLY <1>1, <1>2, <1>4, <1>14 DEF OwnersInside
  <2> QED BY ONLY <1>1, <1>10, <2>1, OwnersKept
<1>17. ASSUME NEW u \in MapThreads, u # t PROVE Apart(t, u)' /\ Apart(u, t)'
  <2>1. /\ loc'[u] = loc[u] /\ loc[u].pc \notin Rehashing
        /\ loc[u].pc \in {"open", "retire"} => loc[u].locks # mLocks
    BY ONLY <1>1, <1>5, <1>13, <1>17 DEF RefinableThread
  <2> QED BY ONLY <1>5, <1>6, <2>1 DEF Apart, Checked, Rehashing
<1>18. \A u \in MapThreads : u # t /\ loc[u].pc \in Checked /\ loc[u].locks = mLocks' =>
         mLocks' = mLocks /\ length'[loc[u].locks] = length[loc[u].locks]
  BY ONLY <1>3, <1>13 DEF Checked, Inside
<1> QED
  BY ONLY <1>5, <1>9, <1>10, <1>11, <1>12, <1>14, <1>15, <1>16, <1>17, <1>18, MapInv,
          structure = "refinable", structure' = structure, RefinableStep

LEMMA RefinableOpen ==
  ASSUME MapInv, structure = "refinable", structure' = structure, NEW t \in MapThreads,
         Refinable!open(t)
  PROVE  MapInv'
<1>1. /\ loc \in [MapThreads -> Locals] /\ LocksInv /\ loc[t] \in Locals
      /\ RefinableThread(t)
      /\ \A u \in MapThreads : Apart(t, u) /\ Apart(u, t)
  BY ONLY MapInv, structure = "refinable", RefinableParts
<1>2. /\ loc[t].pc = "open" /\ mRehash' = FALSE
      /\ mBuckets' = mBuckets /\ mSize' = mSize /\ owners' = owners
      /\ UNCHANGED <<mLocks, length, slot, status, holders>>
      /\ Map!Goto(t, Map!At(t, "retire"))
  BY ONLY Refinable!open(t)
  DEF Refinable!open, Refinable!Goto, Refinable!At, Refinable!Fixed, Map!Goto, Map!At
<1>3. "retire" \in Labels /\ loc[t].pc \in Rehashing /\ loc[t].pc \notin Inside
  BY ONLY <1>2 DEF Labels, Rehashing, Inside
<1>4. /\ loc' \in [MapThreads -> Locals] /\ loc'[t].pc = "retire"
      /\ loc'[t].locks = loc[t].locks
      /\ \A u \in MapThreads : u # t => loc'[u] = loc[u]
  BY ONLY <1>1, <1>2, <1>3, Relabels DEF SameFields
<1>5. \A u \in MapThreads : u # t => loc[u].pc \notin Rehashing
  BY ONLY <1>3, MapInv, structure = "refinable", OneRehashes
<1>6. /\ mRehash' \in BOOLEAN
      /\ \A u \in MapThreads : u # t /\ loc[u].pc \in Rehashing => mRehash'
  BY ONLY <1>2, <1>5
<1>7. LocalInv(t)'
  BY ONLY <1>4 DEF LocalInv, Pending
<1>8. RefinableThread(t)'
  <2>1. loc[t].locks \in Ptrs \ {mLocks} /\ status[loc[t].locks] = "live"
    BY ONLY <1>1, <1>2 DEF RefinableThread
  <2>2. loc'[t].locks \in Ptrs \ {mLocks'} /\ status'[loc'[t].locks] = "live"
    BY ONLY <1>2, <1>4, <2>1
  <2> QED BY ONLY <1>4, <2>2 DEF RefinableThread, Inside, Rehashing
<1>9. ASSUME NEW u \in MapThreads, u # t PROVE Apart(t, u)' /\ Apart(u, t)'
  <2>1. /\ loc'[u] = loc[u]
        /\ loc[u].pc \in {"open", "retire"} => loc[u].locks # loc[t].locks
    BY ONLY <1>1, <1>2, <1>4, <1>9 DEF Apart
  <2> QED BY ONLY <1>4, <2>1 DEF Apart, Checked, Rehashing
<1> QED
  BY ONLY <1>2, <1>3, <1>4, <1>6, <1>7, <1>8, <1>9, MapInv, structure = "refinable",
          structure' = structure, RefinableMoves

(* The old array goes to the domain, which knows who still refers to it.   *)
LEMMA RefinableRetire ==
  ASSUME MapInv, structure = "refinable", structure' = structure, NEW t \in MapThreads,
         Refinable!retire(t)
  PROVE  MapInv'
<1>1. /\ loc \in [MapThreads -> Locals] /\ LocksInv /\ loc[t] \in Locals /\ BucketsInv
      /\ RefinableThread(t) /\ OwnersInside
      /\ \A u \in MapThreads : LocalInv(u) /\ RefinableThread(u) /\ Apart(t, u)
  BY ONLY MapInv, structure = "refinable", RefinableParts
<1> DEFINE q == loc[t].locks
<1>2. /\ loc[t].pc = "retire" /\ mBuckets' = mBuckets /\ mSize' = mSize
      /\ mLocks' = mLocks /\ length' = length /\ owners' = owners /\ mRehash' = mRehash
      /\ slot' = slot
      /\ status' = [status EXCEPT ![q] = IF @ = "live" THEN "retired" ELSE "broken"]
      /\ holders' = [holders EXCEPT ![q] = {o \in MapThreads : slot[o] = q}]
      /\ Map!Goto(t, Map!Done(t, NoValue))
  BY ONLY Refinable!retire(t)
  DEF Refinable!retire, Refinable!Goto, Refinable!Done, Refinable!Away, Refinable!Fixed,
      Refinable!R!Retire, Map!Goto, Map!Done, Map!Away
<1>3. Map!Done(t, NoValue) \in Locals /\ Map!Done(t, NoValue).pc = "done"
  <2>1. NoValue \in Values \cup {NoValue} \cup Snapshot
    OBVIOUS
  <2> QED BY ONLY <1>1, <2>1, DoneTyped
<1>4. /\ loc' \in [MapThreads -> Locals] /\ loc'[t].pc = "done"
      /\ \A u \in MapThreads : u # t => loc'[u] = loc[u]
  BY ONLY <1>1, <1>2, <1>3, Moved
<1>5. q \in Ptrs /\ q # mLocks /\ status[q] = "live"
  BY ONLY <1>1, <1>2 DEF RefinableThread
<1>6. /\ status \in [Ptrs -> {"free", "live", "retired"}]
      /\ slot \in [MapThreads -> Ptrs \cup {NoPtr}]
      /\ holders \in [Ptrs -> SUBSET MapThreads]
  BY ONLY <1>1 DEF LocksInv, Map!R!ReclamationTypeOK
<1> HIDE DEF q
<1>17. status' = [status EXCEPT ![q] = "retired"]
  BY ONLY <1>2, <1>5
<1>7. /\ status'[q] = "retired" /\ \A u \in MapThreads : slot[u] = q => u \in holders'[q]
      /\ \A p \in Ptrs : p # q => status'[p] = status[p] /\ holders'[p] = holders[p]
  BY ONLY <1>2, <1>5, <1>6
<1>8. BucketsInv' /\ Map!Size' = Map!Size
  BY ONLY <1>1, <1>2, structure' = structure, SameBuckets
<1>9. LocksInv'
  <2>1. Map!R!ReclamationTypeOK'
    <3>1. {o \in MapThreads : slot[o] = q} \in SUBSET MapThreads
      OBVIOUS
    <3> QED BY ONLY <1>2, <1>6, <1>17, <3>1 DEF Map!R!ReclamationTypeOK
  <2>2. \A p \in Ptrs : length'[p] > 0 <=> status'[p] # "free"
    <3>1. \A p \in Ptrs : status'[p] = "free" <=> status[p] = "free"
      BY ONLY <1>5, <1>7
    <3> QED BY ONLY <1>1, <1>2, <3>1 DEF LocksInv
  <2>3. mLocks' \in Ptrs /\ status'[mLocks'] = "live"
    BY ONLY <1>1, <1>2, <1>5, <1>7 DEF LocksInv
  <2> QED BY ONLY <1>1, <1>2, <2>1, <2>2, <2>3 DEF LocksInv
<1>10. LocalInv(t)'
  BY ONLY <1>4 DEF LocalInv, Pending
<1>11. RefinableThread(t)'
  BY ONLY <1>4 DEF RefinableThread, Inside, Rehashing
<1>12. ASSUME NEW u \in MapThreads, u # t PROVE Undisturbed(u)
  <2>1. loc'[u] = loc[u] /\ RefinableThread(u) /\ Apart(t, u)
    BY ONLY <1>1, <1>4, <1>12
  <2>2. loc[u].pc \in {"lock", "recheckFlag", "recheckLocks"} => Protected(u)'
    <3>1. loc[u].pc \in {"lock", "recheckFlag", "recheckLocks"} => Protected(u)
      BY ONLY <2>1 DEF RefinableThread
    <3>2. CASE loc[u].locks = q
      BY ONLY <1>2, <1>5, <1>7, <2>1, <3>1, <3>2 DEF Protected
    <3>3. CASE loc[u].locks # q
      BY ONLY <1>2, <1>7, <2>1, <3>1, <3>3 DEF Protected
    <3> QED BY ONLY <3>2, <3>3
  <2>3. loc[u].pc \in Inside =>
          /\ length'[loc[u].locks] = length[loc[u].locks]
          /\ owners'[<<loc[u].locks, MyMutex(u)>>] = {u}
    BY ONLY <1>2, <2>1 DEF RefinableThread
  <2>4. loc[u].pc \in {"open", "retire"} =>
          loc[u].locks # mLocks' /\ status'[loc[u].locks] = "live"
    <3>1. loc[u].pc \in {"open", "retire"} => loc[u].locks # q
      BY ONLY <1>2, <1>12, <2>1 DEF Apart, q
    <3> QED BY ONLY <1>2, <1>7, <2>1, <3>1 DEF RefinableThread
  <2>5. loc[u].pc \in Rehashing => mRehash'
    BY ONLY <1>2, <2>1 DEF RefinableThread
  <2> QED BY ONLY <1>2, <1>8, <2>1, <2>2, <2>3, <2>4, <2>5 DEF Undisturbed
<1>13. \A u \in MapThreads : u # t => LocalInv(u)'
  BY ONLY <1>1, <1>4, <1>8, SameLocal
<1>14. OwnersInside'
  <2>1. /\ \A x \in DOMAIN owners : \A u \in owners'[x] : u # t => u \in owners[x]
        /\ \A x \in DOMAIN owners : t \notin owners'[x]
        /\ \A u \in MapThreads : u # t => Undisturbed(u)
    BY ONLY <1>1, <1>2, <1>12 DEF OwnersInside, Inside
  <2> QED BY ONLY <1>1, <1>9, <2>1, OwnersKept
<1>15. \A u \in MapThreads : u # t => Apart(t, u)' /\ Apart(u, t)'
  <2>1. loc'[t].pc \notin Rehashing \cup Checked \cup {"retire"}
    BY ONLY <1>4 DEF Rehashing, Checked
  <2> QED BY ONLY <2>1, ApartOutside
<1>16. \A u \in MapThreads : u # t /\ loc[u].pc \in Checked /\ loc[u].locks = mLocks' =>
         mLocks' = mLocks /\ length'[loc[u].locks] = length[loc[u].locks]
  BY ONLY <1>2
<1> QED
  BY ONLY <1>4, <1>8, <1>9, <1>10, <1>11, <1>12, <1>13, <1>14, <1>15, <1>16, MapInv,
          structure = "refinable", structure' = structure, RefinableStep

(* An array that is deleted is nobody's: not in use, not protected by a    *)
(* hazard pointer, and none of its mutexes is held.                        *)
LEMMA RefinableDeleter ==
  ASSUME MapInv, structure = "refinable", structure' = structure, NEW p \in Ptrs,
         Refinable!deleter(p)
  PROVE  MapInv'
<1>1. /\ loc \in [MapThreads -> Locals] /\ LocksInv /\ BucketsInv /\ OwnersInside
      /\ \A u \in MapThreads : LocalInv(u) /\ RefinableThread(u)
      /\ \A u, v \in MapThreads : Apart(u, v)
  BY ONLY MapInv, structure = "refinable" DEF MapInv, RefinableInv
<1>2. /\ mBuckets' = mBuckets /\ mSize' = mSize /\ mLocks' = mLocks /\ owners' = owners
      /\ mRehash' = mRehash /\ loc' = loc /\ slot' = slot /\ holders' = holders
      /\ status[p] = "retired" /\ holders[p] = {}
      /\ status' = [status EXCEPT ![p] = "free"] /\ length' = [length EXCEPT ![p] = 0]
  BY ONLY Refinable!deleter(p) DEF Refinable!deleter, Refinable!R!Free, Refinable!Fixed
<1>3. /\ status \in [Ptrs -> {"free", "live", "retired"}] /\ length \in [Ptrs -> 0 .. MaxSize]
      /\ mLocks \in Ptrs /\ status[mLocks] = "live"
      /\ \A q \in Ptrs : length[q] > 0 <=> status[q] # "free"
  BY ONLY <1>1 DEF LocksInv, Map!R!ReclamationTypeOK
<1>4. /\ \A q \in Ptrs : q # p => status'[q] = status[q] /\ length'[q] = length[q]
      /\ status'[p] = "free" /\ length'[p] = 0 /\ p # mLocks
  BY ONLY <1>2, <1>3
<1>5. ASSUME NEW u \in MapThreads, loc[u].pc \in {"lock"} \cup Inside
      PROVE  loc[u].locks \in Ptrs \ {p}
  <2>1. loc[u].locks \in Ptrs
    BY ONLY <1>5, MapInv, structure = "refinable", MutexInRange
  <2>2. CASE loc[u].pc \in {"lock", "recheckFlag", "recheckLocks"}
    <3>1. Protected(u)
      BY ONLY <1>1, <2>2 DEF RefinableThread
    <3> QED BY ONLY <1>2, <2>1, <3>1 DEF Protected
  <2>3. CASE loc[u].pc \in {"index", "access"}
    BY ONLY <1>1, <1>4, <2>1, <2>3 DEF RefinableThread
  <2> QED BY ONLY <1>5, <2>2, <2>3 DEF Inside
<1>6. ASSUME NEW x \in DOMAIN owners, owners[x] # {} PROVE x[1] \in Ptrs \ {p}
  <2>1. PICK u \in MapThreads : u \in owners[x]
    BY ONLY <1>1, <1>6 DEF LocksInv
  <2>2. loc[u].pc \in Inside /\ x = <<loc[u].locks, MyMutex(u)>>
    BY ONLY <1>1, <2>1 DEF OwnersInside
  <2>3. loc[u].locks \in Ptrs \ {p}
    BY ONLY <1>5, <2>2
  <2> QED BY ONLY <2>2, <2>3
<1>7. BucketsInv' /\ Map!Size' = Map!Size
  BY ONLY <1>1, <1>2, structure' = structure, SameBuckets
<1>8. LocksInv'
  <2>1. Map!R!ReclamationTypeOK'
    <3>1. status' \in [Ptrs -> {"free", "live", "retired"}]
      BY ONLY <1>2, <1>3
    <3> QED BY ONLY <1>1, <1>2, <3>1 DEF LocksInv, Map!R!ReclamationTypeOK
  <2>2. length' \in [Ptrs -> 0 .. MaxSize]
    <3>1. 0 \in 0 .. MaxSize
      BY ONLY SizesAssumption, SMTT(30)
    <3> QED BY ONLY <1>2, <1>3, <3>1
  <2>3. \A q \in Ptrs : length'[q] > 0 <=> status'[q] # "free"
    <3>1. ~ (length'[p] > 0)
      BY ONLY <1>4, SMTT(30)
    <3> QED BY ONLY <1>3, <1>4, <3>1
  <2>4. \A x \in DOMAIN owners' : owners'[x] # {} => x[2] < length'[x[1]]
    <3>1. \A x \in DOMAIN owners : owners[x] # {} => x[2] < length[x[1]]
      BY ONLY <1>1 DEF LocksInv
    <3> QED BY ONLY <1>2, <1>4, <1>6, <3>1
  <2>5. owners' \in [Ptrs \X (0 .. MaxSize - 1) -> SUBSET MapThreads] /\ mRehash' \in BOOLEAN
    BY ONLY <1>1, <1>2 DEF LocksInv
  <2>6. mLocks' \in Ptrs /\ status'[mLocks'] = "live"
    BY ONLY <1>2, <1>3, <1>4
  <2> QED BY ONLY <2>1, <2>2, <2>3, <2>4, <2>5, <2>6 DEF LocksInv
<1>9. ASSUME NEW u \in MapThreads PROVE Undisturbed(u)
  <2>1. loc'[u] = loc[u] /\ RefinableThread(u)
    BY ONLY <1>1, <1>2
  <2>2. loc[u].pc \in {"lock", "recheckFlag", "recheckLocks"} => Protected(u)'
    <3>1. loc[u].pc \in {"lock", "recheckFlag", "recheckLocks"} => loc[u].locks \in Ptrs \ {p}
      BY ONLY <1>5 DEF Inside
    <3>2. loc[u].pc \in {"lock", "recheckFlag", "recheckLocks"} => Protected(u)
      BY ONLY <2>1 DEF RefinableThread
    <3> QED BY ONLY <1>2, <1>4, <2>1, <3>1, <3>2 DEF Protected
  <2>3. loc[u].pc \in Inside =>
          /\ length'[loc[u].locks] = length[loc[u].locks]
          /\ owners'[<<loc[u].locks, MyMutex(u)>>] = {u}
    BY ONLY <1>2, <1>4, <1>5, <2>1 DEF RefinableThread
  <2>4. loc[u].pc \in {"open", "retire"} =>
          loc[u].locks # mLocks' /\ status'[loc[u].locks] = "live"
    BY ONLY <1>2, <1>4, <2>1 DEF RefinableThread
  <2>5. loc[u].pc \in Rehashing => mRehash'
    BY ONLY <1>2, <2>1 DEF RefinableThread
  <2>6. length'[mLocks] = length[mLocks]
    BY ONLY <1>3, <1>4
  <2> QED BY ONLY <1>2, <1>7, <2>1, <2>2, <2>3, <2>4, <2>5, <2>6 DEF Undisturbed
<1>10. \A u \in MapThreads : RefinableThread(u)' /\ LocalInv(u)'
  BY ONLY <1>1, <1>2, <1>7, <1>9, RefinableOther, SameLocal
<1>11. OwnersInside'
  <2>1. ASSUME NEW x \in DOMAIN owners, NEW u \in owners'[x]
        PROVE  loc'[u].pc \in Inside /\ x = <<loc'[u].locks, MyMutex(u)'>>
    <3>1. u \in owners[x] /\ loc' = loc
      BY ONLY <1>2, <2>1
    <3>2. loc[u].pc \in Inside /\ x = <<loc[u].locks, MyMutex(u)>> /\ u \in MapThreads
      BY ONLY <1>1, <3>1 DEF OwnersInside, LocksInv
    <3>3. MyMutex(u)' = MyMutex(u)
      BY ONLY <1>9, <3>1, <3>2 DEF Undisturbed, MyMutex
    <3> QED BY ONLY <3>1, <3>2, <3>3
  <2> QED BY ONLY <1>2, <2>1 DEF OwnersInside
<1>12. ASSUME NEW u \in MapThreads, NEW v \in MapThreads PROVE Apart(u, v)'
  <2>1. loc[u].pc \in Checked /\ loc[u].locks = mLocks' =>
          mLocks' = mLocks /\ length'[loc[u].locks] = length[loc[u].locks]
    BY ONLY <1>2, <1>3, <1>4
  <2>2. Apart(u, v) /\ loc'[u] = loc[u] /\ loc'[v] = loc[v]
    BY ONLY <1>1, <1>2
  <2> QED BY ONLY <2>1, <2>2, ApartKept
<1>13. RefinableInv'
  BY ONLY <1>10, <1>11, <1>12 DEF RefinableInv
<1> QED
  BY ONLY <1>1, <1>2, <1>7, <1>8, <1>10, <1>13, structure = "refinable", structure' = structure
  DEF MapInv

LEMMA NextRefinable ==
  ASSUME MapInv, structure = "refinable", structure' = structure, Refinable!Next
  PROVE  MapInv'
<1>1. CASE \E p \in Ptrs : Refinable!deleter(p)
  BY ONLY <1>1, MapInv, structure = "refinable", structure' = structure, RefinableDeleter
<1>2. CASE \E t \in MapThreads :
             \/ Refinable!Call(t, {"find", "addOrUpdate", "remove"})
             \/ Refinable!spin(t) \/ Refinable!claim(t) \/ Refinable!lock(t)
             \/ Refinable!recheckFlag(t) \/ Refinable!recheckLocks(t)
             \/ Refinable!getBucketIndex(t) \/ Refinable!access(t, TRUE)
             \/ Refinable!exchange(t) \/ Refinable!compare(t) \/ Refinable!drain(t)
             \/ Refinable!copy(t) \/ Refinable!swap(t, "publish") \/ Refinable!publish(t)
             \/ Refinable!open(t) \/ Refinable!retire(t) \/ Refinable!Return(t)
  <2>1. PICK t \in MapThreads :
             \/ Refinable!Call(t, {"find", "addOrUpdate", "remove"})
             \/ Refinable!spin(t) \/ Refinable!claim(t) \/ Refinable!lock(t)
             \/ Refinable!recheckFlag(t) \/ Refinable!recheckLocks(t)
             \/ Refinable!getBucketIndex(t) \/ Refinable!access(t, TRUE)
             \/ Refinable!exchange(t) \/ Refinable!compare(t) \/ Refinable!drain(t)
             \/ Refinable!copy(t) \/ Refinable!swap(t, "publish") \/ Refinable!publish(t)
             \/ Refinable!open(t) \/ Refinable!retire(t) \/ Refinable!Return(t)
    BY ONLY <1>2
  <2>2. \/ Map!Call(t, {"find", "addOrUpdate", "remove"}) \/ Map!Return(t)
        \/ Refinable!spin(t) \/ Refinable!claim(t) \/ Refinable!lock(t)
        \/ Refinable!recheckFlag(t) \/ Refinable!recheckLocks(t)
        \/ Map!getBucketIndex(t) \/ Map!access(t, TRUE)
        \/ Refinable!exchange(t) \/ Refinable!compare(t) \/ Refinable!drain(t)
        \/ Map!copy(t) \/ Map!swap(t, "publish") \/ Refinable!publish(t)
        \/ Refinable!open(t) \/ Refinable!retire(t)
    BY ONLY <2>1, SameOthers, SameAccess, Zenon
  <2> QED
    BY ONLY <2>2, MapInv, structure = "refinable", structure' = structure, RefinableOutside,
            RefinableSpin, RefinableClaim, RefinableLock, RefinableRecheckFlag,
            RefinableRecheckLocks, RefinableIndex, RefinableAccess, RefinableExchange,
            RefinableCompare, RefinableDrain, RefinableCopy, RefinableSwap, RefinablePublish,
            RefinableOpen, RefinableRetire
<1> QED BY ONLY <1>1, <1>2, Refinable!Next, Zenon DEF Refinable!Next

-----------------------------------------------------------------------------
(* All of them.                                                            *)

Structures == {"queue", "stack", "fixed", "striped", "refinable"}

StructureInv == structure \in Structures /\ QueueInv /\ StackInv /\ MapInv

structureVars == <<structure, vars, mStack, at, item, mapVars>>

StructureNext == QueueNext \/ StackNext \/ MapNext

LEMMA InitMap ==
  ASSUME NEW n \in 1 .. MaxSize, Map!MapInit(n)
  PROVE  MapInv
<1>1. /\ mBuckets = [i \in 0 .. n - 1 |-> {}] /\ mSize = 0 /\ mLocks = FirstLocks
      /\ length = [p \in Ptrs |-> IF p = FirstLocks THEN n ELSE 0]
      /\ owners = [x \in Ptrs \X (0 .. MaxSize - 1) |-> {}] /\ mRehash = FALSE
      /\ slot = [t \in MapThreads |-> NoPtr]
      /\ status = [p \in Ptrs |-> IF p = FirstLocks THEN "live" ELSE "free"]
      /\ holders = [p \in Ptrs |-> {}]
      /\ loc = [t \in MapThreads |-> Map!Away]
  BY ONLY Map!MapInit(n) DEF Map!MapInit
<1>2. n \in Nat /\ n > 0 /\ n \in 0 .. MaxSize
  BY ONLY n \in 1 .. MaxSize, SizesAssumption, SMTT(30)
<1>3. Map!Away.pc = "idle"
  BY ONLY DEF Map!Away
<1>4. loc \in [MapThreads -> Locals] /\ \A t \in MapThreads : loc[t].pc = "idle"
  BY ONLY <1>1, <1>3, AwayTyped
<1>5. Map!Size = n
  <2>1. DOMAIN mBuckets = 0 .. n - 1
    BY ONLY <1>1
  <2> QED BY ONLY <1>2, <2>1, IntervalSize DEF Map!Size
<1>6. BucketsInv
  <2>1. DOMAIN mBuckets = 0 .. n - 1 /\ \A i \in DOMAIN mBuckets : mBuckets[i] = {}
    BY ONLY <1>1
  <2>2. Present = {}
    BY ONLY <2>1 DEF Present
  <2>3. Cardinality(Present) = 0
    BY ONLY <2>2, FS_EmptySet
  <2> QED BY ONLY <1>1, <1>5, <2>1, <2>3, n \in 1 .. MaxSize DEF BucketsInv
<1>7. LocksInv
  <2>1. Map!R!ReclamationTypeOK
    BY ONLY <1>1 DEF Map!R!ReclamationTypeOK
  <2>2. length \in [Ptrs -> 0 .. MaxSize]
    <3>1. 0 \in 0 .. MaxSize
      BY ONLY SizesAssumption, SMTT(30)
    <3> QED BY ONLY <1>1, <1>2, <3>1
  <2>3. \A p \in Ptrs : length[p] > 0 <=> status[p] # "free"
    BY ONLY <1>1, <1>2, SMTT(30)
  <2>4. /\ mLocks \in Ptrs /\ status[mLocks] = "live"
        /\ owners \in [Ptrs \X (0 .. MaxSize - 1) -> SUBSET MapThreads]
        /\ \A x \in DOMAIN owners : owners[x] = {}
    BY ONLY <1>1, LocksAssumption
  <2> QED BY ONLY <1>1, <2>1, <2>2, <2>3, <2>4 DEF LocksInv
<1>8. \A x \in DOMAIN owners : owners[x] = {}
  BY ONLY <1>1
<1>9. \A t \in MapThreads : LocalInv(t)
  BY ONLY <1>4 DEF LocalInv, Pending
<1>10. FixedInv
  <2>1. length[mLocks] = Map!Size
    BY ONLY <1>1, <1>5, LocksAssumption
  <2> QED BY ONLY <1>4, <1>8, <2>1 DEF FixedInv, FixedThread
<1>11. StripedInv
  BY ONLY <1>4, <1>8 DEF StripedInv, StripedThread
<1>12. RefinableInv
  <2>1. \A t \in MapThreads : RefinableThread(t)
    BY ONLY <1>4 DEF RefinableThread, Inside, Rehashing
  <2>2. OwnersInside
    BY ONLY <1>8 DEF OwnersInside
  <2>3. \A t, u \in MapThreads : Apart(t, u)
    BY ONLY <1>4 DEF Apart, Rehashing, Checked
  <2> QED BY ONLY <2>1, <2>2, <2>3 DEF RefinableInv
<1> QED BY ONLY <1>4, <1>6, <1>7, <1>9, <1>10, <1>11, <1>12 DEF MapInv

LEMMA InitStructure == StructureInit => StructureInv
<1> SUFFICES ASSUME StructureInit PROVE StructureInv
  OBVIOUS
<1>1. QueueInv /\ StackInv /\ structure \in Structures
  BY ONLY StructureInit, InitQueue, InitStack DEF StructureInit, Structures
<1>2. MapInv
  BY ONLY StructureInit, InitMap, SizesAssumption DEF StructureInit
<1> QED BY ONLY <1>1, <1>2 DEF StructureInv

LEMMA SameQueue == ASSUME QueueInv, UNCHANGED vars PROVE QueueInv'
BY ONLY QueueInv, UNCHANGED vars, Zenon
DEF QueueInv, vars, TypeOK, NeverTheDummy, Popping

LEMMA SameStack == ASSUME StackInv, UNCHANGED <<mStack, at, item>> PROVE StackInv'
<1>1. mStack' = mStack /\ at' = at /\ item' = item
  BY ONLY UNCHANGED <<mStack, at, item>>
<1>2. {t \in Threads : at'[t] \in {"pop", "try_pop"}} = {t \in Threads : at[t] \in {"pop", "try_pop"}}
  BY ONLY <1>1
<1> QED
  BY ONLY <1>1, <1>2, StackInv, Zenon
  DEF StackInv, Stack!StackTypeOK, Stack!NoneForgotten

(* Nothing happens in the map.                                             *)
LEMMA SameMap ==
  ASSUME MapInv, structure' = structure, UNCHANGED mapVars
  PROVE  MapInv'
<1>1. /\ mBuckets' = mBuckets /\ mSize' = mSize /\ mLocks' = mLocks /\ length' = length
      /\ owners' = owners /\ mRehash' = mRehash /\ slot' = slot /\ status' = status
      /\ holders' = holders /\ loc' = loc /\ UNCHANGED OtherLocks
  BY ONLY UNCHANGED mapVars DEF mapVars, OtherLocks
<1>2. /\ loc \in [MapThreads -> Locals] /\ BucketsInv /\ LocksInv
      /\ \A t \in MapThreads : LocalInv(t)
  BY ONLY MapInv DEF MapInv
<1>3. BucketsInv' /\ Map!Size' = Map!Size
  BY ONLY <1>1, <1>2, structure' = structure, SameBuckets
<1>4. LocksInv'
  BY ONLY <1>1, <1>2, LocksKept
<1>5. \A t \in MapThreads : LocalInv(t)'
  BY ONLY <1>1, <1>2, <1>3, SameLocal
<1>6. FixedInv => FixedInv'
  BY ONLY <1>1, <1>3, Zenon DEF FixedInv, FixedThread, Holds, Indices
<1>7. ASSUME StripedInv PROVE StripedInv'
  <2>1. ASSUME NEW u \in MapThreads PROVE StripedThread(u)'
    <3>1. \A k \in Indices : Holds(u, k) => Holds(u, k)'
      BY ONLY <1>1 DEF Holds
    <3>2. LocalInv(u) /\ StripedThread(u) /\ loc'[u] = loc[u]
      BY ONLY <1>1, <1>2, <1>7 DEF StripedInv
    <3> QED BY ONLY <1>1, <1>2, <1>3, <3>1, <3>2, StripedOther
  <2>2. \A x \in DOMAIN owners' : owners'[x] # {} => x[1] = mLocks'
    BY ONLY <1>1, <1>7 DEF StripedInv
  <2> QED BY ONLY <2>1, <2>2 DEF StripedInv
<1>8. ASSUME RefinableInv PROVE RefinableInv'
  <2>1. ASSUME NEW u \in MapThreads PROVE RefinableThread(u)'
    <3>1. RefinableThread(u)
      BY ONLY <1>8 DEF RefinableInv
    <3>2. loc[u].pc \in {"lock", "recheckFlag", "recheckLocks"} => Protected(u)'
      BY ONLY <1>1, <3>1, ProtectedKept DEF RefinableThread
    <3>3. Undisturbed(u)
      BY ONLY <1>1, <1>3, <3>1, <3>2 DEF Undisturbed, RefinableThread
    <3> QED BY ONLY <3>1, <3>3, RefinableOther
  <2>2. OwnersInside'
    BY ONLY <1>1, <1>8, Zenon DEF RefinableInv, OwnersInside, MyMutex
  <2>3. ASSUME NEW u \in MapThreads, NEW v \in MapThreads PROVE Apart(u, v)'
    <3>1. Apart(u, v) /\ loc'[u] = loc[u] /\ loc'[v] = loc[v]
      BY ONLY <1>1, <1>8 DEF RefinableInv
    <3> QED BY ONLY <1>1, <3>1, ApartKept
  <2> QED BY ONLY <2>1, <2>2, <2>3 DEF RefinableInv
<1> QED
  BY ONLY <1>1, <1>2, <1>3, <1>4, <1>5, <1>6, <1>7, <1>8, MapInv, structure' = structure
  DEF MapInv

LEMMA NextStructure == StructureInv /\ [StructureNext]_structureVars => StructureInv'
<1> SUFFICES ASSUME StructureInv, [StructureNext]_structureVars PROVE StructureInv'
  OBVIOUS
<1>0. structure \in Structures /\ QueueInv /\ StackInv /\ MapInv
  BY ONLY StructureInv DEF StructureInv
<1>1. CASE QueueNext
  <2>1. Next /\ structure' = structure /\ UNCHANGED <<mStack, at, item>> /\ UNCHANGED mapVars
    BY ONLY <1>1 DEF QueueNext
  <2> QED BY ONLY <1>0, <2>1, NextQueue, SameStack, SameMap DEF StructureInv
<1>2. CASE StackNext
  <2>1. Stack!Next /\ structure' = structure /\ UNCHANGED vars /\ UNCHANGED mapVars
    BY ONLY <1>2 DEF StackNext
  <2> QED BY ONLY <1>0, <2>1, NextStack, SameQueue, SameMap DEF StructureInv
<1>3. CASE MapNext
  <2>1. /\ \/ structure = "fixed" /\ FixedSize!Next
           \/ structure = "striped" /\ Striped!Next
           \/ structure = "refinable" /\ Refinable!Next
        /\ structure' = structure /\ UNCHANGED vars /\ UNCHANGED <<mStack, at, item>>
    BY ONLY <1>3 DEF MapNext
  <2> QED
    BY ONLY <1>0, <2>1, NextFixed, NextStriped, NextRefinable, SameQueue, SameStack
    DEF StructureInv
<1>4. CASE UNCHANGED structureVars
  <2>1. /\ structure' = structure /\ UNCHANGED vars /\ UNCHANGED <<mStack, at, item>>
        /\ UNCHANGED mapVars
    BY ONLY <1>4 DEF structureVars
  <2> QED BY ONLY <1>0, <2>1, SameQueue, SameStack, SameMap DEF StructureInv
<1> QED
  BY ONLY <1>1, <1>2, <1>3, <1>4, [StructureNext]_structureVars DEF StructureNext

LEMMA StructureInvariant == StructureSpec => []StructureInv
<1>1. StructureSpec => StructureInit /\ [][StructureNext]_structureVars
  BY DEF StructureSpec, StructureNext, structureVars
<1> QED BY <1>1, InitStructure, NextStructure, PTL

(* Where the threads are in the map of that kind, or in none.              *)
LEMMA PlacesInMap ==
  ASSUME StructureInv, NEW t \in MapThreads
  PROVE  /\ loc[t].pc = "lock" => structure = "refinable"
         /\ loc[t].pc \in {"copy", "swap"} => structure \in {"striped", "refinable"}
<1>1. structure \in Structures /\ MapInv
  BY ONLY StructureInv DEF StructureInv
<1>2. CASE structure \in {"queue", "stack"}
  BY ONLY <1>1, <1>2 DEF MapInv
<1>3. CASE structure = "fixed"
  <2>1. FixedThread(t)
    BY ONLY <1>1, <1>3, FixedParts
  <2> QED BY ONLY <2>1 DEF FixedThread
<1>4. CASE structure = "striped"
  <2>1. StripedThread(t)
    BY ONLY <1>1, <1>4, StripedParts
  <2> QED BY ONLY <1>4, <2>1 DEF StripedThread
<1>5. CASE structure = "refinable"
  BY ONLY <1>5
<1> QED BY ONLY <1>1, <1>2, <1>3, <1>4, <1>5 DEF Structures

LEMMA TypeFromInv == StructureInv => StructureTypeOK
<1> SUFFICES ASSUME StructureInv PROVE StructureTypeOK
  OBVIOUS
<1>1. QueueInv /\ StackInv /\ BucketsInv /\ LocksInv /\ \A t \in MapThreads : LocalInv(t)
  BY ONLY StructureInv DEF StructureInv, MapInv
<1>2. mSize \in 0 .. Map!Cardinality(Keys)
  <2>1. Cardinality(Present) <= Cardinality(Keys) /\ Cardinality(Keys) \in Nat
    <3>1. IsFiniteSet(Keys) /\ Present \subseteq Keys
      BY ONLY KeysAssumption DEF Present
    <3> QED BY ONLY <3>1, FS_Subset, FS_CardinalityType
  <2>2. Cardinality(Present) \in Nat
    BY ONLY KeysCounted
  <2>3. mSize \in 0 .. Cardinality(Keys)
    BY ONLY <1>1, <2>1, <2>2, SMTT(30) DEF BucketsInv
  <2> QED BY ONLY <2>3, SameCardinality
<1>3. \A t \in MapThreads : loc[t].pc = "access" => loc[t].index \in DOMAIN mBuckets
  <2>1. SUFFICES ASSUME NEW t \in MapThreads, loc[t].pc = "access"
                 PROVE  loc[t].index \in DOMAIN mBuckets
    OBVIOUS
  <2>2. loc[t].key \in Keys /\ loc[t].index = Hash[loc[t].key] % Map!Size
    BY ONLY <1>1, <2>1 DEF LocalInv
  <2>3. Map!Size \in Nat \ {0} /\ Hash[loc[t].key] \in Nat
    BY ONLY <1>1, <2>2, KeysAssumption, SizesAssumption, SMTT(30) DEF BucketsInv
  <2>4. Hash[loc[t].key] % Map!Size \in 0 .. Map!Size - 1
    BY ONLY <2>3, ModRange
  <2> QED BY ONLY <1>1, <2>2, <2>4 DEF BucketsInv
<1>4. Map!MapTypeOK
  BY ONLY <1>1, <1>2, <1>3 DEF Map!MapTypeOK, BucketsInv, LocksInv
<1> QED BY ONLY <1>1, <1>4 DEF StructureTypeOK, QueueInv, StackInv

(* Every structure is well typed: in particular the two mutexes of the      *)
(* queue are held by those in the two critical sections, mSize of a map     *)
(* counts no more than the keys, and an index computed under a mutex is     *)
(* still that of a bucket when the bucket is used.                         *)
THEOREM StructureTypeOKCorrect == StructureSpec => []StructureTypeOK
BY StructureInvariant, TypeFromInv, PTL

(* Nobody pops the dummy of the queue, and nobody sleeps beside a value of  *)
(* the stack unless others are on their way to it, for any number of        *)
(* threads and however many wake up for nothing.                           *)
THEOREM ConsumersServedCorrect == StructureSpec => []ConsumersServed
<1>1. StructureInv => ConsumersServed
  BY ONLY DEF StructureInv, QueueInv, StackInv, ConsumersServed
<1> QED BY StructureInvariant, <1>1, PTL

LEMMA AloneFromInv == StructureInv => RehashAlone
<1> SUFFICES ASSUME StructureInv, NEW t \in MapThreads, NEW u \in MapThreads, t # u,
                    loc[t].pc \in {"copy", "swap"}
             PROVE  loc[u].pc \notin {"index", "access", "copy", "swap"}
  BY DEF RehashAlone, Map!RehashAlone
<1>1. MapInv /\ structure \in {"striped", "refinable"}
  BY ONLY StructureInv, PlacesInMap, loc[t].pc \in {"copy", "swap"} DEF StructureInv
<1>2. CASE structure = "striped"
  <2>1. LocksInv /\ StripedInv /\ \A v \in MapThreads : LocalInv(v)
    BY ONLY <1>1, <1>2, StripedParts
  <2> QED BY ONLY <2>1, t # u, loc[t].pc \in {"copy", "swap"}, StripedAlone
<1>3. CASE structure = "refinable"
  <2>1. loc[u].pc \notin Rehashing /\ loc[u].pc \notin {"index", "access"}
    BY ONLY <1>1, <1>3, t # u, loc[t].pc \in {"copy", "swap"}, AloneWithTheElements
  <2> QED BY ONLY <2>1 DEF Rehashing
<1> QED BY ONLY <1>1, <1>2, <1>3

(* Whoever moves the elements of a growing map is alone with them, also in  *)
(* RefinableThreadSafeHashmap, where others may hold mutexes of an array    *)
(* that is no longer in use.                                               *)
THEOREM RehashAloneCorrect == StructureSpec => []RehashAlone
BY StructureInvariant, AloneFromInv, PTL

LEMMA LocksFromInv == StructureInv => NoLockAfterFree
<1> SUFFICES ASSUME StructureInv, NEW t \in MapThreads
             PROVE  /\ loc[t].pc = "lock" => status[loc[t].locks] # "free"
                    /\ \A x \in DOMAIN owners : t \in owners[x] => status[x[1]] # "free"
  BY DEF NoLockAfterFree, Map!NoLockAfterFree
<1>1. MapInv /\ LocksInv
  BY ONLY StructureInv DEF StructureInv, MapInv
<1>2. loc[t].pc = "lock" => status[loc[t].locks] # "free"
  <2>1. loc[t].pc = "lock" => structure = "refinable"
    BY ONLY StructureInv, PlacesInMap
  <2> QED BY ONLY <1>1, <2>1, MutexInRange
<1>3. ASSUME NEW x \in DOMAIN owners, t \in owners[x] PROVE status[x[1]] # "free"
  <2>1. x[2] < length[x[1]] /\ x[1] \in Ptrs /\ x[2] \in 0 .. MaxSize - 1
    BY ONLY <1>1, <1>3 DEF LocksInv
  <2>2. length[x[1]] > 0
    BY ONLY <1>1, <2>1, SizesAssumption, SMTT(30) DEF LocksInv
  <2> QED BY ONLY <1>1, <2>1, <2>2 DEF LocksInv
<1> QED BY ONLY <1>2, <1>3

(* Nobody locks, holds or unlocks a mutex of an array that the hazard       *)
(* pointer domain has deleted, although addresses are recycled.            *)
THEOREM NoLockAfterFreeCorrect == StructureSpec => []NoLockAfterFree
BY StructureInvariant, LocksFromInv, PTL

-----------------------------------------------------------------------------
(* Linearizability.                                                        *)

(* What the refinement mappings need besides: a call that has no value yet, *)
(* or whose value is in the structure, carries none.                       *)
QueueVals == \A t \in Threads : pc[t] \in Popping \cup {"idle"} => val[t] = NoValue

StackVals ==
  \A t \in Threads : at[t] \in {"idle", "pop", "try_pop", "waiting"} => item[t] = NoValue

MapVals ==
  \A t \in MapThreads :
    loc[t].pc \in {"rehash", "compare", "drain", "copy", "swap", "publish", "open", "retire",
                   "unlock"} => loc[t].val = NoValue

ValsInv == QueueVals /\ StackVals /\ MapVals

(* The queue.                                                              *)

Idle == [name |-> "idle", val |-> NoValue]
Done(v) == [name |-> "done", val |-> v]

QueueOps == [t \in Threads |-> Operation(t)]

(* An operation of thread t, as AbstractQueue sees it.                     *)
QueueStep(t, o, queue) ==
  QueueOps' = [QueueOps EXCEPT ![t] = o] /\ contents' = queue

QueueMoves == Abstract!Next \/ \E t \in Threads : Abstract!Fail(t)

LEMMA QueueAbstractNext ==
  ASSUME NEW t \in Threads, NEW v,
         \/ /\ QueueOps[t] = Idle
            /\ \/ v \in Values /\ QueueStep(t, [name |-> "push", val |-> v], contents)
               \/ QueueStep(t, [name |-> "pop", val |-> NoValue], contents)
         \/ /\ QueueOps[t] = [name |-> "push", val |-> v]
            /\ QueueStep(t, Done(NoValue), Append(contents, v))
         \/ /\ QueueOps[t].name = "pop" /\ contents # <<>>
            /\ QueueStep(t, Done(Head(contents)), Tail(contents))
         \/ /\ QueueOps[t].name = "pop" /\ QueueStep(t, Done(NoValue), contents)
         \/ /\ QueueOps[t].name = "done" /\ QueueStep(t, Idle, contents)
  PROVE  QueueMoves
<1>1. CASE /\ QueueOps[t] = Idle
           /\ v \in Values /\ QueueStep(t, [name |-> "push", val |-> v], contents)
  BY ONLY <1>1, t \in Threads
  DEF QueueMoves, QueueStep, QueueOps, Idle, Abstract!Idle, Abstract!Next, Abstract!Call
<1>2. CASE QueueOps[t] = Idle /\ QueueStep(t, [name |-> "pop", val |-> NoValue], contents)
  BY ONLY <1>2, t \in Threads
  DEF QueueMoves, QueueStep, QueueOps, Idle, Abstract!Idle, Abstract!Next, Abstract!Call
<1>3. CASE /\ QueueOps[t] = [name |-> "push", val |-> v]
           /\ QueueStep(t, Done(NoValue), Append(contents, v))
  <2>1. QueueOps[t].name = "push" /\ QueueOps[t].val = v
    BY ONLY <1>3
  <2> QED BY ONLY <1>3, <2>1, t \in Threads
    DEF QueueMoves, QueueStep, QueueOps, Done, Abstract!Done, Abstract!Next, Abstract!Push
<1>4. CASE /\ QueueOps[t].name = "pop" /\ contents # <<>>
           /\ QueueStep(t, Done(Head(contents)), Tail(contents))
  BY ONLY <1>4, t \in Threads
  DEF QueueMoves, QueueStep, QueueOps, Done, Abstract!Done, Abstract!Next, Abstract!Pop
<1>5. CASE QueueOps[t].name = "pop" /\ QueueStep(t, Done(NoValue), contents)
  BY ONLY <1>5, t \in Threads
  DEF QueueMoves, QueueStep, QueueOps, Done, Abstract!Done, Abstract!Fail
<1>6. CASE QueueOps[t].name = "done" /\ QueueStep(t, Idle, contents)
  BY ONLY <1>6, t \in Threads
  DEF QueueMoves, QueueStep, QueueOps, Idle, Abstract!Idle, Abstract!Next, Abstract!Return
<1> QED
  BY ONLY <1>1, <1>2, <1>3, <1>4, <1>5, <1>6,
         \/ /\ QueueOps[t] = Idle
            /\ \/ v \in Values /\ QueueStep(t, [name |-> "push", val |-> v], contents)
               \/ QueueStep(t, [name |-> "pop", val |-> NoValue], contents)
         \/ /\ QueueOps[t] = [name |-> "push", val |-> v]
            /\ QueueStep(t, Done(NoValue), Append(contents, v))
         \/ /\ QueueOps[t].name = "pop" /\ contents # <<>>
            /\ QueueStep(t, Done(Head(contents)), Tail(contents))
         \/ /\ QueueOps[t].name = "pop" /\ QueueStep(t, Done(NoValue), contents)
         \/ /\ QueueOps[t].name = "done" /\ QueueStep(t, Idle, contents)

LEMMA QueueOpsStep ==
  ASSUME NEW t \in Threads, \A u \in Threads \ {t} : Operation(u)' = Operation(u)
  PROVE  /\ QueueOps[t] = Operation(t)
         /\ QueueOps' = [QueueOps EXCEPT ![t] = Operation(t)']
         /\ Operation(t)' = Operation(t) => QueueOps' = QueueOps
<1>1. QueueOps' = [u \in Threads |-> Operation(u)']
  BY ONLY DEF QueueOps
<1>2. QueueOps = [u \in Threads |-> Operation(u)]
  BY ONLY DEF QueueOps
<1> DEFINE o(u) == Operation(u)
<1> HIDE DEF o
<1> QED BY ONLY <1>1, <1>2, \A u \in Threads \ {t} : Operation(u)' = Operation(u), t \in Threads

LEMMA QueueNextMaps ==
  ASSUME QueueInv, QueueVals, Next
  PROVE  QueueMoves \/ (QueueOps' = QueueOps /\ contents' = contents)
<1> PICK t \in Threads : Call(t) \/ Step(t) \/ SpuriousWakeup(t)
  BY ONLY Next DEF Next
<1> DEFINE pop == [name |-> "pop", val |-> NoValue]
<1>0. TypeOK /\ QueueVals /\ NeverTheDummy /\ NoValue \notin Values
  BY ONLY QueueInv, QueueVals, ValuesAssumption DEF QueueInv
<1>1. CASE CallPush(t)
  <2>1. PICK v \in Values : val' = [val EXCEPT ![t] = v]
    BY ONLY <1>1 DEF CallPush
  <2>2. /\ pc[t] = "idle" /\ pc' = [pc EXCEPT ![t] = "pushLock"] /\ contents' = contents
    BY ONLY <1>1 DEF CallPush, Goto
  <2>3. /\ \A u \in Threads \ {t} : Operation(u)' = Operation(u)
        /\ Operation(t) = Idle /\ Operation(t)' = [name |-> "push", val |-> v]
    BY ONLY <1>0, <2>1, <2>2, t \in Threads DEF Operation, TypeOK, Idle
  <2>4. QueueOps[t] = Idle /\ QueueStep(t, [name |-> "push", val |-> v], contents)
    BY ONLY <2>2, <2>3, QueueOpsStep DEF QueueStep
  <2> QED BY ONLY <2>4, QueueAbstractNext
<1>2. CASE CallPop(t)
  <2>1. /\ pc[t] = "idle" /\ pc' = [pc EXCEPT ![t] = "popLock"] /\ contents' = contents
        /\ val' = val
    BY ONLY <1>2 DEF CallPop, Goto
  <2>2. /\ \A u \in Threads \ {t} : Operation(u)' = Operation(u)
        /\ Operation(t) = Idle /\ Operation(t)' = pop
    BY ONLY <1>0, <2>1, t \in Threads DEF Operation, TypeOK, Idle
  <2>3. QueueOps[t] = Idle /\ QueueStep(t, pop, contents)
    BY ONLY <2>1, <2>2, QueueOpsStep DEF QueueStep
  <2> QED BY ONLY <2>3, QueueAbstractNext
<1>3. CASE PushAppend(t)
  <2>1. /\ pc[t] = "append" /\ pc' = [pc EXCEPT ![t] = "notify"]
        /\ contents' = Append(contents, val[t]) /\ val' = val
    BY ONLY <1>3 DEF PushAppend, Goto
  <2>2. /\ \A u \in Threads \ {t} : Operation(u)' = Operation(u)
        /\ Operation(t) = [name |-> "push", val |-> val[t]] /\ Operation(t)' = Done(NoValue)
    BY ONLY <1>0, <2>1, t \in Threads DEF Operation, TypeOK, Done
  <2> DEFINE v == val[t]
  <2>3. /\ QueueOps[t] = [name |-> "push", val |-> v]
        /\ QueueStep(t, Done(NoValue), Append(contents, v))
    BY ONLY <2>1, <2>2, QueueOpsStep DEF QueueStep
  <2> HIDE DEF v
  <2> QED BY ONLY <2>3, QueueAbstractNext
<1>4. CASE PopHead(t)
  <2>1. /\ pc[t] = "pop" /\ pc' = [pc EXCEPT ![t] = "done"]
        /\ contents' = Tail(contents) /\ val' = [val EXCEPT ![t] = Head(contents)]
    BY ONLY <1>4 DEF PopHead, Goto
  <2>2. /\ \A u \in Threads \ {t} : Operation(u)' = Operation(u)
        /\ Operation(t) = pop /\ Operation(t)' = Done(Head(contents))
    BY ONLY <1>0, <2>1, t \in Threads DEF Operation, TypeOK, Done
  <2>3. /\ QueueOps[t].name = "pop" /\ contents # <<>>
        /\ QueueStep(t, Done(Head(contents)), Tail(contents))
    <3>1. contents # <<>>
      BY ONLY <1>0, <2>1 DEF NeverTheDummy
    <3>2. QueueOps[t] = pop /\ QueueStep(t, Done(Head(contents)), Tail(contents))
      BY ONLY <2>1, <2>2, QueueOpsStep DEF QueueStep
    <3> QED BY ONLY <3>1, <3>2
  <2> QED BY ONLY <2>3, QueueAbstractNext
<1>5. CASE (Check(t) \/ Copy(t)) /\ pc'[t] = "done"
  <2>1. /\ pc[t] \in {"check", "copy"} /\ pc' = [pc EXCEPT ![t] = "done"]
        /\ contents' = contents /\ val' = val
    BY ONLY <1>0, <1>5 DEF Check, Copy, Goto, TypeOK
  <2>2. /\ \A u \in Threads \ {t} : Operation(u)' = Operation(u)
        /\ Operation(t) = pop /\ Operation(t)' = Done(NoValue)
    <3>1. val[t] = NoValue
      BY ONLY <1>0, <2>1, t \in Threads DEF QueueVals, Popping
    <3> QED BY ONLY <1>0, <2>1, <3>1, t \in Threads DEF Operation, TypeOK, Done
  <2>3. QueueOps[t].name = "pop" /\ QueueStep(t, Done(NoValue), contents)
    <3>1. QueueOps[t] = pop /\ QueueStep(t, Done(NoValue), contents)
      BY ONLY <2>1, <2>2, QueueOpsStep DEF QueueStep
    <3> QED BY ONLY <3>1
  <2> QED BY ONLY <2>3, QueueAbstractNext
<1>6. CASE Return(t)
  <2>1. /\ pc[t] = "done" /\ pc' = [pc EXCEPT ![t] = "idle"]
        /\ contents' = contents /\ val' = [val EXCEPT ![t] = NoValue]
    BY ONLY <1>6 DEF Return, Goto
  <2>2. /\ \A u \in Threads \ {t} : Operation(u)' = Operation(u)
        /\ Operation(t).name = "done" /\ Operation(t)' = Idle
    BY ONLY <1>0, <2>1, t \in Threads DEF Operation, TypeOK, Idle
  <2>3. QueueOps[t].name = "done" /\ QueueStep(t, Idle, contents)
    BY ONLY <2>1, <2>2, QueueOpsStep DEF QueueStep
  <2> QED BY ONLY <2>3, QueueAbstractNext
<1>7. CASE \/ PushLock(t) \/ Notify(t) \/ PopLock(t) \/ Wait(t) \/ SpuriousWakeup(t)
           \/ (Check(t) \/ Copy(t)) /\ pc'[t] # "done"
  <2>1. contents' = contents
    BY ONLY <1>7 DEF PushLock, Notify, PopLock, Check, Wait, Copy, SpuriousWakeup
  <2>2. \A u \in Threads : Operation(u)' = Operation(u)
    <3>1. CASE Notify(t)
      <4>1. \A u \in Threads : u \in waiters => pc[u] = "waiting" /\ u # t
        BY ONLY <1>0, <3>1 DEF TypeOK, Notify
      <4>2. waiters \subseteq Threads
        BY ONLY <1>0 DEF TypeOK, Threads
      <4> QED BY ONLY <1>0, <3>1, <4>1, <4>2, t \in Threads DEF Notify, Operation, TypeOK, Goto
    <3>2. CASE PushLock(t)
      BY ONLY <1>0, <3>2, t \in Threads DEF PushLock, Operation, TypeOK, Goto
    <3>3. CASE PopLock(t) \/ Wait(t) \/ SpuriousWakeup(t)
      BY ONLY <1>0, <3>3, t \in Threads DEF PopLock, Wait, SpuriousWakeup, Operation, TypeOK, Goto
    <3>4. CASE (Check(t) \/ Copy(t)) /\ pc'[t] # "done"
      <4>1. /\ pc[t] \in {"check", "copy"} /\ val' = val
            /\ \E l \in {"copy", "pop", "wait"} : pc' = [pc EXCEPT ![t] = l]
        BY ONLY <1>0, <3>4, t \in Threads DEF Check, Copy, Goto, TypeOK
      <4> QED BY ONLY <1>0, <4>1, t \in Threads DEF Operation, TypeOK
    <3> QED BY ONLY <3>1, <3>2, <3>3, <3>4, <1>7
  <2> QED BY ONLY <2>1, <2>2, QueueOpsStep
<1> QED
  BY ONLY <1>1, <1>2, <1>3, <1>4, <1>5, <1>6, <1>7, Call(t) \/ Step(t) \/ SpuriousWakeup(t)
  DEF Call, Step

LEMMA QueueInitMaps == Init => Abstract!Init
<1> SUFFICES ASSUME Init PROVE Abstract!Init
  OBVIOUS
<1>1. contents = <<>> /\ \A t \in Threads : Operation(t) = Idle
  BY ONLY Init DEF Init, Operation, Idle
<1> QED BY ONLY <1>1 DEF Abstract!Init, Abstract!Idle, Idle

(* The stack.                                                              *)

StackOp(t) ==
  [name |-> CASE at[t] \in {"pop", "try_pop", "waiting"} -> "pop" [] OTHER -> at[t],
   val |-> item[t]]

StackOps == [t \in Threads |-> StackOp(t)]

StackStep(t, o, stack) == StackOps' = [StackOps EXCEPT ![t] = o] /\ mStack' = stack

LEMMA StackAbstractNext ==
  ASSUME NEW t \in Threads, NEW v,
         \/ /\ StackOps[t] = Idle
            /\ \/ v \in Values /\ StackStep(t, [name |-> "push", val |-> v], mStack)
               \/ StackStep(t, [name |-> "pop", val |-> NoValue], mStack)
         \/ /\ StackOps[t] = [name |-> "push", val |-> v]
            /\ StackStep(t, Done(NoValue), <<v>> \o mStack)
         \/ /\ StackOps[t].name = "pop" /\ mStack # <<>>
            /\ StackStep(t, Done(Head(mStack)), Tail(mStack))
         \/ /\ StackOps[t].name = "pop" /\ mStack = <<>>
            /\ StackStep(t, Done(NoValue), mStack)
         \/ /\ StackOps[t].name = "done" /\ StackStep(t, Idle, mStack)
  PROVE  Stack!Abstract!Next
<1> DEFINE ops == [u \in Threads |->
        [name |-> CASE at[u] \in {"pop", "try_pop", "waiting"} -> "pop" [] OTHER -> at[u],
         val |-> item[u]]]
<1>1. StackOps = ops /\ StackOps' = ops'
  BY ONLY DEF StackOps, StackOp
<1> HIDE DEF ops
<1>2. CASE /\ StackOps[t] = Idle
           /\ v \in Values /\ StackStep(t, [name |-> "push", val |-> v], mStack)
  <2>1. Stack!Abstract!Call(t)
    BY ONLY <1>1, <1>2 DEF ops, StackStep, Idle, Stack!Abstract!Idle, Stack!Abstract!Call
  <2> QED BY ONLY <2>1, t \in Threads DEF Stack!Abstract!Next
<1>3. CASE StackOps[t] = Idle /\ StackStep(t, [name |-> "pop", val |-> NoValue], mStack)
  <2>1. Stack!Abstract!Call(t)
    BY ONLY <1>1, <1>3 DEF ops, StackStep, Idle, Stack!Abstract!Idle, Stack!Abstract!Call
  <2> QED BY ONLY <2>1, t \in Threads DEF Stack!Abstract!Next
<1>4. CASE /\ StackOps[t] = [name |-> "push", val |-> v]
           /\ StackStep(t, Done(NoValue), <<v>> \o mStack)
  <2>1. StackOps[t].name = "push" /\ StackOps[t].val = v
    BY ONLY <1>4
  <2>2. Stack!Abstract!Push(t)
    BY ONLY <1>1, <1>4, <2>1 DEF ops, StackStep, Done, Stack!Abstract!Push
  <2> QED BY ONLY <2>2, t \in Threads DEF Stack!Abstract!Next
<1>5. CASE /\ StackOps[t].name = "pop" /\ mStack # <<>>
           /\ StackStep(t, Done(Head(mStack)), Tail(mStack))
  <2>1. Stack!Abstract!Pop(t)
    BY ONLY <1>1, <1>5 DEF ops, StackStep, Done, Stack!Abstract!Pop
  <2> QED BY ONLY <2>1, t \in Threads DEF Stack!Abstract!Next
<1>6. CASE /\ StackOps[t].name = "pop" /\ mStack = <<>>
           /\ StackStep(t, Done(NoValue), mStack)
  <2>1. Stack!Abstract!PopEmpty(t)
    BY ONLY <1>1, <1>6 DEF ops, StackStep, Done, Stack!Abstract!PopEmpty
  <2> QED BY ONLY <2>1, t \in Threads DEF Stack!Abstract!Next
<1>7. CASE StackOps[t].name = "done" /\ StackStep(t, Idle, mStack)
  <2>1. Stack!Abstract!Return(t)
    BY ONLY <1>1, <1>7 DEF ops, StackStep, Idle, Stack!Abstract!Idle, Stack!Abstract!Return
  <2> QED BY ONLY <2>1, t \in Threads DEF Stack!Abstract!Next
<1> QED
  BY ONLY <1>2, <1>3, <1>4, <1>5, <1>6, <1>7,
         \/ /\ StackOps[t] = Idle
            /\ \/ v \in Values /\ StackStep(t, [name |-> "push", val |-> v], mStack)
               \/ StackStep(t, [name |-> "pop", val |-> NoValue], mStack)
         \/ /\ StackOps[t] = [name |-> "push", val |-> v]
            /\ StackStep(t, Done(NoValue), <<v>> \o mStack)
         \/ /\ StackOps[t].name = "pop" /\ mStack # <<>>
            /\ StackStep(t, Done(Head(mStack)), Tail(mStack))
         \/ /\ StackOps[t].name = "pop" /\ mStack = <<>>
            /\ StackStep(t, Done(NoValue), mStack)
         \/ /\ StackOps[t].name = "done" /\ StackStep(t, Idle, mStack)

LEMMA StackOpsStep ==
  ASSUME NEW t \in Threads, \A u \in Threads \ {t} : StackOp(u)' = StackOp(u)
  PROVE  /\ StackOps[t] = StackOp(t)
         /\ StackOps' = [StackOps EXCEPT ![t] = StackOp(t)']
         /\ StackOp(t)' = StackOp(t) => StackOps' = StackOps
<1>1. StackOps' = [u \in Threads |-> StackOp(u)']
  BY ONLY DEF StackOps
<1>2. StackOps = [u \in Threads |-> StackOp(u)]
  BY ONLY DEF StackOps
<1> QED BY ONLY <1>1, <1>2, \A u \in Threads \ {t} : StackOp(u)' = StackOp(u), t \in Threads

LEMMA StackNextMaps ==
  ASSUME StackInv, StackVals, Stack!Next
  PROVE  Stack!Abstract!Next \/ (StackOps' = StackOps /\ mStack' = mStack)
<1> PICK t \in Threads :
      \/ Stack!Call(t) \/ Stack!pushImpl(t) \/ Stack!pop(t) \/ Stack!try_pop(t)
      \/ Stack!SpuriousWakeup(t) \/ Stack!Return(t)
  BY ONLY Stack!Next DEF Stack!Next
<1> DEFINE pop == [name |-> "pop", val |-> NoValue]
<1>0. /\ at \in [Threads -> {"idle", "push", "pop", "try_pop", "waiting", "done"}]
      /\ item \in [Threads -> Values \cup {NoValue}]
      /\ \A u \in Threads : at[u] \in {"idle", "pop", "try_pop", "waiting"} => item[u] = NoValue
  BY ONLY StackInv, StackVals DEF StackInv, Stack!StackTypeOK, StackVals
<1>1. CASE Stack!Call(t) /\ at'[t] = "push"
  <2>1. PICK v \in Values : item' = [item EXCEPT ![t] = v]
    BY ONLY <1>0, <1>1 DEF Stack!Call
  <2>2. at[t] = "idle" /\ at' = [at EXCEPT ![t] = "push"] /\ mStack' = mStack
    BY ONLY <1>0, <1>1, t \in Threads DEF Stack!Call
  <2>3. /\ \A u \in Threads \ {t} : StackOp(u)' = StackOp(u)
        /\ StackOp(t) = Idle /\ StackOp(t)' = [name |-> "push", val |-> v]
    BY ONLY <1>0, <2>1, <2>2, t \in Threads DEF StackOp, Idle
  <2>4. StackOps[t] = Idle /\ StackStep(t, [name |-> "push", val |-> v], mStack)
    BY ONLY <2>2, <2>3, StackOpsStep DEF StackStep
  <2> QED BY ONLY <2>4, StackAbstractNext
<1>2. CASE Stack!Call(t) /\ at'[t] # "push"
  <2>1. /\ at[t] = "idle" /\ mStack' = mStack /\ item' = item
        /\ \E o \in {"pop", "try_pop"} : at' = [at EXCEPT ![t] = o]
    BY ONLY <1>0, <1>2, t \in Threads DEF Stack!Call
  <2>2. /\ \A u \in Threads \ {t} : StackOp(u)' = StackOp(u)
        /\ StackOp(t) = Idle /\ StackOp(t)' = pop
    BY ONLY <1>0, <2>1, t \in Threads DEF StackOp, Idle
  <2>3. StackOps[t] = Idle /\ StackStep(t, pop, mStack)
    BY ONLY <2>1, <2>2, StackOpsStep DEF StackStep
  <2> QED BY ONLY <2>3, StackAbstractNext
<1>3. CASE Stack!pushImpl(t)
  <2> DEFINE v == item[t]
  <2>1. /\ at[t] = "push" /\ mStack' = <<v>> \o mStack
        /\ item' = [item EXCEPT ![t] = NoValue]
        /\ \/ at' = [at EXCEPT ![t] = "done"]
           \/ \E u \in Threads :
                at[u] = "waiting" /\ at' = [at EXCEPT ![t] = "done", ![u] = "pop"]
    BY ONLY <1>3 DEF Stack!pushImpl
  <2>2. /\ \A u \in Threads \ {t} : StackOp(u)' = StackOp(u)
        /\ StackOp(t) = [name |-> "push", val |-> v] /\ StackOp(t)' = Done(NoValue)
    BY ONLY <1>0, <2>1, t \in Threads DEF StackOp, Done
  <2> HIDE DEF v
  <2>3. /\ StackOps[t] = [name |-> "push", val |-> v]
        /\ StackStep(t, Done(NoValue), <<v>> \o mStack)
    BY ONLY <2>1, <2>2, StackOpsStep DEF StackStep
  <2> QED BY ONLY <2>3, StackAbstractNext
<1>4. CASE Stack!Take(t) /\ at[t] \in {"pop", "try_pop"}
  <2>1. /\ mStack # <<>> /\ mStack' = Tail(mStack)
        /\ item' = [item EXCEPT ![t] = Head(mStack)] /\ at' = [at EXCEPT ![t] = "done"]
    BY ONLY <1>4 DEF Stack!Take
  <2>2. /\ \A u \in Threads \ {t} : StackOp(u)' = StackOp(u)
        /\ StackOp(t) = pop /\ StackOp(t)' = Done(Head(mStack))
    BY ONLY <1>0, <1>4, <2>1, t \in Threads DEF StackOp, Done
  <2>3. StackOps[t] = pop /\ StackStep(t, Done(Head(mStack)), Tail(mStack))
    BY ONLY <2>1, <2>2, StackOpsStep DEF StackStep
  <2>4. StackOps[t].name = "pop"
    BY ONLY <2>3
  <2> QED BY ONLY <2>1, <2>3, <2>4, StackAbstractNext
<1>5. CASE /\ at[t] = "try_pop" /\ mStack = <<>> /\ at' = [at EXCEPT ![t] = "done"]
           /\ UNCHANGED <<mStack, item>>
  <2>1. /\ \A u \in Threads \ {t} : StackOp(u)' = StackOp(u)
        /\ StackOp(t) = pop /\ StackOp(t)' = Done(NoValue)
    BY ONLY <1>0, <1>5, t \in Threads DEF StackOp, Done
  <2>2. StackOps[t] = pop /\ StackStep(t, Done(NoValue), mStack)
    BY ONLY <1>5, <2>1, StackOpsStep DEF StackStep
  <2>3. StackOps[t].name = "pop"
    BY ONLY <2>2
  <2> QED BY ONLY <1>5, <2>2, <2>3, StackAbstractNext
<1>6. CASE Stack!Return(t)
  <2>1. /\ at[t] = "done" /\ at' = [at EXCEPT ![t] = "idle"]
        /\ item' = [item EXCEPT ![t] = NoValue] /\ mStack' = mStack
    BY ONLY <1>6 DEF Stack!Return
  <2>2. /\ \A u \in Threads \ {t} : StackOp(u)' = StackOp(u)
        /\ StackOp(t).name = "done" /\ StackOp(t)' = Idle
    BY ONLY <1>0, <2>1, t \in Threads DEF StackOp, Idle
  <2>3. StackOps[t].name = "done" /\ StackStep(t, Idle, mStack)
    BY ONLY <2>1, <2>2, StackOpsStep DEF StackStep
  <2> QED BY ONLY <2>3, StackAbstractNext
<1>7. CASE \/ Stack!SpuriousWakeup(t)
           \/ /\ at[t] = "pop" /\ at' = [at EXCEPT ![t] = "waiting"]
              /\ UNCHANGED <<mStack, item>>
  <2>1. (\A u \in Threads : StackOp(u)' = StackOp(u)) /\ mStack' = mStack
    BY ONLY <1>0, <1>7, t \in Threads DEF StackOp, Stack!SpuriousWakeup
  <2> QED BY ONLY <2>1, StackOpsStep
<1> QED
  BY ONLY <1>1, <1>2, <1>3, <1>4, <1>5, <1>6, <1>7,
      \/ Stack!Call(t) \/ Stack!pushImpl(t) \/ Stack!pop(t) \/ Stack!try_pop(t)
      \/ Stack!SpuriousWakeup(t) \/ Stack!Return(t)
  DEF Stack!pop, Stack!try_pop

LEMMA StackInitMaps == Stack!StackInit => Stack!Abstract!Init
<1> SUFFICES ASSUME Stack!StackInit PROVE Stack!Abstract!Init
  OBVIOUS
<1> QED BY ONLY Stack!StackInit DEF Stack!StackInit, Stack!Abstract!Init, Stack!Abstract!Idle

(* The maps: what the pairs in the buckets say.                            *)

LEMMA ContentsAre ==
  ASSUME NEW b, NEW f \in [Keys -> Values \cup {NoValue}],
         \A i \in DOMAIN b : b[i] \subseteq Keys \X Values,
         \A k \in Keys, v \in Values : (\E i \in DOMAIN b : <<k, v>> \in b[i]) <=> f[k] = v
  PROVE  Map!ContentsOf(b) = f
<1> DEFINE all == UNION {b[i] : i \in DOMAIN b}
           vals(k) == {e[2] : e \in {d \in all : d[1] = k}}
<1>1. ASSUME NEW k \in Keys
      PROVE  (IF vals(k) = {} THEN NoValue ELSE CHOOSE v \in vals(k) : TRUE) = f[k]
  <2>1. \A d \in all : d \in Keys \X Values /\ \E i \in DOMAIN b : d \in b[i]
    BY ONLY \A i \in DOMAIN b : b[i] \subseteq Keys \X Values
  <2>2. \A v : v \in vals(k) => v \in Values /\ f[k] = v
    <3> SUFFICES ASSUME NEW d \in all, d[1] = k PROVE d[2] \in Values /\ f[k] = d[2]
      BY DEF vals
    <3>1. PICK i \in DOMAIN b : d \in b[i]
      BY ONLY <2>1, d \in all
    <3>2. d = <<k, d[2]>> /\ d[2] \in Values
      BY ONLY <2>1, d \in all, d[1] = k
    <3>3. <<k, d[2]>> \in b[i]
      BY ONLY <3>1, <3>2
    <3> QED
      BY ONLY <3>2, <3>3, k \in Keys,
         \A kk \in Keys, v \in Values : (\E ii \in DOMAIN b : <<kk, v>> \in b[ii]) <=> f[kk] = v
  <2>3. f[k] \in Values => f[k] \in vals(k)
    <3> SUFFICES ASSUME f[k] \in Values PROVE f[k] \in vals(k)
      OBVIOUS
    <3>1. PICK i \in DOMAIN b : <<k, f[k]>> \in b[i]
      BY ONLY f[k] \in Values, k \in Keys,
         \A kk \in Keys, v \in Values : (\E ii \in DOMAIN b : <<kk, v>> \in b[ii]) <=> f[kk] = v
    <3>2. <<k, f[k]>> \in all /\ <<k, f[k]>>[1] = k /\ <<k, f[k]>>[2] = f[k]
      BY ONLY <3>1
    <3> QED BY ONLY <3>2 DEF vals
  <2>4. f[k] \in Values \cup {NoValue}
    BY ONLY f \in [Keys -> Values \cup {NoValue}], k \in Keys
  <2> HIDE DEF vals
  <2> QED BY ONLY <2>2, <2>3, <2>4, ValuesAssumption
<1>2. Map!ContentsOf(b) = [k \in Keys |-> IF vals(k) = {} THEN NoValue
                                         ELSE CHOOSE v \in vals(k) : TRUE]
  BY ONLY Zenon DEF Map!ContentsOf
<1> HIDE DEF vals
<1> QED BY ONLY <1>1, <1>2, f \in [Keys -> Values \cup {NoValue}]

MapContents == Map!ContentsOf(mBuckets)

LEMMA ContentsHave ==
  ASSUME BucketsInv
  PROVE  /\ MapContents \in [Keys -> Values \cup {NoValue}]
         /\ \A k \in Keys, v \in Values :
              (\E i \in DOMAIN mBuckets : <<k, v>> \in mBuckets[i]) <=> MapContents[k] = v
<1> DEFINE has(k, v) == \E i \in DOMAIN mBuckets : <<k, v>> \in mBuckets[i]
           f == [k \in Keys |-> IF \E v \in Values : has(k, v)
                                THEN CHOOSE v \in Values : has(k, v) ELSE NoValue]
<1>1. \A i \in DOMAIN mBuckets : mBuckets[i] \subseteq Keys \X Values
  BY ONLY BucketsInv DEF BucketsInv
<1>2. \A k \in Keys, v \in Values, w \in Values : has(k, v) /\ has(k, w) => v = w
  <2> SUFFICES ASSUME NEW k \in Keys, NEW v \in Values, NEW w \in Values,
                      NEW i \in DOMAIN mBuckets, NEW j \in DOMAIN mBuckets,
                      <<k, v>> \in mBuckets[i], <<k, w>> \in mBuckets[j]
               PROVE  v = w
    BY DEF has
  <2>1. i = j
    BY ONLY BucketsInv, <<k, v>> \in mBuckets[i], <<k, w>> \in mBuckets[j],
            k \in Keys, v \in Values, w \in Values, i \in DOMAIN mBuckets, j \in DOMAIN mBuckets
    DEF BucketsInv
  <2> QED BY ONLY <2>1, BucketsInv, <<k, v>> \in mBuckets[i], <<k, w>> \in mBuckets[j],
            k \in Keys, v \in Values, w \in Values, i \in DOMAIN mBuckets
    DEF BucketsInv
<1> HIDE DEF has
<1>3. f \in [Keys -> Values \cup {NoValue}] /\ \A k \in Keys, v \in Values : has(k, v) <=> f[k] = v
  <2>1. ASSUME NEW k \in Keys
        PROVE  f[k] \in Values \cup {NoValue} /\ \A v \in Values : has(k, v) <=> f[k] = v
    <3>1. CASE \E v \in Values : has(k, v)
      <4>1. f[k] \in Values /\ has(k, f[k])
        BY ONLY <3>1, k \in Keys, Zenon
      <4> QED BY ONLY <4>1, <1>2, k \in Keys
    <3>2. CASE ~ \E v \in Values : has(k, v)
      BY ONLY <3>2, k \in Keys, ValuesAssumption
    <3> QED BY ONLY <3>1, <3>2
  <2> HIDE DEF f
  <2>2. f = [k \in Keys |-> f[k]]
    BY ONLY DEF f
  <2> QED BY ONLY <2>1, <2>2
<1> HIDE DEF f
<1>4. Map!ContentsOf(mBuckets) = f
  BY ONLY <1>1, <1>3, ContentsAre DEF has
<1> QED BY ONLY <1>3, <1>4 DEF MapContents, has

LEMMA ContentsBecome ==
  ASSUME BucketsInv', NEW f \in [Keys -> Values \cup {NoValue}],
         \A k \in Keys, v \in Values :
           (\E i \in DOMAIN mBuckets' : <<k, v>> \in mBuckets'[i]) <=> f[k] = v
  PROVE  MapContents' = f
<1>1. \A i \in DOMAIN mBuckets' : mBuckets'[i] \subseteq Keys \X Values
  BY ONLY BucketsInv' DEF BucketsInv
<1>2. Map!ContentsOf(mBuckets') = f
  BY ONLY <1>1, ContentsAre, f \in [Keys -> Values \cup {NoValue}],
         \A k \in Keys, v \in Values :
           (\E i \in DOMAIN mBuckets' : <<k, v>> \in mBuckets'[i]) <=> f[k] = v
<1> QED BY ONLY <1>2, Zenon DEF MapContents, Map!ContentsOf

(* The maps: what a caller sees of a step.                                 *)

MapOps == [t \in MapThreads |-> Map!Operation(t)]
MapIdle == [name |-> "idle", key |-> NoKey, val |-> NoValue]
MapDone(r) == [name |-> "done", key |-> NoKey, val |-> r]
MapCall(l) == [name |-> l.op, key |-> l.key, val |-> l.val]

MapStep(t, o, m) == MapOps' = [MapOps EXCEPT ![t] = o] /\ MapContents' = m

LEMMA MapAbstractNext ==
  ASSUME NEW t \in MapThreads, NEW c, NEW l,
         \/ /\ MapOps[t] = MapIdle /\ MapStep(t, c, MapContents)
            /\ \/ c \in [name : {"find", "remove"}, key : Keys, val : {NoValue}]
               \/ c \in [name : {"addOrUpdate"}, key : Keys, val : Values]
               \/ c \in [name : {"getSnapShot"}, key : {NoKey}, val : {NoValue}]
         \/ /\ MapOps[t] = MapCall(l)
            /\ \/ l.op = "find" /\ MapStep(t, MapDone(MapContents[l.key]), MapContents)
               \/ /\ l.op \in {"addOrUpdate", "remove"}
                  /\ MapStep(t, MapDone(NoValue), [MapContents EXCEPT ![l.key] = l.val])
               \/ l.op = "getSnapShot" /\ MapStep(t, MapDone(MapContents), MapContents)
         \/ MapOps[t].name = "done" /\ MapStep(t, MapIdle, MapContents)
  PROVE  Map!Abstract!Next
<1> DEFINE ops == [u \in MapThreads |-> Map!Operation(u)]
           m == Map!ContentsOf(mBuckets)
<1>0. MapOps = ops /\ MapOps' = ops' /\ MapContents = m /\ MapContents' = m'
  BY ONLY DEF MapOps, MapContents
<1> HIDE DEF ops, m
<1>1. CASE /\ MapOps[t] = MapIdle /\ MapStep(t, c, MapContents)
           /\ \/ c \in [name : {"find", "remove"}, key : Keys, val : {NoValue}]
              \/ c \in [name : {"addOrUpdate"}, key : Keys, val : Values]
              \/ c \in [name : {"getSnapShot"}, key : {NoKey}, val : {NoValue}]
  <2>1. c \in Map!Abstract!Calls
    BY ONLY <1>1 DEF Map!Abstract!Calls
  <2>2. ops[t] = Map!Abstract!Idle /\ ops' = [ops EXCEPT ![t] = c] /\ m' = m
    BY ONLY <1>0, <1>1 DEF MapStep, MapIdle, Map!Abstract!Idle
  <2>3. Map!Abstract!Call(t)
    BY ONLY <2>1, <2>2 DEF ops, m, Map!Abstract!Call
  <2> QED BY ONLY <2>3, t \in MapThreads DEF Map!Abstract!Next
<1>2. CASE MapOps[t] = MapCall(l) /\ l.op = "find"
             /\ MapStep(t, MapDone(MapContents[l.key]), MapContents)
  <2>1. /\ ops[t].name = "find" /\ ops[t].key = l.key
        /\ ops' = [ops EXCEPT ![t] = Map!Abstract!Done(m[l.key])] /\ m' = m
    BY ONLY <1>0, <1>2 DEF MapStep, MapDone, MapCall, Map!Abstract!Done
  <2>2. Map!Abstract!Find(t)
    BY ONLY <2>1 DEF ops, m, Map!Abstract!Find
  <2> QED BY ONLY <2>2, t \in MapThreads DEF Map!Abstract!Next
<1>3. CASE MapOps[t] = MapCall(l) /\ l.op \in {"addOrUpdate", "remove"}
             /\ MapStep(t, MapDone(NoValue), [MapContents EXCEPT ![l.key] = l.val])
  <2>1. /\ ops[t].name \in {"addOrUpdate", "remove"} /\ ops[t].key = l.key /\ ops[t].val = l.val
        /\ ops' = [ops EXCEPT ![t] = Map!Abstract!Done(NoValue)]
        /\ m' = [m EXCEPT ![l.key] = l.val]
    BY ONLY <1>0, <1>3 DEF MapStep, MapDone, MapCall, Map!Abstract!Done
  <2>2. Map!Abstract!Change(t)
    BY ONLY <2>1 DEF ops, m, Map!Abstract!Change
  <2> QED BY ONLY <2>2, t \in MapThreads DEF Map!Abstract!Next
<1>4. CASE MapOps[t] = MapCall(l) /\ l.op = "getSnapShot"
             /\ MapStep(t, MapDone(MapContents), MapContents)
  <2>1. /\ ops[t].name = "getSnapShot"
        /\ ops' = [ops EXCEPT ![t] = Map!Abstract!Done(m)] /\ m' = m
    BY ONLY <1>0, <1>4 DEF MapStep, MapDone, MapCall, Map!Abstract!Done
  <2>2. Map!Abstract!GetSnapShot(t)
    BY ONLY <2>1 DEF ops, m, Map!Abstract!GetSnapShot
  <2> QED BY ONLY <2>2, t \in MapThreads DEF Map!Abstract!Next
<1>5. CASE MapOps[t].name = "done" /\ MapStep(t, MapIdle, MapContents)
  <2>1. ops[t].name = "done" /\ ops' = [ops EXCEPT ![t] = Map!Abstract!Idle] /\ m' = m
    BY ONLY <1>0, <1>5 DEF MapStep, MapIdle, Map!Abstract!Idle
  <2>2. Map!Abstract!Return(t)
    BY ONLY <2>1 DEF ops, m, Map!Abstract!Return
  <2> QED BY ONLY <2>2, t \in MapThreads DEF Map!Abstract!Next
<1> QED
  BY ONLY <1>1, <1>2, <1>3, <1>4, <1>5,
         \/ /\ MapOps[t] = MapIdle /\ MapStep(t, c, MapContents)
            /\ \/ c \in [name : {"find", "remove"}, key : Keys, val : {NoValue}]
               \/ c \in [name : {"addOrUpdate"}, key : Keys, val : Values]
               \/ c \in [name : {"getSnapShot"}, key : {NoKey}, val : {NoValue}]
         \/ /\ MapOps[t] = MapCall(l)
            /\ \/ l.op = "find" /\ MapStep(t, MapDone(MapContents[l.key]), MapContents)
               \/ /\ l.op \in {"addOrUpdate", "remove"}
                  /\ MapStep(t, MapDone(NoValue), [MapContents EXCEPT ![l.key] = l.val])
               \/ l.op = "getSnapShot" /\ MapStep(t, MapDone(MapContents), MapContents)
         \/ MapOps[t].name = "done" /\ MapStep(t, MapIdle, MapContents)

(* Of the local variables a caller sees the label, and the call until it has *)
(* taken effect, then its result.                                          *)
LEMMA MapOpIs ==
  ASSUME NEW t \in MapThreads
  PROVE  /\ MapOps[t] = Map!Operation(t)
         /\ loc[t].pc = "idle" => Map!Operation(t) = MapIdle
         /\ loc[t].pc \in Pending => Map!Operation(t) = MapCall(loc[t])
         /\ loc[t].pc # "idle" /\ loc[t].pc \notin Pending =>
              Map!Operation(t) = MapDone(loc[t].val)
<1>1. MapOps[t] = Map!Operation(t)
  BY ONLY t \in MapThreads DEF MapOps
<1>2. loc[t].pc = "idle" => Map!Operation(t) = MapIdle
  BY ONLY DEF Map!Operation, MapIdle
<1>3. loc[t].pc \in Pending => Map!Operation(t) = MapCall(loc[t])
  BY ONLY DEF Map!Operation, MapCall, Pending
<1>4. loc[t].pc # "idle" /\ loc[t].pc \notin Pending => Map!Operation(t) = MapDone(loc[t].val)
  BY ONLY DEF Map!Operation, MapDone, Pending
<1> QED BY ONLY <1>1, <1>2, <1>3, <1>4

(* The same after a step.                                                  *)
LEMMA MapOpBecomes ==
  ASSUME NEW t \in MapThreads, \A u \in MapThreads \ {t} : loc'[u] = loc[u]
  PROVE  /\ MapOps' = [MapOps EXCEPT ![t] = Map!Operation(t)']
         /\ Map!Operation(t)' = Map!Operation(t) => MapOps' = MapOps
         /\ loc'[t].pc = "idle" => Map!Operation(t)' = MapIdle
         /\ loc'[t].pc \in Pending => Map!Operation(t)' = MapCall(loc'[t])
         /\ loc'[t].pc # "idle" /\ loc'[t].pc \notin Pending =>
              Map!Operation(t)' = MapDone(loc'[t].val)
<1> DEFINE o(u) == Map!Operation(u)
<1>1. MapOps = [u \in MapThreads |-> o(u)] /\ MapOps' = [u \in MapThreads |-> o(u)']
  BY ONLY DEF MapOps
<1>2. \A u \in MapThreads \ {t} : o(u)' = o(u)
  BY ONLY \A u \in MapThreads \ {t} : loc'[u] = loc[u] DEF Map!Operation
<1>3. loc'[t].pc = "idle" => o(t)' = MapIdle
  BY ONLY DEF Map!Operation, MapIdle
<1>4. loc'[t].pc \in Pending => o(t)' = MapCall(loc'[t])
  BY ONLY DEF Map!Operation, MapCall, Pending
<1>5. loc'[t].pc # "idle" /\ loc'[t].pc \notin Pending => o(t)' = MapDone(loc'[t].val)
  BY ONLY DEF Map!Operation, MapDone, Pending
<1> HIDE DEF o
<1>6. /\ MapOps' = [MapOps EXCEPT ![t] = o(t)']
      /\ o(t)' = o(t) => MapOps' = MapOps
  BY ONLY <1>1, <1>2, t \in MapThreads
<1> QED BY ONLY <1>3, <1>4, <1>5, <1>6 DEF o

(* Steps that a caller does not notice.                                    *)

After == {"rehash", "compare", "drain", "copy", "swap", "publish", "open", "retire", "unlock"}

(* Before and after the instant at which the call takes effect.            *)
Drift(t, label) ==
  \/ loc[t].pc \in Pending /\ label \in Pending
  \/ loc[t].pc \in After /\ label \in After \cup {"done"}

Unnoticed == MapOps' = MapOps /\ MapVals'

LEMMA Kept ==
  ASSUME loc \in [MapThreads -> Locals], MapVals, NEW t \in MapThreads, NEW r,
         Map!Goto(t, r), Drift(t, r.pc), r.val = loc[t].val,
         loc[t].pc \in Pending => r.op = loc[t].op /\ r.key = loc[t].key
  PROVE  Unnoticed
<1>1. loc'[t] = r /\ \A u \in MapThreads \ {t} : loc'[u] = loc[u]
  BY ONLY Map!Goto(t, r), loc \in [MapThreads -> Locals], t \in MapThreads DEF Map!Goto
<1>2. MapVals'
  <2>1. \A u \in MapThreads : loc[u].pc \in After => loc[u].val = NoValue
    BY ONLY MapVals DEF MapVals, After
  <2>2. r.pc \in After => r.val = NoValue
    BY ONLY <2>1, Drift(t, r.pc), r.val = loc[t].val, t \in MapThreads DEF Drift, Pending, After
  <2>3. \A u \in MapThreads : loc'[u].pc \in After => loc'[u].val = NoValue
    BY ONLY <1>1, <2>1, <2>2
  <2> QED BY ONLY <2>3 DEF MapVals, After
<1>3. Map!Operation(t)' = Map!Operation(t)
  <2>1. CASE loc[t].pc \in Pending /\ r.pc \in Pending
    <3>1. MapCall(r) = MapCall(loc[t])
      BY ONLY <2>1, r.val = loc[t].val,
              loc[t].pc \in Pending => r.op = loc[t].op /\ r.key = loc[t].key
      DEF MapCall
    <3>2. Map!Operation(t)' = MapCall(r)
      BY ONLY <1>1, <2>1, t \in MapThreads, MapOpBecomes
    <3>3. Map!Operation(t) = MapCall(loc[t])
      BY ONLY <2>1, t \in MapThreads, MapOpIs
    <3> QED BY ONLY <3>1, <3>2, <3>3
  <2>2. CASE loc[t].pc \in After /\ r.pc \in After \cup {"done"}
    <3>1. /\ loc[t].pc # "idle" /\ loc[t].pc \notin Pending
          /\ r.pc # "idle" /\ r.pc \notin Pending
      BY ONLY <2>2 DEF After, Pending
    <3>2. Map!Operation(t)' = MapDone(r.val)
      BY ONLY <1>1, <3>1, t \in MapThreads, MapOpBecomes
    <3>3. Map!Operation(t) = MapDone(loc[t].val)
      BY ONLY <3>1, t \in MapThreads, MapOpIs
    <3> QED BY ONLY <3>2, <3>3, r.val = loc[t].val
  <2> QED BY ONLY <2>1, <2>2, Drift(t, r.pc) DEF Drift
<1>4. MapOps' = MapOps
  BY ONLY <1>1, <1>3, t \in MapThreads, MapOpBecomes
<1> QED BY ONLY <1>2, <1>4 DEF Unnoticed

LEMMA DoneFields ==
  ASSUME NEW t, NEW v
  PROVE  Map!Done(t, v).pc = "done" /\ Map!Done(t, v).val = v
BY ONLY SMTT(30) DEF Map!Done, Map!Away

(* The ways the local variables change then.                               *)
LEMMA Drifts ==
  ASSUME loc \in [MapThreads -> Locals], MapVals, NEW t \in MapThreads
  PROVE  /\ \A l : Drift(t, l) /\ Map!Goto(t, Map!At(t, l)) => Unnoticed
         /\ \A l, x : Drift(t, l) /\ Map!Goto(t, [Map!At(t, l) EXCEPT !.index = x]) => Unnoticed
         /\ \A l, x : Drift(t, l) /\ Map!Goto(t, [Map!At(t, l) EXCEPT !.locks = x]) => Unnoticed
         /\ \A l, x : Drift(t, l) /\ Map!Goto(t, [Map!At(t, l) EXCEPT !.new = x]) => Unnoticed
         /\ \A x : Drift(t, loc[t].pc) /\ Map!Goto(t, [loc[t] EXCEPT !.index = x]) => Unnoticed
         /\ \A x, y :
              Drift(t, loc[t].pc) /\ Map!Goto(t, [loc[t] EXCEPT !.index = x, !.new = y]) =>
                Unnoticed
         /\ Drift(t, "done") /\ Map!Goto(t, Map!Done(t, NoValue)) => Unnoticed
<1>0. DOMAIN loc[t] = {"pc", "op", "key", "val", "locks", "index", "prev", "new"}
  BY ONLY loc \in [MapThreads -> Locals], t \in MapThreads DEF Locals
<1>1. ASSUME NEW l, Drift(t, l), Map!Goto(t, Map!At(t, l)) PROVE Unnoticed
  <2>1. PICK r : r = Map!At(t, l)
    OBVIOUS
  <2>2. r.pc = l /\ r.op = loc[t].op /\ r.key = loc[t].key /\ r.val = loc[t].val
    BY ONLY <1>0, <2>1, SMTT(30) DEF Map!At
  <2>3. Map!Goto(t, r) /\ Drift(t, r.pc)
    BY ONLY <1>1, <2>1, <2>2
  <2> QED BY ONLY <2>2, <2>3, Kept, loc \in [MapThreads -> Locals], MapVals, t \in MapThreads
<1>2. ASSUME NEW l, NEW x, Drift(t, l), Map!Goto(t, [Map!At(t, l) EXCEPT !.index = x]) PROVE Unnoticed
  <2>1. PICK r : r = [Map!At(t, l) EXCEPT !.index = x]
    OBVIOUS
  <2>2. r.pc = l /\ r.op = loc[t].op /\ r.key = loc[t].key /\ r.val = loc[t].val
    BY ONLY <1>0, <2>1, SMTT(30) DEF Map!At
  <2>3. Map!Goto(t, r) /\ Drift(t, r.pc)
    BY ONLY <1>2, <2>1, <2>2
  <2> QED BY ONLY <2>2, <2>3, Kept, loc \in [MapThreads -> Locals], MapVals, t \in MapThreads
<1>3. ASSUME NEW l, NEW x, Drift(t, l), Map!Goto(t, [Map!At(t, l) EXCEPT !.locks = x]) PROVE Unnoticed
  <2>1. PICK r : r = [Map!At(t, l) EXCEPT !.locks = x]
    OBVIOUS
  <2>2. r.pc = l /\ r.op = loc[t].op /\ r.key = loc[t].key /\ r.val = loc[t].val
    BY ONLY <1>0, <2>1, SMTT(30) DEF Map!At
  <2>3. Map!Goto(t, r) /\ Drift(t, r.pc)
    BY ONLY <1>3, <2>1, <2>2
  <2> QED BY ONLY <2>2, <2>3, Kept, loc \in [MapThreads -> Locals], MapVals, t \in MapThreads
<1>4. ASSUME NEW l, NEW x, Drift(t, l), Map!Goto(t, [Map!At(t, l) EXCEPT !.new = x]) PROVE Unnoticed
  <2>1. PICK r : r = [Map!At(t, l) EXCEPT !.new = x]
    OBVIOUS
  <2>2. r.pc = l /\ r.op = loc[t].op /\ r.key = loc[t].key /\ r.val = loc[t].val
    BY ONLY <1>0, <2>1, SMTT(30) DEF Map!At
  <2>3. Map!Goto(t, r) /\ Drift(t, r.pc)
    BY ONLY <1>4, <2>1, <2>2
  <2> QED BY ONLY <2>2, <2>3, Kept, loc \in [MapThreads -> Locals], MapVals, t \in MapThreads
<1>5. ASSUME NEW x, Drift(t, loc[t].pc), Map!Goto(t, [loc[t] EXCEPT !.index = x]) PROVE Unnoticed
  <2>1. PICK r : r = [loc[t] EXCEPT !.index = x]
    OBVIOUS
  <2>2. r.pc = loc[t].pc /\ r.op = loc[t].op /\ r.key = loc[t].key /\ r.val = loc[t].val
    BY ONLY <1>0, <2>1, SMTT(30)
  <2>3. Map!Goto(t, r) /\ Drift(t, r.pc)
    BY ONLY <1>5, <2>1, <2>2
  <2> QED BY ONLY <2>2, <2>3, Kept, loc \in [MapThreads -> Locals], MapVals, t \in MapThreads
<1>6. ASSUME NEW x, NEW y, Drift(t, loc[t].pc), Map!Goto(t, [loc[t] EXCEPT !.index = x, !.new = y]) PROVE Unnoticed
  <2>1. PICK r : r = [loc[t] EXCEPT !.index = x, !.new = y]
    OBVIOUS
  <2>2. r.pc = loc[t].pc /\ r.op = loc[t].op /\ r.key = loc[t].key /\ r.val = loc[t].val
    BY ONLY <1>0, <2>1, SMTT(30)
  <2>3. Map!Goto(t, r) /\ Drift(t, r.pc)
    BY ONLY <1>6, <2>1, <2>2
  <2> QED BY ONLY <2>2, <2>3, Kept, loc \in [MapThreads -> Locals], MapVals, t \in MapThreads
<1>7. ASSUME Drift(t, "done"), Map!Goto(t, Map!Done(t, NoValue)) PROVE Unnoticed
  <2>1. PICK r : r = Map!Done(t, NoValue)
    OBVIOUS
  <2>2. r.pc = "done" /\ r.val = NoValue
    BY ONLY <2>1, DoneFields
  <2>3. Map!Goto(t, r) /\ Drift(t, r.pc)
    BY ONLY <1>7, <2>1, <2>2
  <2>4. loc[t].pc \in After /\ loc[t].pc \notin Pending
    BY ONLY <1>7 DEF Drift, Pending, After
  <2>5. loc[t].val = NoValue
    BY ONLY <2>4, MapVals, t \in MapThreads DEF MapVals, After
  <2> QED BY ONLY <2>2, <2>3, <2>4, <2>5, Kept, loc \in [MapThreads -> Locals], MapVals,
                  t \in MapThreads
<1>11. \A l : Drift(t, l) /\ Map!Goto(t, Map!At(t, l)) => Unnoticed
  BY ONLY <1>1, Zenon
<1>12. \A l, x : Drift(t, l) /\ Map!Goto(t, [Map!At(t, l) EXCEPT !.index = x]) => Unnoticed
  BY ONLY <1>2, Zenon
<1>13. \A l, x : Drift(t, l) /\ Map!Goto(t, [Map!At(t, l) EXCEPT !.locks = x]) => Unnoticed
  BY ONLY <1>3, Zenon
<1>14. \A l, x : Drift(t, l) /\ Map!Goto(t, [Map!At(t, l) EXCEPT !.new = x]) => Unnoticed
  BY ONLY <1>4, Zenon
<1>15. \A x : Drift(t, loc[t].pc) /\ Map!Goto(t, [loc[t] EXCEPT !.index = x]) => Unnoticed
  BY ONLY <1>5, Zenon
<1>16. \A x, y : Drift(t, loc[t].pc) /\ Map!Goto(t, [loc[t] EXCEPT !.index = x, !.new = y]) =>
                 Unnoticed
  BY ONLY <1>6, Zenon
<1> QED BY ONLY <1>7, <1>11, <1>12, <1>13, <1>14, <1>15, <1>16, Zenon

(* Calls, accesses and returns.                                            *)

SameContents == MapContents' = MapContents

LEMMA BucketsKept == mBuckets' = mBuckets => SameContents
BY ONLY DEF SameContents, MapContents, Map!ContentsOf

MapMoves == Map!Abstract!Next \/ (MapOps' = MapOps /\ SameContents)

LEMMA UnnoticedMoves == Unnoticed /\ SameContents => MapMoves /\ MapVals'
BY ONLY DEF Unnoticed, MapMoves

LEMMA ValsKept ==
  ASSUME MapVals, NEW t \in MapThreads, \A u \in MapThreads : u # t => loc'[u] = loc[u],
         loc'[t].pc \in After => loc'[t].val = NoValue
  PROVE  MapVals'
BY ONLY MapVals, \A u \in MapThreads : u # t => loc'[u] = loc[u],
        loc'[t].pc \in After => loc'[t].val = NoValue
DEF MapVals, After

LEMMA CallMaps ==
  ASSUME loc \in [MapThreads -> Locals], MapVals, NEW t \in MapThreads, NEW ops,
         Map!Call(t, ops), ops \subseteq {"find", "addOrUpdate", "remove", "getSnapShot"}
  PROVE  MapMoves /\ MapVals'
<1>1. loc[t].pc = "idle" /\ mBuckets' = mBuckets
  BY ONLY Map!Call(t, ops) DEF Map!Call
<1>2. PICK o \in ops, k \in Keys \cup {NoKey}, v \in Values \cup {NoValue} :
        /\ o = "getSnapShot" <=> k = NoKey
        /\ o = "addOrUpdate" <=> v # NoValue
        /\ Map!Goto(t, [Map!Away EXCEPT !.pc = "acquire", !.op = o, !.key = k, !.val = v])
  BY ONLY Map!Call(t, ops) DEF Map!Call
<1> DEFINE r == [Map!Away EXCEPT !.pc = "acquire", !.op = o, !.key = k, !.val = v]
           c == [name |-> o, key |-> k, val |-> v]
<1>3. r.pc = "acquire" /\ r.op = o /\ r.key = k /\ r.val = v
  BY ONLY SMTT(30) DEF Map!Away
<1>4. Map!Goto(t, r)
  BY ONLY <1>2
<1> HIDE DEF r
<1>5. loc'[t] = r /\ \A u \in MapThreads : u # t => loc'[u] = loc[u]
  BY ONLY <1>4, loc \in [MapThreads -> Locals], t \in MapThreads DEF Map!Goto
<1>6. \/ c \in [name : {"find", "remove"}, key : Keys, val : {NoValue}]
      \/ c \in [name : {"addOrUpdate"}, key : Keys, val : Values]
      \/ c \in [name : {"getSnapShot"}, key : {NoKey}, val : {NoValue}]
  BY ONLY <1>2, o \in ops, k \in Keys \cup {NoKey}, v \in Values \cup {NoValue},
          ops \subseteq {"find", "addOrUpdate", "remove", "getSnapShot"}
<1>7. MapOps[t] = MapIdle
  BY ONLY <1>1, t \in MapThreads, MapOpIs
<1>8. MapStep(t, c, MapContents)
  <2>1. loc'[t].pc \in Pending
    BY ONLY <1>3, <1>5 DEF Pending
  <2>2. \A u \in MapThreads \ {t} : loc'[u] = loc[u]
    BY ONLY <1>5
  <2>3. MapCall(loc'[t]) = c
    BY ONLY <1>3, <1>5 DEF MapCall
  <2>4. MapOps' = [MapOps EXCEPT ![t] = c]
    BY ONLY <2>1, <2>2, <2>3, t \in MapThreads, MapOpBecomes
  <2> QED BY ONLY <1>1, <2>4, BucketsKept DEF MapStep, SameContents
<1> HIDE DEF c
<1>9. Map!Abstract!Next
  BY ONLY <1>6, <1>7, <1>8, t \in MapThreads, MapAbstractNext
<1>10. MapVals'
  <2>1. loc'[t].pc \notin After
    BY ONLY <1>3, <1>5 DEF After
  <2> QED BY ONLY <1>5, <2>1, MapVals, t \in MapThreads, ValsKept
<1> QED BY ONLY <1>9, <1>10 DEF MapMoves

LEMMA ReturnMaps ==
  ASSUME loc \in [MapThreads -> Locals], MapVals, NEW t \in MapThreads, Map!Return(t)
  PROVE  MapMoves /\ MapVals'
<1>1. /\ loc[t].pc = "done" /\ mBuckets' = mBuckets /\ loc'[t] = Map!Away
      /\ \A u \in MapThreads : u # t => loc'[u] = loc[u]
  BY ONLY Map!Return(t), loc \in [MapThreads -> Locals], t \in MapThreads
  DEF Map!Return, Map!Goto
<1>2. loc'[t].pc = "idle"
  BY ONLY <1>1 DEF Map!Away
<1>3. MapOps[t].name = "done"
  <2>1. loc[t].pc # "idle" /\ loc[t].pc \notin Pending
    BY ONLY <1>1 DEF Pending
  <2>2. MapOps[t] = MapDone(loc[t].val)
    BY ONLY <2>1, t \in MapThreads, MapOpIs
  <2> QED BY ONLY <2>2 DEF MapDone
<1>4. MapStep(t, MapIdle, MapContents)
  <2>1. \A u \in MapThreads \ {t} : loc'[u] = loc[u]
    BY ONLY <1>1
  <2>2. MapOps' = [MapOps EXCEPT ![t] = MapIdle]
    BY ONLY <1>2, <2>1, t \in MapThreads, MapOpBecomes
  <2> QED BY ONLY <1>1, <2>2, BucketsKept DEF MapStep, SameContents
<1>5. Map!Abstract!Next
  BY ONLY <1>3, <1>4, t \in MapThreads, MapAbstractNext
<1>6. MapVals'
  <2>1. loc'[t].pc \notin After
    BY ONLY <1>2 DEF After
  <2> QED BY ONLY <1>1, <2>1, MapVals, t \in MapThreads, ValsKept
<1> QED BY ONLY <1>5, <1>6 DEF MapMoves

(* A call that takes effect.                                               *)
LEMMA TakesEffect ==
  ASSUME NEW t \in MapThreads, MapVals, loc[t].pc \in Pending,
         \A u \in MapThreads : u # t => loc'[u] = loc[u],
         loc'[t].pc \in After \cup {"done"}, loc'[t].pc \in After => loc'[t].val = NoValue,
         \/ /\ loc[t].op = "find" /\ loc'[t].val = MapContents[loc[t].key]
            /\ MapContents' = MapContents
         \/ /\ loc[t].op \in {"addOrUpdate", "remove"} /\ loc'[t].val = NoValue
            /\ MapContents' = [MapContents EXCEPT ![loc[t].key] = loc[t].val]
         \/ /\ loc[t].op = "getSnapShot" /\ loc'[t].val = MapContents
            /\ MapContents' = MapContents
  PROVE  MapMoves /\ MapVals'
<1>1. MapVals'
  BY ONLY MapVals, t \in MapThreads, \A u \in MapThreads : u # t => loc'[u] = loc[u],
          loc'[t].pc \in After => loc'[t].val = NoValue, ValsKept
<1>2. PICK l : l = loc[t]
  OBVIOUS
<1>3. MapOps[t] = MapCall(l)
  BY ONLY <1>2, loc[t].pc \in Pending, t \in MapThreads, MapOpIs
<1>4. MapOps' = [MapOps EXCEPT ![t] = MapDone(loc'[t].val)]
  <2>1. loc'[t].pc # "idle" /\ loc'[t].pc \notin Pending
    BY ONLY loc'[t].pc \in After \cup {"done"} DEF After, Pending
  <2>2. \A u \in MapThreads \ {t} : loc'[u] = loc[u]
    BY ONLY \A u \in MapThreads : u # t => loc'[u] = loc[u]
  <2> QED BY ONLY <2>1, <2>2, t \in MapThreads, MapOpBecomes
<1>5. CASE /\ l.op = "find" /\ loc'[t].val = MapContents[l.key]
           /\ MapContents' = MapContents
  <2>1. MapStep(t, MapDone(MapContents[l.key]), MapContents)
    BY ONLY <1>4, <1>5 DEF MapStep
  <2> QED BY ONLY <1>1, <1>3, <1>5, <2>1, t \in MapThreads, MapAbstractNext DEF MapMoves
<1>6. CASE /\ l.op \in {"addOrUpdate", "remove"} /\ loc'[t].val = NoValue
           /\ MapContents' = [MapContents EXCEPT ![l.key] = l.val]
  <2>1. MapStep(t, MapDone(NoValue), [MapContents EXCEPT ![l.key] = l.val])
    BY ONLY <1>4, <1>6 DEF MapStep
  <2> QED BY ONLY <1>1, <1>3, <1>6, <2>1, t \in MapThreads, MapAbstractNext DEF MapMoves
<1>7. CASE /\ l.op = "getSnapShot" /\ loc'[t].val = MapContents
           /\ MapContents' = MapContents
  <2>1. MapStep(t, MapDone(MapContents), MapContents)
    BY ONLY <1>4, <1>7 DEF MapStep
  <2> QED BY ONLY <1>1, <1>3, <1>7, <2>1, t \in MapThreads, MapAbstractNext DEF MapMoves
<1> QED
  BY ONLY <1>2, <1>5, <1>6, <1>7,
         \/ /\ loc[t].op = "find" /\ loc'[t].val = MapContents[loc[t].key]
            /\ MapContents' = MapContents
         \/ /\ loc[t].op \in {"addOrUpdate", "remove"} /\ loc'[t].val = NoValue
            /\ MapContents' = [MapContents EXCEPT ![loc[t].key] = loc[t].val]
         \/ /\ loc[t].op = "getSnapShot" /\ loc'[t].val = MapContents
            /\ MapContents' = MapContents

(* find, addOrUpdate and remove.                                           *)
LEMMA AccessMaps ==
  ASSUME loc \in [MapThreads -> Locals], BucketsInv, BucketsInv', MapVals,
         NEW t \in MapThreads, LocalInv(t), NEW g \in BOOLEAN, Map!access(t, g)
  PROVE  MapMoves /\ MapVals'
<1>0. /\ loc[t].pc = "access" /\ loc[t].pc \in Pending
      /\ loc' \in [MapThreads -> Locals]
      /\ \A u \in MapThreads : u # t => loc'[u] = loc[u]
  <2>1. loc[t].pc = "access" /\ loc' \in [MapThreads -> Locals]
        /\ \A u \in MapThreads : u # t => loc'[u] = loc[u]
    BY ONLY loc \in [MapThreads -> Locals], BucketsInv, t \in MapThreads, LocalInv(t),
            g \in BOOLEAN, Map!access(t, g), AccessMoves
  <2> QED BY ONLY <2>1 DEF Pending
<1>1. /\ loc[t].key \in Keys
      /\ \A e \in Map!found(t) : e[2] \in Values /\ e = <<loc[t].key, e[2]>>
      /\ \A i \in DOMAIN mBuckets, v \in Values :
           <<loc[t].key, v>> \in mBuckets[i] <=>
             i = loc[t].index /\ <<loc[t].key, v>> \in Map!found(t)
      /\ loc[t].index \in DOMAIN mBuckets
  BY ONLY <1>0, Found, loc \in [MapThreads -> Locals], BucketsInv, t \in MapThreads, LocalInv(t)
<1>2. /\ MapContents \in [Keys -> Values \cup {NoValue}]
      /\ \A k \in Keys, v \in Values :
           (\E i \in DOMAIN mBuckets : <<k, v>> \in mBuckets[i]) <=> MapContents[k] = v
  BY ONLY BucketsInv, ContentsHave
<1>3. ASSUME NEW v, Map!Goto(t, Map!Done(t, v))
      PROVE  loc'[t].pc = "done" /\ loc'[t].val = v
  <2>1. loc'[t] = Map!Done(t, v)
    BY ONLY <1>3, loc \in [MapThreads -> Locals], t \in MapThreads DEF Map!Goto
  <2> QED BY ONLY <2>1, DoneFields
<1>4. CASE Map!find(t)
  <2>1. /\ loc[t].op = "find" /\ mBuckets' = mBuckets
        /\ \E r \in IF Map!found(t) = {} THEN {NoValue} ELSE {e[2] : e \in Map!found(t)} :
             Map!Goto(t, Map!Done(t, r))
    BY ONLY <1>4 DEF Map!find
  <2>2. PICK r \in IF Map!found(t) = {} THEN {NoValue} ELSE {e[2] : e \in Map!found(t)} :
          Map!Goto(t, Map!Done(t, r))
    BY ONLY <2>1
  <2>3. r = MapContents[loc[t].key]
    <3>1. CASE Map!found(t) = {}
      <4>1. r = NoValue
        BY ONLY <3>1, r \in IF Map!found(t) = {} THEN {NoValue} ELSE {e[2] : e \in Map!found(t)}
      <4>2. ASSUME NEW v \in Values PROVE MapContents[loc[t].key] # v
        BY ONLY <1>1, <1>2, <3>1, v \in Values
      <4>3. MapContents[loc[t].key] \in Values \cup {NoValue}
        BY ONLY <1>1, <1>2
      <4> QED BY ONLY <4>1, <4>2, <4>3
    <3>2. CASE Map!found(t) # {}
      <4>1. PICK e \in Map!found(t) : r = e[2]
        BY ONLY <3>2, r \in IF Map!found(t) = {} THEN {NoValue} ELSE {e[2] : e \in Map!found(t)}
      <4>2. r \in Values /\ <<loc[t].key, r>> \in Map!found(t)
        BY ONLY <1>1, <4>1, e \in Map!found(t)
      <4>3. <<loc[t].key, r>> \in mBuckets[loc[t].index]
        BY ONLY <1>1, <4>2
      <4> QED BY ONLY <1>1, <1>2, <4>2, <4>3
    <3> QED BY ONLY <3>1, <3>2
  <2>4. loc'[t].pc = "done" /\ loc'[t].val = r
    BY ONLY <1>3, <2>2
  <2>5. loc'[t].pc \in After \cup {"done"} /\ loc'[t].pc \notin After
    BY ONLY <2>4 DEF After
  <2>6. MapContents' = MapContents
    BY ONLY <2>1, BucketsKept DEF SameContents
  <2> QED BY ONLY <1>0, <2>1, <2>3, <2>4, <2>5, <2>6, t \in MapThreads, MapVals, TakesEffect
<1>5. CASE Map!addOrUpdate(t, g)
  <2>1. /\ loc[t].op = "addOrUpdate"
        /\ mBuckets' = [mBuckets EXCEPT
             ![loc[t].index] = (@ \ Map!found(t)) \cup {<<loc[t].key, loc[t].val>>}]
        /\ \/ Map!Goto(t, Map!Done(t, NoValue))
           \/ Map!Goto(t, [Map!Away EXCEPT !.pc = "rehash", !.op = loc[t].op, !.prev = Map!Size])
    BY ONLY <1>5 DEF Map!addOrUpdate
  <2>2. loc'[t].pc \in {"rehash", "done"} /\ loc'[t].val = NoValue
    <3>1. CASE Map!Goto(t, Map!Done(t, NoValue))
      BY ONLY <1>3, <3>1
    <3>2. CASE Map!Goto(t, [Map!Away EXCEPT !.pc = "rehash", !.op = loc[t].op, !.prev = Map!Size])
      <4> DEFINE r == [Map!Away EXCEPT !.pc = "rehash", !.op = loc[t].op, !.prev = Map!Size]
      <4>1. r.pc = "rehash" /\ r.val = NoValue
        BY ONLY SMTT(30) DEF Map!Away
      <4>2. Map!Goto(t, r)
        BY ONLY <3>2
      <4> HIDE DEF r
      <4>3. loc'[t] = r
        BY ONLY <4>2, loc \in [MapThreads -> Locals], t \in MapThreads DEF Map!Goto
      <4> QED BY ONLY <4>1, <4>3
    <3> QED BY ONLY <2>1, <3>1, <3>2
  <2>3. loc[t].val \in Values
    BY ONLY <1>0, <2>1, LocalInv(t) DEF LocalInv
  <2>4. /\ DOMAIN mBuckets' = DOMAIN mBuckets
        /\ \A i \in DOMAIN mBuckets, k \in Keys, v \in Values :
             <<k, v>> \in mBuckets'[i] <=>
               IF k = loc[t].key THEN i = loc[t].index /\ v = loc[t].val
               ELSE <<k, v>> \in mBuckets[i]
    BY ONLY <1>0, <2>1, <2>3, PairsAdded, loc \in [MapThreads -> Locals], BucketsInv,
            t \in MapThreads, LocalInv(t)
  <2> DEFINE f == [MapContents EXCEPT ![loc[t].key] = loc[t].val]
  <2>5. /\ f \in [Keys -> Values \cup {NoValue}]
        /\ \A k \in Keys : f[k] = IF k = loc[t].key THEN loc[t].val ELSE MapContents[k]
    BY ONLY <1>1, <1>2, <2>3
  <2> HIDE DEF f
  <2>6. ASSUME NEW k \in Keys, NEW v \in Values
        PROVE  (\E i \in DOMAIN mBuckets' : <<k, v>> \in mBuckets'[i]) <=> f[k] = v
    <3>1. CASE k = loc[t].key
      BY ONLY <1>1, <2>4, <2>5, <3>1, k \in Keys, v \in Values
    <3>2. CASE k # loc[t].key
      BY ONLY <1>2, <2>4, <2>5, <3>2, k \in Keys, v \in Values
    <3> QED BY ONLY <3>1, <3>2
  <2>7. MapContents' = f
    BY ONLY <2>5, <2>6, BucketsInv', ContentsBecome
  <2>8. MapContents' = [MapContents EXCEPT ![loc[t].key] = loc[t].val]
    BY ONLY <2>7 DEF f
  <2>9. loc'[t].pc \in After \cup {"done"}
    BY ONLY <2>2 DEF After
  <2> QED BY ONLY <1>0, <2>1, <2>2, <2>8, <2>9, t \in MapThreads, MapVals, TakesEffect
<1>6. CASE Map!remove(t, g)
  <2>1. /\ loc[t].op = "remove"
        /\ mBuckets' = [mBuckets EXCEPT ![loc[t].index] = @ \ Map!found(t)]
        /\ Map!Goto(t, Map!Done(t, NoValue))
    BY ONLY <1>6 DEF Map!remove
  <2>2. loc'[t].pc = "done" /\ loc'[t].val = NoValue
    BY ONLY <1>3, <2>1
  <2>3. loc[t].val = NoValue
    BY ONLY <1>0, <2>1, LocalInv(t) DEF LocalInv
  <2>4. /\ DOMAIN mBuckets' = DOMAIN mBuckets
        /\ \A i \in DOMAIN mBuckets, k \in Keys, v \in Values :
             <<k, v>> \in mBuckets'[i] <=> k # loc[t].key /\ <<k, v>> \in mBuckets[i]
    BY ONLY <1>0, <2>1, PairsRemoved, loc \in [MapThreads -> Locals], BucketsInv,
            t \in MapThreads, LocalInv(t)
  <2> DEFINE f == [MapContents EXCEPT ![loc[t].key] = loc[t].val]
  <2>5. /\ f \in [Keys -> Values \cup {NoValue}]
        /\ \A k \in Keys : f[k] = IF k = loc[t].key THEN NoValue ELSE MapContents[k]
    BY ONLY <1>1, <1>2, <2>3
  <2> HIDE DEF f
  <2>6. ASSUME NEW k \in Keys, NEW v \in Values
        PROVE  (\E i \in DOMAIN mBuckets' : <<k, v>> \in mBuckets'[i]) <=> f[k] = v
    <3>1. CASE k = loc[t].key
      BY ONLY <2>4, <2>5, <3>1, k \in Keys, v \in Values, ValuesAssumption
    <3>2. CASE k # loc[t].key
      BY ONLY <1>2, <2>4, <2>5, <3>2, k \in Keys, v \in Values
    <3> QED BY ONLY <3>1, <3>2
  <2>7. MapContents' = f
    BY ONLY <2>5, <2>6, BucketsInv', ContentsBecome
  <2>8. MapContents' = [MapContents EXCEPT ![loc[t].key] = loc[t].val]
    BY ONLY <2>7 DEF f
  <2>9. loc'[t].pc \in After \cup {"done"}
    BY ONLY <2>2 DEF After
  <2> QED BY ONLY <1>0, <2>1, <2>2, <2>8, <2>9, t \in MapThreads, MapVals, TakesEffect
<1> QED BY ONLY <1>4, <1>5, <1>6, Map!access(t, g) DEF Map!access

(* rehash moves the elements, and keeps them.                              *)
LEMMA SwapMaps ==
  ASSUME loc \in [MapThreads -> Locals], BucketsInv, MapVals, NEW t \in MapThreads,
         structure' = structure, NEW label \in After, Map!swap(t, label),
         loc[t].new = Spread(2 * loc[t].prev), loc[t].prev = Map!Size,
         2 * loc[t].prev <= MaxSize
  PROVE  MapMoves /\ MapVals'
<1>1. /\ loc[t].pc = "swap" /\ mBuckets' = loc[t].new /\ mSize' = mSize
      /\ Map!Goto(t, [Map!At(t, label) EXCEPT !.new = <<>>])
  BY ONLY Map!swap(t, label) DEF Map!swap
<1>2. mBuckets' = Spread(2 * Map!Size) /\ 2 * Map!Size <= MaxSize
  BY ONLY <1>1, loc[t].new = Spread(2 * loc[t].prev), loc[t].prev = Map!Size,
          2 * loc[t].prev <= MaxSize
<1>3. /\ BucketsInv'
      /\ \A k \in Keys, v \in Values :
           (\E i \in DOMAIN mBuckets' : <<k, v>> \in mBuckets'[i])
             <=> \E j \in DOMAIN mBuckets : <<k, v>> \in mBuckets[j]
  BY ONLY <1>1, <1>2, BucketsInv, structure' = structure, SwapBuckets
<1>4. /\ MapContents \in [Keys -> Values \cup {NoValue}]
      /\ \A k \in Keys, v \in Values :
           (\E i \in DOMAIN mBuckets : <<k, v>> \in mBuckets[i]) <=> MapContents[k] = v
  BY ONLY BucketsInv, ContentsHave
<1>5. \A k \in Keys, v \in Values :
        (\E i \in DOMAIN mBuckets' : <<k, v>> \in mBuckets'[i]) <=> MapContents[k] = v
  BY ONLY <1>3, <1>4, Zenon
<1>6. SameContents
  BY ONLY <1>3, <1>4, <1>5, ContentsBecome DEF SameContents
<1>7. Drift(t, label)
  BY ONLY <1>1, label \in After DEF Drift, After
<1>8. Unnoticed
  BY ONLY <1>1, <1>7, Drifts, loc \in [MapThreads -> Locals], MapVals, t \in MapThreads
<1> QED BY ONLY <1>6, <1>8, UnnoticedMoves

(* FixedSizeThreadSafeHashMap.                                             *)

LEMMA FixedLockMaps ==
  ASSUME loc \in [MapThreads -> Locals], MapVals, NEW t \in MapThreads, FixedSize!lock(t)
  PROVE  MapMoves /\ MapVals'
<1>1. /\ loc[t].pc = "acquire" /\ mBuckets' = mBuckets
      /\ \E i : Map!Goto(t, [Map!At(t, "access") EXCEPT !.index = i])
  BY ONLY FixedSize!lock(t)
  DEF FixedSize!lock, FixedSize!Goto, FixedSize!At, Map!Goto, Map!At
<1>2. Drift(t, "access")
  BY ONLY <1>1 DEF Drift, Pending
<1>3. Unnoticed
  BY ONLY <1>1, <1>2, Drifts, loc \in [MapThreads -> Locals], MapVals, t \in MapThreads
<1> QED BY ONLY <1>1, <1>3, BucketsKept, UnnoticedMoves

LEMMA FixedLockAllMaps ==
  ASSUME loc \in [MapThreads -> Locals], MapVals, NEW t \in MapThreads, FixedSize!lockAll(t)
  PROVE  MapMoves /\ MapVals'
<1>1. /\ loc[t].pc = "acquire" /\ mBuckets' = mBuckets
      /\ \/ Map!Goto(t, [loc[t] EXCEPT !.index = loc[t].index + 1])
         \/ Map!Goto(t, [Map!At(t, "collect") EXCEPT !.index = 0])
  BY ONLY FixedSize!lockAll(t)
  DEF FixedSize!lockAll, FixedSize!Goto, FixedSize!At, Map!Goto, Map!At
<1>2. Drift(t, "collect") /\ Drift(t, loc[t].pc)
  BY ONLY <1>1 DEF Drift, Pending
<1>3. Unnoticed
  BY ONLY <1>1, <1>2, Drifts, loc \in [MapThreads -> Locals], MapVals, t \in MapThreads
<1> QED BY ONLY <1>1, <1>3, BucketsKept, UnnoticedMoves

(* The snapshot is the map at the instant at which the last bucket is      *)
(* copied: nobody could change the others since they were.                 *)
LEMMA FixedCollectMaps ==
  ASSUME MapInv, MapVals, structure = "fixed", NEW t \in MapThreads, FixedSize!collect(t)
  PROVE  MapMoves /\ MapVals'
<1>1. /\ loc \in [MapThreads -> Locals] /\ BucketsInv
      /\ length[mLocks] = Map!Size /\ FixedThread(t)
  BY ONLY MapInv, structure = "fixed", t \in MapThreads, FixedParts
<1> PICK i : i = loc[t].index
  OBVIOUS
<1> PICK ans : ans = [j \in 0 .. i |-> IF j = i THEN mBuckets[j] ELSE loc[t].new[j]]
  OBVIOUS
<1>2. /\ loc[t].pc = "collect" /\ loc[t].op = "getSnapShot" /\ i \in Indices
      /\ \A j \in 0 .. i - 1 : loc[t].new[j] = mBuckets[j]
  BY ONLY <1>1, FixedSize!collect(t), i = loc[t].index DEF FixedThread, FixedSize!collect
<1>3. /\ mBuckets' = mBuckets
      /\ IF i + 1 < Map!Size
         THEN Map!Goto(t, [loc[t] EXCEPT !.index = i + 1, !.new = ans])
         ELSE Map!Goto(t, Map!Done(t, Map!ContentsOf(ans)))
  <2>1. FixedSize!ContentsOf(ans) = Map!ContentsOf(ans)
    BY ONLY DEF FixedSize!ContentsOf, Map!ContentsOf
  <2> QED
    BY ONLY FixedSize!collect(t), i = loc[t].index, <2>1, SameSize,
            ans = [j \in 0 .. i |-> IF j = i THEN mBuckets[j] ELSE loc[t].new[j]]
    DEF FixedSize!collect, FixedSize!Goto, Map!Goto, FixedSize!Done, Map!Done, FixedSize!Away,
        Map!Away
<1>4. MapContents' = MapContents
  BY ONLY <1>3, BucketsKept DEF SameContents
<1>5. CASE i + 1 < Map!Size
  <2>1. Drift(t, loc[t].pc)
    BY ONLY <1>2 DEF Drift, Pending
  <2>2. Unnoticed
    BY ONLY <1>1, <1>3, <1>5, <2>1, Drifts, MapVals, t \in MapThreads
  <2> QED BY ONLY <1>3, <2>2, BucketsKept, UnnoticedMoves
<1>6. CASE ~ i + 1 < Map!Size
  <2>1. /\ DOMAIN mBuckets = 0 .. i /\ \A j \in 0 .. i : j = i \/ j \in 0 .. i - 1
    <3>1. Indices = 0 .. Map!Size - 1 /\ Map!Size \in 1 .. MaxSize
          /\ DOMAIN mBuckets = 0 .. Map!Size - 1
      BY ONLY <1>1 DEF Indices, BucketsInv
    <3> QED BY ONLY <1>2, <1>6, <3>1, SizesAssumption, SMTT(30)
  <2>2. DOMAIN ans = DOMAIN mBuckets /\ \A j \in DOMAIN mBuckets : ans[j] = mBuckets[j]
    BY ONLY <1>2, <2>1,
            ans = [j \in 0 .. i |-> IF j = i THEN mBuckets[j] ELSE loc[t].new[j]]
  <2>3. /\ MapContents \in [Keys -> Values \cup {NoValue}]
        /\ \A k \in Keys, v \in Values :
             (\E j \in DOMAIN mBuckets : <<k, v>> \in mBuckets[j]) <=> MapContents[k] = v
    BY ONLY <1>1, ContentsHave
  <2>4. \A j \in DOMAIN ans : ans[j] \subseteq Keys \X Values
    BY ONLY <1>1, <2>2 DEF BucketsInv
  <2>5. \A k \in Keys, v \in Values :
          (\E j \in DOMAIN ans : <<k, v>> \in ans[j]) <=> MapContents[k] = v
    BY ONLY <2>2, <2>3
  <2>6. Map!ContentsOf(ans) = MapContents
    BY ONLY <2>3, <2>4, <2>5, ContentsAre
  <2>7. loc'[t].pc = "done" /\ loc'[t].val = MapContents
        /\ \A u \in MapThreads : u # t => loc'[u] = loc[u]
    <3>1. Map!Goto(t, Map!Done(t, MapContents))
      BY ONLY <1>3, <1>6, <2>6
    <3>2. loc'[t] = Map!Done(t, MapContents) /\ \A u \in MapThreads : u # t => loc'[u] = loc[u]
      BY ONLY <1>1, <3>1, t \in MapThreads DEF Map!Goto
    <3> QED BY ONLY <3>2, DoneFields
  <2>8. loc[t].pc \in Pending /\ loc'[t].pc \in After \cup {"done"} /\ loc'[t].pc \notin After
    BY ONLY <1>2, <2>7 DEF Pending, After
  <2> QED BY ONLY <1>2, <1>4, <2>7, <2>8, MapVals, t \in MapThreads, TakesEffect
<1> QED BY ONLY <1>5, <1>6

LEMMA FixedMaps ==
  ASSUME MapInv, MapInv', MapVals, structure = "fixed", FixedSize!Next
  PROVE  MapMoves /\ MapVals'
<1> PICK t \in MapThreads :
      \/ FixedSize!Call(t, {"find", "addOrUpdate", "remove", "getSnapShot"})
      \/ FixedSize!lock(t) \/ FixedSize!access(t, FALSE) \/ FixedSize!lockAll(t)
      \/ FixedSize!collect(t) \/ FixedSize!Return(t)
  BY ONLY FixedSize!Next DEF FixedSize!Next
<1>1. \/ Map!Call(t, {"find", "addOrUpdate", "remove", "getSnapShot"}) \/ Map!Return(t)
      \/ FixedSize!lock(t) \/ Map!access(t, FALSE) \/ FixedSize!lockAll(t)
      \/ FixedSize!collect(t)
  BY ONLY SameOthers, SameAccess, Zenon,
      \/ FixedSize!Call(t, {"find", "addOrUpdate", "remove", "getSnapShot"})
      \/ FixedSize!lock(t) \/ FixedSize!access(t, FALSE) \/ FixedSize!lockAll(t)
      \/ FixedSize!collect(t) \/ FixedSize!Return(t)
<1>2. loc \in [MapThreads -> Locals] /\ BucketsInv /\ BucketsInv' /\ LocalInv(t)
  BY ONLY MapInv, MapInv', t \in MapThreads DEF MapInv
<1>3. {"find", "addOrUpdate", "remove", "getSnapShot"}
         \subseteq {"find", "addOrUpdate", "remove", "getSnapShot"}
  OBVIOUS
<1>4. CASE Map!Call(t, {"find", "addOrUpdate", "remove", "getSnapShot"})
  BY ONLY <1>2, <1>3, <1>4, MapVals, t \in MapThreads, CallMaps
<1>5. CASE Map!access(t, FALSE)
  <2>1. FALSE \in BOOLEAN
    OBVIOUS
  <2> QED BY ONLY <1>2, <1>5, <2>1, MapVals, t \in MapThreads, AccessMaps
<1> QED
  BY ONLY <1>1, <1>2, <1>4, <1>5, MapInv, MapVals, structure = "fixed", t \in MapThreads,
          ReturnMaps, FixedLockMaps, FixedLockAllMaps, FixedCollectMaps

(* StripedThreadSafeHashmap.                                               *)

(* The steps on the way to the bucket, and those of rehash but swap.        *)
LEMMA StripedDrifts ==
  ASSUME loc \in [MapThreads -> Locals], MapVals, NEW t \in MapThreads,
         \/ Striped!acquire(t) \/ Map!getBucketIndex(t) \/ Striped!lockAll(t)
         \/ Striped!compare(t) \/ Map!copy(t) \/ Striped!unlockAll(t)
  PROVE  MapMoves /\ MapVals'
<1>1. CASE Striped!acquire(t)
  <2>1. /\ loc[t].pc = "acquire" /\ mBuckets' = mBuckets
        /\ Map!Goto(t, Map!At(t, "index"))
    BY ONLY <1>1 DEF Striped!acquire, Striped!Goto, Striped!At, Map!Goto, Map!At
  <2>2. Drift(t, "index")
    BY ONLY <2>1 DEF Drift, Pending
  <2>3. Unnoticed
    BY ONLY <2>1, <2>2, Drifts, loc \in [MapThreads -> Locals], MapVals, t \in MapThreads
  <2> QED BY ONLY <2>1, <2>3, BucketsKept, UnnoticedMoves
<1>2. CASE Map!getBucketIndex(t)
  <2>1. /\ loc[t].pc = "index" /\ mBuckets' = mBuckets
        /\ Map!Goto(t, [Map!At(t, "access") EXCEPT !.index = Hash[loc[t].key] % Map!Size])
    BY ONLY <1>2 DEF Map!getBucketIndex
  <2>2. Drift(t, "access")
    BY ONLY <2>1 DEF Drift, Pending
  <2>3. Unnoticed
    BY ONLY <2>1, <2>2, Drifts, loc \in [MapThreads -> Locals], MapVals, t \in MapThreads
  <2> QED BY ONLY <2>1, <2>3, BucketsKept, UnnoticedMoves
<1>3. CASE Striped!lockAll(t)
  <2>1. /\ loc[t].pc = "rehash" /\ mBuckets' = mBuckets
        /\ \/ Map!Goto(t, [loc[t] EXCEPT !.index = loc[t].index + 1])
           \/ Map!Goto(t, [Map!At(t, "compare") EXCEPT !.index = 0])
    BY ONLY <1>3 DEF Striped!lockAll, Striped!Goto, Striped!At, Map!Goto, Map!At
  <2>2. Drift(t, "compare") /\ Drift(t, loc[t].pc)
    BY ONLY <2>1 DEF Drift, After
  <2>3. Unnoticed
    BY ONLY <2>1, <2>2, Drifts, loc \in [MapThreads -> Locals], MapVals, t \in MapThreads
  <2> QED BY ONLY <2>1, <2>3, BucketsKept, UnnoticedMoves
<1>4. CASE Striped!compare(t)
  <2>1. PICK label : label = IF loc[t].prev # Map!Size THEN "unlock" ELSE "copy"
    OBVIOUS
  <2>2. /\ loc[t].pc = "compare" /\ mBuckets' = mBuckets
        /\ Map!Goto(t, Map!At(t, label))
    BY ONLY <1>4, <2>1, SameSize
    DEF Striped!compare, Striped!Goto, Striped!At, Map!Goto, Map!At
  <2>3. Drift(t, label)
    BY ONLY <2>1, <2>2 DEF Drift, After
  <2>4. Unnoticed
    BY ONLY <2>2, <2>3, Drifts, loc \in [MapThreads -> Locals], MapVals, t \in MapThreads
  <2> QED BY ONLY <2>2, <2>4, BucketsKept, UnnoticedMoves
<1>5. CASE Map!copy(t)
  <2>1. /\ loc[t].pc = "copy" /\ mBuckets' = mBuckets
        /\ Map!Goto(t, [Map!At(t, "swap") EXCEPT !.new = Spread(2 * loc[t].prev)])
    BY ONLY <1>5 DEF Map!copy, Spread
  <2>2. Drift(t, "swap")
    BY ONLY <2>1 DEF Drift, After
  <2>3. Unnoticed
    BY ONLY <2>1, <2>2, Drifts, loc \in [MapThreads -> Locals], MapVals, t \in MapThreads
  <2> QED BY ONLY <2>1, <2>3, BucketsKept, UnnoticedMoves
<1>6. CASE Striped!unlockAll(t)
  <2>1. /\ loc[t].pc = "unlock" /\ mBuckets' = mBuckets
        /\ \/ Map!Goto(t, [loc[t] EXCEPT !.index = loc[t].index + 1])
           \/ Map!Goto(t, Map!Done(t, NoValue))
    BY ONLY <1>6
    DEF Striped!unlockAll, Striped!Goto, Striped!Done, Striped!Away, Map!Goto, Map!Done,
        Map!Away
  <2>2. Drift(t, "done") /\ Drift(t, loc[t].pc)
    BY ONLY <2>1 DEF Drift, After
  <2>3. Unnoticed
    BY ONLY <2>1, <2>2, Drifts, loc \in [MapThreads -> Locals], MapVals, t \in MapThreads
  <2> QED BY ONLY <2>1, <2>3, BucketsKept, UnnoticedMoves
<1> QED
  BY ONLY <1>1, <1>2, <1>3, <1>4, <1>5, <1>6,
         \/ Striped!acquire(t) \/ Map!getBucketIndex(t) \/ Striped!lockAll(t)
         \/ Striped!compare(t) \/ Map!copy(t) \/ Striped!unlockAll(t)

LEMMA StripedMaps ==
  ASSUME MapInv, MapInv', MapVals, structure = "striped", structure' = structure, Striped!Next
  PROVE  MapMoves /\ MapVals'
<1> PICK t \in MapThreads :
      \/ Striped!Call(t, {"find", "addOrUpdate", "remove"})
      \/ Striped!acquire(t) \/ Striped!getBucketIndex(t) \/ Striped!access(t, TRUE)
      \/ Striped!lockAll(t) \/ Striped!compare(t) \/ Striped!copy(t)
      \/ Striped!swap(t, "unlock") \/ Striped!unlockAll(t) \/ Striped!Return(t)
  BY ONLY Striped!Next DEF Striped!Next
<1>1. \/ Map!Call(t, {"find", "addOrUpdate", "remove"}) \/ Map!Return(t)
      \/ Striped!acquire(t) \/ Map!getBucketIndex(t) \/ Map!access(t, TRUE)
      \/ Striped!lockAll(t) \/ Striped!compare(t) \/ Map!copy(t)
      \/ Map!swap(t, "unlock") \/ Striped!unlockAll(t)
  BY ONLY SameOthers, SameAccess, Zenon,
      \/ Striped!Call(t, {"find", "addOrUpdate", "remove"})
      \/ Striped!acquire(t) \/ Striped!getBucketIndex(t) \/ Striped!access(t, TRUE)
      \/ Striped!lockAll(t) \/ Striped!compare(t) \/ Striped!copy(t)
      \/ Striped!swap(t, "unlock") \/ Striped!unlockAll(t) \/ Striped!Return(t)
<1>2. loc \in [MapThreads -> Locals] /\ BucketsInv /\ BucketsInv' /\ LocalInv(t)
  BY ONLY MapInv, MapInv', t \in MapThreads DEF MapInv
<1>3. {"find", "addOrUpdate", "remove"} \subseteq {"find", "addOrUpdate", "remove", "getSnapShot"}
  OBVIOUS
<1>4. CASE Map!Call(t, {"find", "addOrUpdate", "remove"})
  BY ONLY <1>2, <1>3, <1>4, MapVals, t \in MapThreads, CallMaps
<1>5. CASE Map!access(t, TRUE)
  <2>1. TRUE \in BOOLEAN
    OBVIOUS
  <2> QED BY ONLY <1>2, <1>5, <2>1, MapVals, t \in MapThreads, AccessMaps
<1>6. CASE Map!swap(t, "unlock")
  <2>1. loc[t].pc = "swap" /\ StripedThread(t) /\ "unlock" \in After
    BY ONLY <1>6, MapInv, structure = "striped", t \in MapThreads, StripedParts
    DEF Map!swap, After
  <2>2. /\ loc[t].new = Spread(2 * loc[t].prev) /\ loc[t].prev = Map!Size
        /\ 2 * loc[t].prev <= MaxSize
    BY ONLY <2>1 DEF StripedThread
  <2> QED
    BY ONLY <1>2, <1>6, <2>1, <2>2, MapVals, t \in MapThreads, structure' = structure, SwapMaps
<1> QED BY ONLY <1>1, <1>2, <1>4, <1>5, <1>6, MapVals, t \in MapThreads, ReturnMaps, StripedDrifts

(* RefinableThreadSafeHashmap.                                             *)

(* The steps on the way to the bucket.                                     *)
LEMMA RefinableAcquires ==
  ASSUME loc \in [MapThreads -> Locals], MapVals, NEW t \in MapThreads,
         \/ Refinable!spin(t) \/ Refinable!claim(t) \/ Refinable!lock(t)
         \/ Refinable!recheckFlag(t) \/ Refinable!recheckLocks(t) \/ Map!getBucketIndex(t)
  PROVE  MapMoves /\ MapVals'
<1>1. /\ mBuckets' = mBuckets
      /\ loc[t].pc \in {"acquire", "spin", "lock", "recheckFlag", "recheckLocks", "index"}
      /\ \/ \E l \in {"spin", "recheckFlag", "recheckLocks", "index"} :
              Map!Goto(t, Map!At(t, l))
         \/ \E p : Map!Goto(t, [Map!At(t, "lock") EXCEPT !.locks = p])
         \/ \E p : Map!Goto(t, [Map!At(t, "acquire") EXCEPT !.locks = p])
         \/ \E i : Map!Goto(t, [Map!At(t, "access") EXCEPT !.index = i])
  <2>1. CASE Refinable!spin(t) \/ Refinable!lock(t)
    BY ONLY <2>1 DEF Refinable!spin, Refinable!lock, Refinable!Goto, Refinable!At,
      Refinable!Fixed, Map!Goto, Map!At
  <2>2. CASE Refinable!claim(t)
    BY ONLY <2>2 DEF Refinable!claim, Refinable!Goto, Refinable!At, Refinable!Fixed,
      Map!Goto, Map!At
  <2>3. CASE Refinable!recheckFlag(t)
    BY ONLY <2>3 DEF Refinable!recheckFlag, Refinable!Goto, Refinable!At, Refinable!Fixed,
      Map!Goto, Map!At
  <2>4. CASE Refinable!recheckLocks(t)
    BY ONLY <2>4 DEF Refinable!recheckLocks, Refinable!Goto, Refinable!At, Refinable!Fixed,
      Map!Goto, Map!At
  <2>5. CASE Map!getBucketIndex(t)
    BY ONLY <2>5 DEF Map!getBucketIndex
  <2> QED
    BY ONLY <2>1, <2>2, <2>3, <2>4, <2>5,
         \/ Refinable!spin(t) \/ Refinable!claim(t) \/ Refinable!lock(t)
         \/ Refinable!recheckFlag(t) \/ Refinable!recheckLocks(t) \/ Map!getBucketIndex(t)
<1>2. \A l \in {"spin", "lock", "recheckFlag", "recheckLocks", "index", "access", "acquire"} :
        Drift(t, l)
  BY ONLY <1>1 DEF Drift, Pending
<1>3. Unnoticed
  BY ONLY <1>1, <1>2, Drifts, loc \in [MapThreads -> Locals], MapVals, t \in MapThreads
<1> QED BY ONLY <1>1, <1>3, BucketsKept, UnnoticedMoves

(* Those of rehash but swap.                                               *)
LEMMA RefinableRehashes ==
  ASSUME loc \in [MapThreads -> Locals], MapVals, NEW t \in MapThreads,
         \/ Refinable!exchange(t) \/ Refinable!compare(t) \/ Refinable!drain(t)
         \/ Map!copy(t) \/ Refinable!publish(t) \/ Refinable!open(t) \/ Refinable!retire(t)
  PROVE  MapMoves /\ MapVals'
<1>1. /\ mBuckets' = mBuckets
      /\ loc[t].pc \in {"rehash", "compare", "drain", "copy", "publish", "open", "retire"}
      /\ \/ \E l \in {"compare", "open", "retire"} : Map!Goto(t, Map!At(t, l))
         \/ \E p : Map!Goto(t, [Map!At(t, "drain") EXCEPT !.locks = p])
         \/ \E i : Map!Goto(t, [Map!At(t, "copy") EXCEPT !.index = i])
         \/ \E i : Map!Goto(t, [loc[t] EXCEPT !.index = i])
         \/ \E b : Map!Goto(t, [Map!At(t, "swap") EXCEPT !.new = b])
         \/ Map!Goto(t, Map!Done(t, NoValue))
  <2>1. CASE Refinable!exchange(t) \/ Refinable!publish(t) \/ Refinable!open(t)
    BY ONLY <2>1 DEF Refinable!exchange, Refinable!publish, Refinable!open, Refinable!Goto,
      Refinable!At, Refinable!Fixed, Map!Goto, Map!At
  <2>2. CASE Refinable!compare(t)
    BY ONLY <2>2 DEF Refinable!compare, Refinable!Goto, Refinable!At, Refinable!Done,
      Refinable!Away, Refinable!Fixed, Map!Goto, Map!At, Map!Done, Map!Away
  <2>3. CASE Refinable!drain(t)
    BY ONLY <2>3 DEF Refinable!drain, Refinable!Goto, Refinable!At, Refinable!Fixed,
      Map!Goto, Map!At
  <2>4. CASE Map!copy(t)
    BY ONLY <2>4 DEF Map!copy
  <2>5. CASE Refinable!retire(t)
    BY ONLY <2>5 DEF Refinable!retire, Refinable!Goto, Refinable!Done, Refinable!Away,
      Refinable!Fixed, Map!Goto, Map!Done, Map!Away
  <2> QED
    BY ONLY <2>1, <2>2, <2>3, <2>4, <2>5,
         \/ Refinable!exchange(t) \/ Refinable!compare(t) \/ Refinable!drain(t)
         \/ Map!copy(t) \/ Refinable!publish(t) \/ Refinable!open(t) \/ Refinable!retire(t)
<1>2. /\ Drift(t, loc[t].pc)
      /\ \A l \in {"compare", "drain", "copy", "swap", "open", "retire", "done"} : Drift(t, l)
  BY ONLY <1>1 DEF Drift, After
<1>3. Unnoticed
  BY ONLY <1>1, <1>2, Drifts, loc \in [MapThreads -> Locals], MapVals, t \in MapThreads
<1> QED BY ONLY <1>1, <1>3, BucketsKept, UnnoticedMoves

LEMMA RefinableMaps ==
  ASSUME MapInv, MapInv', MapVals, structure = "refinable", structure' = structure,
         Refinable!Next
  PROVE  MapMoves /\ MapVals'
<1>1. CASE \E p \in Ptrs : Refinable!deleter(p)
  <2>1. mBuckets' = mBuckets /\ loc' = loc
    BY ONLY <1>1 DEF Refinable!deleter, Refinable!Fixed
  <2>2. MapOps' = MapOps
    BY ONLY <2>1 DEF MapOps, Map!Operation
  <2>3. MapVals'
    BY ONLY <2>1, MapVals DEF MapVals
  <2> QED BY ONLY <2>1, <2>2, <2>3, BucketsKept DEF MapMoves
<1>2. ASSUME NEW t \in MapThreads,
             \/ Refinable!Call(t, {"find", "addOrUpdate", "remove"})
             \/ Refinable!spin(t) \/ Refinable!claim(t) \/ Refinable!lock(t)
             \/ Refinable!recheckFlag(t) \/ Refinable!recheckLocks(t)
             \/ Refinable!getBucketIndex(t) \/ Refinable!access(t, TRUE)
             \/ Refinable!exchange(t) \/ Refinable!compare(t) \/ Refinable!drain(t)
             \/ Refinable!copy(t) \/ Refinable!swap(t, "publish") \/ Refinable!publish(t)
             \/ Refinable!open(t) \/ Refinable!retire(t) \/ Refinable!Return(t)
      PROVE  MapMoves /\ MapVals'
  <2>1. \/ Map!Call(t, {"find", "addOrUpdate", "remove"}) \/ Map!Return(t)
        \/ Refinable!spin(t) \/ Refinable!claim(t) \/ Refinable!lock(t)
        \/ Refinable!recheckFlag(t) \/ Refinable!recheckLocks(t)
        \/ Map!getBucketIndex(t) \/ Map!access(t, TRUE)
        \/ Refinable!exchange(t) \/ Refinable!compare(t) \/ Refinable!drain(t)
        \/ Map!copy(t) \/ Map!swap(t, "publish") \/ Refinable!publish(t)
        \/ Refinable!open(t) \/ Refinable!retire(t)
    BY ONLY <1>2, SameOthers, SameAccess, Zenon
  <2>2. loc \in [MapThreads -> Locals] /\ BucketsInv /\ BucketsInv' /\ LocalInv(t)
    BY ONLY MapInv, MapInv', t \in MapThreads DEF MapInv
  <2>3. CASE Map!Call(t, {"find", "addOrUpdate", "remove"})
    <3>1. {"find", "addOrUpdate", "remove"}
             \subseteq {"find", "addOrUpdate", "remove", "getSnapShot"}
      OBVIOUS
    <3> QED BY ONLY <2>2, <2>3, <3>1, MapVals, t \in MapThreads, CallMaps
  <2>4. CASE Map!access(t, TRUE)
    <3>1. TRUE \in BOOLEAN
      OBVIOUS
    <3> QED BY ONLY <2>2, <2>4, <3>1, MapVals, t \in MapThreads, AccessMaps
  <2>5. CASE Map!swap(t, "publish")
    <3>1. loc[t].pc = "swap" /\ RefinableThread(t) /\ "publish" \in After
      BY ONLY <2>5, MapInv, structure = "refinable", t \in MapThreads, RefinableParts
      DEF Map!swap, After
    <3>2. /\ loc[t].new = Spread(2 * loc[t].prev) /\ loc[t].prev = Map!Size
          /\ 2 * loc[t].prev <= MaxSize
      BY ONLY <3>1 DEF RefinableThread
    <3> QED
      BY ONLY <2>2, <2>5, <3>1, <3>2, MapVals, t \in MapThreads, structure' = structure,
              SwapMaps
  <2> QED
    BY ONLY <2>1, <2>2, <2>3, <2>4, <2>5, MapVals, t \in MapThreads, ReturnMaps,
            RefinableAcquires, RefinableRehashes
<1> QED BY ONLY <1>1, <1>2, Refinable!Next, Zenon DEF Refinable!Next

LEMMA MapInitMaps ==
  ASSUME NEW n, Map!MapInit(n)
  PROVE  Map!Abstract!Init /\ MapVals
<1>1. /\ mBuckets = [i \in 0 .. n - 1 |-> {}]
      /\ loc = [t \in MapThreads |-> Map!Away]
  BY ONLY Map!MapInit(n) DEF Map!MapInit
<1>2. \A t \in MapThreads : loc[t].pc = "idle"
  <2>1. Map!Away.pc = "idle"
    BY ONLY DEF Map!Away
  <2> QED BY ONLY <1>1, <2>1
<1>3. MapVals
  BY ONLY <1>2 DEF MapVals
<1>4. MapContents = [k \in Keys |-> NoValue]
  <2> DEFINE f == [k \in Keys |-> NoValue]
  <2>1. f \in [Keys -> Values \cup {NoValue}] /\ \A k \in Keys, v \in Values : f[k] # v
    BY ONLY ValuesAssumption
  <2> HIDE DEF f
  <2>2. \A i \in DOMAIN mBuckets : mBuckets[i] = {}
    BY ONLY <1>1
  <2>3. \A k \in Keys, v \in Values : (\E i \in DOMAIN mBuckets : <<k, v>> \in mBuckets[i]) <=> f[k] = v
    BY ONLY <2>1, <2>2
  <2>4. \A i \in DOMAIN mBuckets : mBuckets[i] \subseteq Keys \X Values
    BY ONLY <2>2
  <2>5. Map!ContentsOf(mBuckets) = f
    BY ONLY <2>1, <2>3, <2>4, ContentsAre
  <2> QED BY ONLY <2>5 DEF f, MapContents
<1>5. [t \in MapThreads |-> Map!Operation(t)] = [t \in MapThreads |-> MapIdle]
  BY ONLY <1>2, MapOpIs
<1> QED BY ONLY <1>3, <1>4, <1>5 DEF Map!Abstract!Init, Map!Abstract!Idle, MapIdle, MapContents

(* All of them.                                                            *)

LEMMA QueueValsNext ==
  ASSUME QueueInv, QueueVals, Next
  PROVE  QueueVals'
<1> PICK t \in Threads : Call(t) \/ Step(t) \/ SpuriousWakeup(t)
  BY ONLY Next DEF Next
<1>0. /\ pc \in [Threads -> {"idle", "pushLock", "append", "notify", "popLock", "check", "wait",
                             "waiting", "copy", "pop", "done"}]
      /\ val \in [Threads -> Values \cup {NoValue}]
      /\ \A u \in Threads : u \in waiters => pc[u] = "waiting"
      /\ waiters \subseteq Threads
      /\ \A u \in Threads : pc[u] \in Popping \cup {"idle"} => val[u] = NoValue
  BY ONLY QueueInv, QueueVals DEF QueueInv, TypeOK, QueueVals, Threads
<1>1. CASE CallPush(t) \/ PushLock(t) \/ PushAppend(t) \/ PopHead(t) \/ Return(t)
  BY ONLY <1>0, <1>1, t \in Threads
  DEF CallPush, PushLock, PushAppend, PopHead, Return, Goto, QueueVals, Popping
<1>2. CASE CallPop(t) \/ PopLock(t) \/ Wait(t) \/ Copy(t) \/ SpuriousWakeup(t)
  BY ONLY <1>0, <1>2, t \in Threads
  DEF CallPop, PopLock, Wait, Copy, SpuriousWakeup, Goto, QueueVals, Popping
<1>3. CASE Check(t)
  BY ONLY <1>0, <1>3, t \in Threads DEF Check, Goto, QueueVals, Popping
<1>4. CASE Notify(t)
  <2>1. /\ val' = [val EXCEPT ![t] = NoValue]
        /\ \/ pc' = [pc EXCEPT ![t] = "done"]
           \/ \E u \in waiters : pc' = [pc EXCEPT ![t] = "done", ![u] = "popLock"]
    BY ONLY <1>4 DEF Notify, Goto
  <2>2. \A u \in Threads : pc'[u] \in Popping \cup {"idle"} =>
          u = t \/ pc[u] \in Popping \cup {"idle"}
    BY ONLY <1>0, <2>1, t \in Threads DEF Popping
  <2> QED BY ONLY <1>0, <2>1, <2>2, t \in Threads DEF QueueVals
<1> QED
  BY ONLY <1>1, <1>2, <1>3, <1>4, Call(t) \/ Step(t) \/ SpuriousWakeup(t) DEF Call, Step

LEMMA StackValsNext ==
  ASSUME StackInv, StackVals, Stack!Next
  PROVE  StackVals'
<1> PICK t \in Threads :
      \/ Stack!Call(t) \/ Stack!pushImpl(t) \/ Stack!pop(t) \/ Stack!try_pop(t)
      \/ Stack!SpuriousWakeup(t) \/ Stack!Return(t)
  BY ONLY Stack!Next DEF Stack!Next
<1>0. /\ at \in [Threads -> {"idle", "push", "pop", "try_pop", "waiting", "done"}]
      /\ item \in [Threads -> Values \cup {NoValue}]
      /\ \A u \in Threads : at[u] \in {"idle", "pop", "try_pop", "waiting"} => item[u] = NoValue
  BY ONLY StackInv, StackVals DEF StackInv, Stack!StackTypeOK, StackVals
<1>1. CASE Stack!Call(t)
  BY ONLY <1>0, <1>1, t \in Threads DEF Stack!Call, StackVals
<1>2. CASE Stack!pushImpl(t)
  BY ONLY <1>0, <1>2, t \in Threads DEF Stack!pushImpl, StackVals
<1>3. CASE Stack!pop(t) \/ Stack!try_pop(t)
  BY ONLY <1>0, <1>3, t \in Threads DEF Stack!pop, Stack!try_pop, Stack!Take, StackVals
<1>4. CASE Stack!SpuriousWakeup(t) \/ Stack!Return(t)
  BY ONLY <1>0, <1>4, t \in Threads DEF Stack!SpuriousWakeup, Stack!Return, StackVals
<1> QED
  BY ONLY <1>1, <1>2, <1>3, <1>4,
      \/ Stack!Call(t) \/ Stack!pushImpl(t) \/ Stack!pop(t) \/ Stack!try_pop(t)
      \/ Stack!SpuriousWakeup(t) \/ Stack!Return(t)

LEMMA InitVals == StructureInit => ValsInv
<1> SUFFICES ASSUME StructureInit PROVE ValsInv
  OBVIOUS
<1>1. Init /\ Stack!StackInit /\ \E n : Map!MapInit(n)
  BY ONLY StructureInit DEF StructureInit
<1>2. QueueVals
  BY ONLY <1>1 DEF Init, QueueVals
<1>3. StackVals
  BY ONLY <1>1 DEF Stack!StackInit, StackVals
<1>4. MapVals
  BY ONLY <1>1, MapInitMaps
<1> QED BY ONLY <1>2, <1>3, <1>4 DEF ValsInv

(* A step of a structure is one of its abstract specification, or none, and *)
(* leaves the others alone.                                                *)
LEMMA StructureMaps ==
  ASSUME StructureInv, StructureInv', ValsInv, [StructureNext]_structureVars
  PROVE  /\ ValsInv'
         /\ QueueMoves \/ (QueueOps' = QueueOps /\ contents' = contents)
         /\ Stack!Abstract!Next \/ (StackOps' = StackOps /\ mStack' = mStack)
         /\ MapMoves
<1>0. /\ structure \in Structures /\ QueueInv /\ StackInv /\ MapInv /\ MapInv'
      /\ QueueVals /\ StackVals /\ MapVals
  BY ONLY StructureInv, StructureInv', ValsInv DEF StructureInv, ValsInv
<1>1. ASSUME UNCHANGED vars
      PROVE  QueueVals' /\ QueueOps' = QueueOps /\ contents' = contents
  <2>1. pc' = pc /\ val' = val /\ contents' = contents
    BY ONLY <1>1 DEF vars
  <2>2. QueueVals'
    BY ONLY <1>0, <2>1 DEF QueueVals
  <2>3. QueueOps' = QueueOps
    BY ONLY <2>1 DEF QueueOps, Operation
  <2> QED BY ONLY <2>1, <2>2, <2>3
<1>2. ASSUME UNCHANGED <<mStack, at, item>>
      PROVE  StackVals' /\ StackOps' = StackOps /\ mStack' = mStack
  <2>1. mStack' = mStack /\ at' = at /\ item' = item
    BY ONLY <1>2
  <2>2. StackVals'
    BY ONLY <1>0, <2>1 DEF StackVals
  <2>3. StackOps' = StackOps
    BY ONLY <2>1 DEF StackOps, StackOp
  <2> QED BY ONLY <2>1, <2>2, <2>3
<1>3. ASSUME UNCHANGED mapVars
      PROVE  MapVals' /\ MapMoves
  <2>1. mBuckets' = mBuckets /\ loc' = loc
    BY ONLY <1>3 DEF mapVars
  <2>2. MapVals'
    BY ONLY <1>0, <2>1 DEF MapVals
  <2>3. MapOps' = MapOps
    BY ONLY <2>1 DEF MapOps, Map!Operation
  <2> QED BY ONLY <2>1, <2>2, <2>3, BucketsKept DEF MapMoves
<1>4. CASE QueueNext
  <2>1. Next /\ UNCHANGED <<mStack, at, item>> /\ UNCHANGED mapVars
    BY ONLY <1>4 DEF QueueNext
  <2>2. QueueVals' /\ (QueueMoves \/ (QueueOps' = QueueOps /\ contents' = contents))
    BY ONLY <1>0, <2>1, QueueNextMaps, QueueValsNext
  <2> QED BY ONLY <1>2, <1>3, <2>1, <2>2 DEF ValsInv
<1>5. CASE StackNext
  <2>1. Stack!Next /\ UNCHANGED vars /\ UNCHANGED mapVars
    BY ONLY <1>5 DEF StackNext
  <2>2. StackVals' /\ (Stack!Abstract!Next \/ (StackOps' = StackOps /\ mStack' = mStack))
    BY ONLY <1>0, <2>1, StackNextMaps, StackValsNext
  <2> QED BY ONLY <1>1, <1>3, <2>1, <2>2 DEF ValsInv
<1>6. CASE MapNext
  <2>1. /\ \/ structure = "fixed" /\ FixedSize!Next
           \/ structure = "striped" /\ Striped!Next
           \/ structure = "refinable" /\ Refinable!Next
        /\ structure' = structure /\ UNCHANGED vars /\ UNCHANGED <<mStack, at, item>>
    BY ONLY <1>6 DEF MapNext
  <2>2. MapMoves /\ MapVals'
    BY ONLY <1>0, <2>1, FixedMaps, StripedMaps, RefinableMaps
  <2> QED BY ONLY <1>1, <1>2, <2>1, <2>2 DEF ValsInv
<1>7. CASE UNCHANGED structureVars
  <2>1. UNCHANGED vars /\ UNCHANGED <<mStack, at, item>> /\ UNCHANGED mapVars
    BY ONLY <1>7 DEF structureVars
  <2> QED BY ONLY <1>1, <1>2, <1>3, <2>1 DEF ValsInv
<1> QED
  BY ONLY <1>4, <1>5, <1>6, <1>7, [StructureNext]_structureVars DEF StructureNext

LEMMA StructureMapsInit ==
  StructureInit => Abstract!Init /\ Stack!Abstract!Init /\ Map!Abstract!Init
<1> SUFFICES ASSUME StructureInit
             PROVE  Abstract!Init /\ Stack!Abstract!Init /\ Map!Abstract!Init
  OBVIOUS
<1>1. Init /\ Stack!StackInit /\ \E n : Map!MapInit(n)
  BY ONLY StructureInit DEF StructureInit
<1> QED BY ONLY <1>1, QueueInitMaps, StackInitMaps, MapInitMaps

LEMMA StructureRefines ==
  ASSUME StructureInv, StructureInv', ValsInv, [StructureNext]_structureVars
  PROVE  /\ [Abstract!Next \/ \E t \in Threads : Abstract!Fail(t)]_
              <<contents, [t \in Threads |-> Operation(t)]>>
         /\ [Stack!Abstract!Next]_
              <<mStack, [t \in Threads |->
                 [name |-> CASE at[t] \in {"pop", "try_pop", "waiting"} -> "pop" [] OTHER -> at[t],
                  val |-> item[t]]]>>
         /\ [Map!Abstract!Next]_
              <<Map!ContentsOf(mBuckets), [t \in MapThreads |-> Map!Operation(t)]>>
<1>1. /\ QueueMoves \/ (QueueOps' = QueueOps /\ contents' = contents)
      /\ Stack!Abstract!Next \/ (StackOps' = StackOps /\ mStack' = mStack)
      /\ MapMoves
  BY ONLY StructureInv, StructureInv', ValsInv, [StructureNext]_structureVars, StructureMaps
<1>2. [Abstract!Next \/ \E t \in Threads : Abstract!Fail(t)]_
        <<contents, [t \in Threads |-> Operation(t)]>>
  BY ONLY <1>1 DEF QueueMoves, QueueOps
<1>3. [Stack!Abstract!Next]_
        <<mStack, [t \in Threads |->
           [name |-> CASE at[t] \in {"pop", "try_pop", "waiting"} -> "pop" [] OTHER -> at[t],
            val |-> item[t]]]>>
  BY ONLY <1>1 DEF StackOps, StackOp
<1>4. [Map!Abstract!Next]_
        <<Map!ContentsOf(mBuckets), [t \in MapThreads |-> Map!Operation(t)]>>
  BY ONLY <1>1 DEF MapMoves, SameContents, MapOps, MapContents
<1> QED BY ONLY <1>2, <1>3, <1>4

(* The queue, the stack and each of the maps is linearizable, for any       *)
(* number of threads, keys and values: a pop that throws leaves the queue  *)
(* as it was, a snapshot is the whole map at one instant, and an access    *)
(* finds its key however often the buckets have been rehashed.             *)
THEOREM StructureLinearizableCorrect == StructureSpec => StructureLinearizable
<1>1. StructureSpec => StructureInit /\ [][StructureNext]_structureVars
  BY DEF StructureSpec, StructureNext, structureVars
<1>2. ASSUME StructureInv, StructureInv', ValsInv, [StructureNext]_structureVars
      PROVE  ValsInv'
  BY ONLY <1>2, StructureMaps
<1>3. StructureSpec => [](StructureInv /\ ValsInv)
  BY <1>1, <1>2, InitVals, InitStructure, NextStructure, PTL
<1>4. StructureSpec => Linearizable
  BY <1>1, <1>3, StructureMapsInit, StructureRefines, PTL
  DEF Linearizable, Abstract!SpecWithFailures
<1>5. StructureSpec => Stack!StackLinearizable
  BY <1>1, <1>3, StructureMapsInit, StructureRefines, PTL
  DEF Stack!StackLinearizable, Stack!Abstract!Spec
<1>6. StructureSpec => Map!MapLinearizable
  BY <1>1, <1>3, StructureMapsInit, StructureRefines, PTL
  DEF Map!MapLinearizable, Map!Abstract!Spec
<1> QED BY <1>4, <1>5, <1>6, PTL DEF StructureLinearizable

=============================================================================
