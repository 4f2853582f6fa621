-------------------------- MODULE ThreadSafeHashMap -------------------------
(***************************************************************************)
(* What the three lock-based hash maps have in common: an array of buckets *)
(* and an array of mutexes, and what find, addOrUpdate and remove do once  *)
(* they hold the mutex of their key.  How they get it, and how the arrays  *)
(* grow, is in FixedSizeThreadSafeHashMap, StripedThreadSafeHashmap and    *)
(* RefinableThreadSafeHashmap.  The last replaces its array of mutexes and *)
(* leaves the old one to the hazard pointer domain, so that an array has   *)
(* an address here; the other two have one array for good.                 *)
(***************************************************************************)
EXTENDS Naturals, FiniteSets

CONSTANTS Threads, Keys, NoKey, Values, NoValue,
          Ptrs, NoPtr,
          FirstLocks,    \* the address of the first array of mutexes
          Hash,          \* Hash[k]: mHasher(k)
          Threshold,     \* sThreshold
          MaxSize        \* bound: no rehash beyond this number of buckets

VARIABLES
  mBuckets,  \* mBuckets[i]: the pairs in bucket i, from 0
  mSize,
  mLocks,    \* the array of mutexes in use
  length,    \* length[p]: the number of mutexes in array p
  owners,    \* owners[p, i]: who holds mutex i of array p
  mRehash,   \* the flag of RefinableThreadSafeHashmap
  slot, status, holders,  \* the hazard pointer domain, see Reclamation
  loc        \* loc[t]: the local variables of thread t

lockVars == <<mLocks, length, owners, mRehash, slot, status, holders>>
mapVars == <<mBuckets, mSize, lockVars, loc>>

R == INSTANCE Reclamation WITH Owners <- Threads

Size == Cardinality(DOMAIN mBuckets)

(* A thread outside the map.                                               *)
Away == [pc |-> "idle", op |-> "none", key |-> NoKey, val |-> NoValue, locks |-> NoPtr,
         index |-> 0, prev |-> 0, new |-> <<>>]

(* A new map with initialBucketSize or, in the map of fixed size, bucketSize *)
(* buckets, and as many mutexes.                                           *)
MapInit(size) ==
  /\ mBuckets = [i \in 0 .. size - 1 |-> {}]
  /\ mSize = 0
  /\ mLocks = FirstLocks
  /\ length = [p \in Ptrs |-> IF p = FirstLocks THEN size ELSE 0]
  /\ owners = [x \in Ptrs \X (0 .. MaxSize - 1) |-> {}]
  /\ mRehash = FALSE
  /\ slot = [t \in Threads |-> NoPtr]
  /\ status = [p \in Ptrs |-> IF p = FirstLocks THEN "live" ELSE "free"]
  /\ holders = [p \in Ptrs |-> {}]
  /\ loc = [t \in Threads |-> Away]

(* Thread t goes on with the local variables l.                            *)
Goto(t, l) == loc' = [loc EXCEPT ![t] = l]
At(t, label) == [loc[t] EXCEPT !.pc = label]
Done(t, r) == [Away EXCEPT !.pc = "done", !.op = loc[t].op, !.val = r]

(* What the buckets b hold, as a map.                                      *)
ContentsOf(b) ==
  [k \in Keys |->
     LET vals == {e[2] : e \in {d \in UNION {b[i] : i \in DOMAIN b} : d[1] = k}}
     IN  IF vals = {} THEN NoValue ELSE CHOOSE v \in vals : TRUE]

Call(t, ops) ==
  /\ loc[t].pc = "idle"
  /\ \E o \in ops, k \in Keys \cup {NoKey}, v \in Values \cup {NoValue} :
       /\ o = "getSnapShot" <=> k = NoKey
       /\ o = "addOrUpdate" <=> v # NoValue
       /\ Goto(t, [Away EXCEPT !.pc = "acquire", !.op = o, !.key = k, !.val = v])
  /\ UNCHANGED <<mBuckets, mSize, lockVars>>

-----------------------------------------------------------------------------
(* The mutexes.                                                            *)
mutex(t) == <<loc[t].locks, Hash[loc[t].key] % length[loc[t].locks]>>

Locked(t, x) == owners[x] = {} /\ owners' = [owners EXCEPT ![x] = {t}]
Unlocked(t) == owners' = [x \in DOMAIN owners |-> owners[x] \ {t}]

-----------------------------------------------------------------------------
(* getBucketIndex: how many buckets there are is read under the mutex.      *)
getBucketIndex(t) ==
  /\ loc[t].pc = "index"
  /\ Goto(t, [At(t, "access") EXCEPT !.index = Hash[loc[t].key] % Size])
  /\ UNCHANGED <<mBuckets, mSize, lockVars>>

(* bucket.find(key)                                                        *)
found(t) == {e \in mBuckets[loc[t].index] : e[1] = loc[t].key}

find(t) ==
  /\ loc[t].pc = "access" /\ loc[t].op = "find"
  /\ \E r \in IF found(t) = {} THEN {NoValue} ELSE {e[2] : e \in found(t)} :
       Goto(t, Done(t, r))
  /\ Unlocked(t)
  /\ UNCHANGED <<mBuckets, mSize, mLocks, length, mRehash, slot, status, holders>>

(* The maps that grow count their elements, and a new one may make it time   *)
(* to rehash; rehash looks up the number of buckets and unlocks the mutex. *)
addOrUpdate(t, grows) ==
  /\ loc[t].pc = "access" /\ loc[t].op = "addOrUpdate"
  /\ LET l == loc[t]
         isNew == grows /\ found(t) = {}
         doRehash == isNew /\ mSize \div Size > Threshold /\ 2 * Size <= MaxSize
     IN  /\ mBuckets' = [mBuckets EXCEPT ![l.index] = (@ \ found(t)) \cup {<<l.key, l.val>>}]
         /\ mSize' = IF isNew THEN mSize + 1 ELSE mSize
         /\ Goto(t, IF doRehash THEN [Away EXCEPT !.pc = "rehash", !.op = l.op, !.prev = Size]
                    ELSE Done(t, NoValue))
  /\ Unlocked(t)
  /\ UNCHANGED <<mLocks, length, mRehash, slot, status, holders>>

remove(t, grows) ==
  /\ loc[t].pc = "access" /\ loc[t].op = "remove"
  /\ mBuckets' = [mBuckets EXCEPT ![loc[t].index] = @ \ found(t)]
  /\ mSize' = IF grows /\ found(t) # {} THEN mSize - 1 ELSE mSize
  /\ Unlocked(t)
  /\ Goto(t, Done(t, NoValue))
  /\ UNCHANGED <<mLocks, length, mRehash, slot, status, holders>>

access(t, grows) == find(t) \/ addOrUpdate(t, grows) \/ remove(t, grows)

-----------------------------------------------------------------------------
(* rehash: the pairs are copied to twice as many buckets ...                *)
copy(t) ==
  /\ loc[t].pc = "copy"
  /\ LET all == UNION {mBuckets[i] : i \in DOMAIN mBuckets}
         newBucketSize == 2 * loc[t].prev
     IN  Goto(t, [At(t, "swap") EXCEPT
                    !.new = [i \in 0 .. newBucketSize - 1 |->
                               {e \in all : Hash[e[1]] % newBucketSize = i}]])
  /\ UNCHANGED <<mBuckets, mSize, lockVars>>

(* ... which take the place of the old ones.                               *)
swap(t, next) ==
  /\ loc[t].pc = "swap"
  /\ mBuckets' = loc[t].new
  /\ Goto(t, [At(t, next) EXCEPT !.new = <<>>])
  /\ UNCHANGED <<mSize, lockVars>>

Return(t) ==
  /\ loc[t].pc = "done"
  /\ Goto(t, Away)
  /\ UNCHANGED <<mBuckets, mSize, lockVars>>

-----------------------------------------------------------------------------
(* PROPERTIES                                                              *)

MapTypeOK ==
  /\ \A i \in DOMAIN mBuckets : mBuckets[i] \subseteq Keys \X Values
  /\ Size \in 1 .. MaxSize
  /\ mSize \in 0 .. Cardinality(Keys)
  /\ R!ReclamationTypeOK
  /\ mLocks \in Ptrs /\ status[mLocks] = "live"
  /\ length \in [Ptrs -> 0 .. MaxSize]
  /\ mRehash \in BOOLEAN
  /\ \A x \in DOMAIN owners : owners[x] # {} => x[2] < length[x[1]]
  /\ \A t \in Threads : loc[t].pc = "access" => loc[t].index \in DOMAIN mBuckets

(* While the elements are moved nobody else works on them, whichever array   *)
(* of mutexes he used to get in.                                           *)
RehashAlone ==
  \A t, u \in Threads :
    loc[t].pc \in {"copy", "swap"} /\ loc[u].pc \in {"index", "access", "copy", "swap"} => t = u

(* Nobody locks, holds or unlocks a mutex of an array that was deleted.     *)
NoLockAfterFree ==
  \A t \in Threads :
    /\ loc[t].pc = "lock" => status[loc[t].locks] # "free"
    /\ \A x \in DOMAIN owners : t \in owners[x] => status[x[1]] # "free"

(* A call takes effect when it accesses the bucket; addOrUpdate may go on    *)
(* to rehash then.                                                         *)
Operation(t) ==
  LET l == loc[t] IN
  CASE l.pc = "idle" -> [name |-> "idle", key |-> NoKey, val |-> NoValue]
    [] l.pc \in {"acquire", "spin", "lock", "recheckFlag", "recheckLocks", "index",
                 "access", "collect"} ->
         [name |-> l.op, key |-> l.key, val |-> l.val]
    [] OTHER -> [name |-> "done", key |-> NoKey, val |-> l.val]

Abstract == INSTANCE AbstractMap WITH
  map <- ContentsOf(mBuckets), op <- [t \in Threads |-> Operation(t)]

(* The map is linearizable.                                                *)
MapLinearizable == Abstract!Spec
=============================================================================
