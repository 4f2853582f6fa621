--------------------- MODULE FixedSizeThreadSafeHashMap ---------------------
(***************************************************************************)
(* The hash map without rehash: a shared mutex in each bucket, which find  *)
(* locks shared, and a snapshot that locks all of them.                    *)
(***************************************************************************)
EXTENDS ThreadSafeHashMap

(* std::shared_lock of find and std::lock_guard of the others.             *)
lock(t) ==
  /\ loc[t].pc = "acquire" /\ loc[t].op # "getSnapShot"
  /\ LET x == <<mLocks, Hash[loc[t].key] % Size>> IN
       /\ \A u \in owners[x] : {loc[t].op, loc[u].op} = {"find"}
       /\ owners' = [owners EXCEPT ![x] = @ \cup {t}]
       /\ Goto(t, [At(t, "access") EXCEPT !.index = x[2]])
  /\ UNCHANGED <<mBuckets, mSize, mLocks, length, mRehash, slot, status, holders>>

(* getSnapShot: the mutexes are locked in the order of the buckets ...      *)
lockAll(t) ==
  /\ loc[t].pc = "acquire" /\ loc[t].op = "getSnapShot"
  /\ LET i == loc[t].index IN
       /\ Locked(t, <<mLocks, i>>)
       /\ Goto(t, IF i + 1 < Size THEN [loc[t] EXCEPT !.index = i + 1]
                  ELSE [At(t, "collect") EXCEPT !.index = 0])
  /\ UNCHANGED <<mBuckets, mSize, mLocks, length, mRehash, slot, status, holders>>

(* ... and unlocked after all buckets are copied.                          *)
collect(t) ==
  /\ loc[t].pc = "collect"
  /\ LET i == loc[t].index
         ans == [j \in 0 .. i |-> IF j = i THEN mBuckets[j] ELSE loc[t].new[j]]
     IN  IF i + 1 < Size
         THEN /\ Goto(t, [loc[t] EXCEPT !.index = i + 1, !.new = ans])
              /\ UNCHANGED owners
         ELSE Goto(t, Done(t, ContentsOf(ans))) /\ Unlocked(t)
  /\ UNCHANGED <<mBuckets, mSize, mLocks, length, mRehash, slot, status, holders>>

Next ==
  \E t \in Threads :
    \/ Call(t, {"find", "addOrUpdate", "remove", "getSnapShot"})
    \/ lock(t) \/ access(t, FALSE) \/ lockAll(t) \/ collect(t) \/ Return(t)
=============================================================================
