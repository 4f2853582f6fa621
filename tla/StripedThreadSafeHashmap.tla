---------------------- MODULE StripedThreadSafeHashmap ----------------------
(***************************************************************************)
(* The hash map with as many mutexes as it has buckets at first.  Each     *)
(* guards twice as many buckets after a rehash, which locks all of them.   *)
(***************************************************************************)
EXTENDS ThreadSafeHashMap

acquire(t) ==
  /\ loc[t].pc = "acquire"
  /\ Locked(t, <<mLocks, Hash[loc[t].key] % length[mLocks]>>)
  /\ Goto(t, At(t, "index"))
  /\ UNCHANGED <<mBuckets, mSize, mLocks, length, mRehash, slot, status, holders>>

(* Mutant: the mutex that addOrUpdate held is not locked again.             *)
lockRest(t) ==
  /\ loc[t].pc = "rehash"
  /\ LET i == loc[t].index IN
       /\ IF i = 0 THEN UNCHANGED owners ELSE Locked(t, <<mLocks, i>>)
       /\ Goto(t, IF i + 1 < length[mLocks] THEN [loc[t] EXCEPT !.index = i + 1]
                  ELSE [At(t, "compare") EXCEPT !.index = 0])
  /\ UNCHANGED <<mBuckets, mSize, mLocks, length, mRehash, slot, status, holders>>

(* rehash: l.lock() for all mutexes, in their order.                       *)
lockAll(t) ==
  /\ loc[t].pc = "rehash"
  /\ LET i == loc[t].index IN
       /\ Locked(t, <<mLocks, i>>)
       /\ Goto(t, IF i + 1 < length[mLocks] THEN [loc[t] EXCEPT !.index = i + 1]
                  ELSE [At(t, "compare") EXCEPT !.index = 0])
  /\ UNCHANGED <<mBuckets, mSize, mLocks, length, mRehash, slot, status, holders>>

(* Another thread may have done the rehash in the meantime.                *)
compare(t) ==
  /\ loc[t].pc = "compare"
  /\ Goto(t, At(t, IF loc[t].prev # Size THEN "unlock" ELSE "copy"))
  /\ UNCHANGED <<mBuckets, mSize, lockVars>>

(* l.unlock() for all mutexes, in their order.                             *)
unlockAll(t) ==
  /\ loc[t].pc = "unlock"
  /\ LET i == loc[t].index IN
       /\ owners' = [owners EXCEPT ![<<mLocks, i>>] = {}]
       /\ Goto(t, IF i + 1 < length[mLocks] THEN [loc[t] EXCEPT !.index = i + 1]
                  ELSE Done(t, NoValue))
  /\ UNCHANGED <<mBuckets, mSize, mLocks, length, mRehash, slot, status, holders>>

Next ==
  \E t \in Threads :
    \/ Call(t, {"find", "addOrUpdate", "remove"})
    \/ acquire(t) \/ getBucketIndex(t) \/ access(t, TRUE)
    \/ lockAll(t) \/ compare(t) \/ copy(t) \/ swap(t, "unlock") \/ unlockAll(t)
    \/ Return(t)
=============================================================================
