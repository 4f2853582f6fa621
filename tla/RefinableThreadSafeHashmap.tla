--------------------- MODULE RefinableThreadSafeHashmap ---------------------
(***************************************************************************)
(* The hash map whose array of mutexes grows with the buckets.  A thread   *)
(* that has locked a mutex has to look again whether the array is still    *)
(* the one in use; a rehash sets mRehash, which keeps others from getting  *)
(* in, and waits for those who are in.  The old array may be deleted when  *)
(* no hazard pointer refers to it.                                         *)
(***************************************************************************)
EXTENDS ThreadSafeHashMap

Fixed == <<mBuckets, mSize>>

(* acquire: while(mRehash.load());                                         *)
spin(t) ==
  /\ loc[t].pc = "acquire" /\ ~mRehash
  /\ Goto(t, At(t, "spin"))
  /\ UNCHANGED <<Fixed, lockVars>>

(* Mutant: the array is used without a hazard pointer.                     *)
claimNothing(t) ==
  /\ loc[t].pc = "spin"
  /\ Goto(t, [At(t, "lock") EXCEPT !.locks = mLocks])
  /\ UNCHANGED <<Fixed, lockVars>>

(* locks is loaded, announced and loaded again until it is the same; as in   *)
(* LockFreeHashMap this is one step, taken at the last load.               *)
claim(t) ==
  /\ loc[t].pc = "spin"
  /\ R!Announce(t, mLocks)
  /\ Goto(t, [At(t, "lock") EXCEPT !.locks = mLocks])
  /\ UNCHANGED <<Fixed, mLocks, length, owners, mRehash>>

lock(t) ==
  /\ loc[t].pc = "lock"
  /\ Locked(t, mutex(t))
  /\ Goto(t, At(t, "recheckFlag"))
  /\ UNCHANGED <<Fixed, mLocks, length, mRehash, slot, status, holders>>

(* !mRehash.load() && locks == mLocks.load(), or once more.  Either way the  *)
(* hazard pointer is released; the mutex only if it was in vain.           *)
recheckFlag(t) ==
  /\ loc[t].pc = "recheckFlag"
  /\ IF mRehash
     THEN /\ Unlocked(t) /\ R!Announce(t, NoPtr)
          /\ Goto(t, [At(t, "acquire") EXCEPT !.locks = NoPtr])
     ELSE Goto(t, At(t, "recheckLocks")) /\ UNCHANGED <<owners, slot, status, holders>>
  /\ UNCHANGED <<Fixed, mLocks, length, mRehash>>

recheckLocks(t) ==
  /\ loc[t].pc = "recheckLocks"
  /\ R!Announce(t, NoPtr)
  /\ IF loc[t].locks = mLocks
     THEN Goto(t, At(t, "index")) /\ UNCHANGED owners
     ELSE Unlocked(t) /\ Goto(t, [At(t, "acquire") EXCEPT !.locks = NoPtr])
  /\ UNCHANGED <<Fixed, mLocks, length, mRehash>>

-----------------------------------------------------------------------------
(* rehash: while(mRehash.exchange(true));                                  *)
exchange(t) ==
  /\ loc[t].pc = "rehash" /\ ~mRehash
  /\ mRehash' = TRUE
  /\ Goto(t, At(t, "compare"))
  /\ UNCHANGED <<Fixed, mLocks, length, owners, slot, status, holders>>

(* Another thread may have done the rehash in the meantime.                *)
compare(t) ==
  /\ loc[t].pc = "compare"
  /\ IF loc[t].prev # Size
     THEN mRehash' = FALSE /\ Goto(t, Done(t, NoValue))
     ELSE UNCHANGED mRehash /\ Goto(t, [At(t, "drain") EXCEPT !.locks = mLocks])
  /\ UNCHANGED <<Fixed, mLocks, length, owners, slot, status, holders>>

(* Mutant: nobody is waited for.                                           *)
drainNothing(t) ==
  /\ loc[t].pc = "drain"
  /\ Goto(t, [At(t, "copy") EXCEPT !.index = 0])
  /\ UNCHANGED <<Fixed, lockVars>>

(* l.lock(); l.unlock() for all mutexes of the old array.                  *)
drain(t) ==
  /\ loc[t].pc = "drain"
  /\ LET l == loc[t] IN
       /\ owners[l.locks, l.index] = {}
       /\ Goto(t, IF l.index + 1 < length[l.locks] THEN [l EXCEPT !.index = @ + 1]
                  ELSE [At(t, "copy") EXCEPT !.index = 0])
  /\ UNCHANGED <<Fixed, lockVars>>

(* mLocks.exchange(newLocks)                                               *)
publish(t) ==
  /\ loc[t].pc = "publish"
  /\ \E p \in Ptrs :
       /\ R!Allocate(p)
       /\ mLocks' = p
       /\ length' = [length EXCEPT ![p] = 2 * loc[t].prev]
  /\ Goto(t, At(t, "open"))
  /\ UNCHANGED <<Fixed, owners, mRehash>>

open(t) ==
  /\ loc[t].pc = "open"
  /\ mRehash' = FALSE
  /\ Goto(t, At(t, "retire"))
  /\ UNCHANGED <<Fixed, mLocks, length, owners, slot, status, holders>>

retire(t) ==
  /\ loc[t].pc = "retire"
  /\ R!Retire(loc[t].locks)
  /\ Goto(t, Done(t, NoValue))
  /\ UNCHANGED <<Fixed, mLocks, length, owners, mRehash>>

(* The domain calls deleter.                                               *)
deleter(p) ==
  /\ R!Free(p)
  /\ length' = [length EXCEPT ![p] = 0]
  /\ UNCHANGED <<Fixed, mLocks, owners, mRehash, loc>>

Next ==
  \/ \E t \in Threads :
       \/ Call(t, {"find", "addOrUpdate", "remove"})
       \/ spin(t) \/ claim(t) \/ lock(t) \/ recheckFlag(t) \/ recheckLocks(t)
       \/ getBucketIndex(t) \/ access(t, TRUE)
       \/ exchange(t) \/ compare(t) \/ drain(t) \/ copy(t) \/ swap(t, "publish")
       \/ publish(t) \/ open(t) \/ retire(t) \/ Return(t)
  \/ \E p \in Ptrs : deleter(p)
=============================================================================
