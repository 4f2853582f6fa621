------------------------------ MODULE LockBased -----------------------------
(***************************************************************************)
(* The lock-based data structures; structure says which one the program    *)
(* uses.  The three hash maps promise the same, so that one refinement     *)
(* mapping serves all of them.                                             *)
(***************************************************************************)
EXTENDS ThreadSafeQueue, FiniteSets, TLC

CONSTANTS MapThreads, Keys, NoKey, Ptrs, NoPtr, FirstLocks, Hash, Threshold,
          MaxSize,
          InitialSize,   \* the number of buckets and of mutexes at first
          RefinableSize  \* the same for RefinableThreadSafeHashmap

ASSUME ThreadsAssumption == IsFiniteSet(Threads) /\ NoThread \notin Threads
ASSUME ValuesAssumption == NoValue \notin Values
ASSUME KeysAssumption ==
  IsFiniteSet(Keys) /\ NoKey \notin Keys /\ Hash \in [Keys -> Nat]
ASSUME LocksAssumption == FirstLocks \in Ptrs /\ NoPtr \notin Ptrs
ASSUME SizesAssumption ==
  MaxSize \in Nat /\ InitialSize \in 1 .. MaxSize /\ RefinableSize \in 1 .. MaxSize

VARIABLES structure,
          mStack, at, item,  \* ThreadSafeStack
          mBuckets, mSize, mLocks, length, owners, mRehash, slot, status, holders, loc

Stack == INSTANCE ThreadSafeStack
Map == INSTANCE ThreadSafeHashMap WITH Threads <- MapThreads
FixedSize == INSTANCE FixedSizeThreadSafeHashMap WITH Threads <- MapThreads
Striped == INSTANCE StripedThreadSafeHashmap WITH Threads <- MapThreads
Refinable == INSTANCE RefinableThreadSafeHashmap WITH Threads <- MapThreads

mapVars ==
  <<mBuckets, mSize, mLocks, length, owners, mRehash, slot, status, holders, loc>>

StructureInit ==
  /\ Init /\ Stack!StackInit
  /\ \/ structure \in {"queue", "stack", "fixed", "striped"} /\ Map!MapInit(InitialSize)
     \/ structure = "refinable" /\ Map!MapInit(RefinableSize)

QueueNext ==
  structure = "queue" /\ Next /\ UNCHANGED <<structure, mStack, at, item, mapVars>>

StackNext ==
  structure = "stack" /\ Stack!Next /\ UNCHANGED <<structure, vars, mapVars>>

MapNext ==
  /\ \/ structure = "fixed" /\ FixedSize!Next
     \/ structure = "striped" /\ Striped!Next
     \/ structure = "refinable" /\ Refinable!Next
  /\ UNCHANGED <<structure, vars, mStack, at, item>>

StructureSpec ==
  StructureInit
    /\ [][QueueNext \/ StackNext \/ MapNext]_<<structure, vars, mStack, at, item, mapVars>>

-----------------------------------------------------------------------------
(* PROPERTIES                                                              *)

(* Each structure is well typed, and each mutex of the queue is held by the  *)
(* thread that is in its critical section.                                 *)
StructureTypeOK == TypeOK /\ Stack!StackTypeOK /\ Map!MapTypeOK

(* A consumer of the queue that goes on to pop finds a value and not the     *)
(* dummy; one of the stack sleeps only while others are on their way to      *)
(* every value there is.                                                   *)
ConsumersServed == NeverTheDummy /\ Stack!NoneForgotten

(* While rehash moves the elements nobody else works on them, whichever      *)
(* array of mutexes he used to get in.                                     *)
RehashAlone == Map!RehashAlone

(* Nobody locks, holds or unlocks a mutex of an array that was deleted.     *)
NoLockAfterFree == Map!NoLockAfterFree

(* All of them are linearizable; a pop that throws leaves the queue as it    *)
(* was, and a snapshot is the whole map at one instant.                    *)
StructureLinearizable == Linearizable /\ Stack!StackLinearizable /\ Map!MapLinearizable

-----------------------------------------------------------------------------
(* THE INSTANCE FOR TLC                                                    *)

(* Two of three keys share a bucket until there are four.                  *)
MCHash ==
  CHOOSE h \in [Keys -> {0, 1, 3}] : \A i \in {0, 1, 3} : \E k \in Keys : h[k] = i

Symmetry ==
  Permutations(Producers) \cup Permutations(Consumers) \cup Permutations(MapThreads)
    \cup Permutations(Values)
=============================================================================
