--------------------------- MODULE HazardPointer ---------------------------
(***************************************************************************)
(* HazardPointerDomain (HazardPointer.hpp), one action per atomic access   *)
(* to shared memory, between sequentially consistent threads.              *)
(*                                                                         *)
(* Every thread has Idx owners, that is, hazard pointers, which it         *)
(* registers in sHazardPointerList when it first needs one; a registered   *)
(* node is never unlinked, not even when its thread has exited.  Retired   *)
(* objects wait in the thread's sLocalDeleteList.  When this list gets     *)
(* longer than twice the number of hazard pointers, the thread adopts the  *)
(* global list, reads all hazard pointers one by one, and deletes what     *)
(* none of them held.  A thread that exits leaves its list to the global   *)
(* list.  Lists are sets of addresses: nothing depends on their order, and *)
(* OneList says that they never hold an address twice.                     *)
(***************************************************************************)
EXTENDS Integers, FiniteSets, TLC

CONSTANTS Threads, Idx, Ptrs, NoPtr

ASSUME PtrAssumption == NoPtr \notin Ptrs
ASSUME FiniteAssumption == IsFiniteSet(Threads) /\ IsFiniteSet(Idx)

VARIABLES
  slot,     \* slot[o]: HazardPointerListNode::mPointer of owner o
  status,   \* status[p]: what the allocator knows of address p
  holders,  \* history variable of Reclamation: who announced p before Retire
  life,     \* life[o]: how far the owner got: none, counted, linked, closed
  mSize,    \* HazardPointerList::mSize
  local,    \* local[t]: the sLocalDeleteList of thread t
  global,   \* sGlobalDeleteList
  pc,       \* pc[t]: where thread t is inside the domain; "run" is outside
  toread,   \* toread[t]: nodes that getPointers has not read yet
  arr,      \* arr[t]: the addresses getPointers has read
  pending   \* pending[t]: the detached local list tryDeallocate walks along

vars == <<slot, status, holders, life, mSize, local, global, pc, toread, arr,
          pending>>

Owners == Threads \X Idx
R == INSTANCE Reclamation

TypeOK ==
  /\ R!ReclamationTypeOK
  /\ life \in [Owners -> {"none", "counted", "linked", "closed"}]
  /\ mSize \in Nat
  /\ local \in [Threads -> SUBSET Ptrs]
  /\ global \in SUBSET Ptrs
  /\ pc \in [Threads -> {"run", "adopt", "snapshot", "read", "sweep", "exit"}]
  /\ toread \in [Threads -> SUBSET Owners]
  /\ arr \in [Threads -> SUBSET Ptrs]
  /\ pending \in [Threads -> SUBSET Ptrs]

Init ==
  /\ R!ReclamationInit
  /\ life = [o \in Owners |-> "none"]
  /\ mSize = 0
  /\ local = [t \in Threads |-> {}]
  /\ global = {}
  /\ pc = [t \in Threads |-> "run"]
  /\ toread = [t \in Threads |-> {}]
  /\ arr = [t \in Threads |-> {}]
  /\ pending = [t \in Threads |-> {}]

scanVars == <<toread, arr, pending>>

(* The nodes getPointers can reach: linked ones, those of dead threads too. *)
Listed == {o \in Owners : life[o] \in {"linked", "closed"}}

(* The values a relaxed load of mSize may return to thread t: none older    *)
(* than its own increments.                                                 *)
SizesSeen(t) ==
  Cardinality({i \in Idx : life[<<t, i>>] \in {"counted", "linked", "closed"}})
    .. mSize

-----------------------------------------------------------------------------
(* The client's operator new.                                              *)
Allocate(p) ==
  /\ R!Allocate(p)
  /\ UNCHANGED <<life, mSize, local, global, pc, scanVars>>

(* Mutant: the counter goes down instead of up.                             *)
CountOwnerDown(t, i) ==
  /\ pc[t] = "run"
  /\ life[<<t, i>>] = "none"
  /\ life' = [life EXCEPT ![<<t, i>>] = "counted"]
  /\ mSize' = mSize - 1
  /\ UNCHANGED <<slot, status, holders, local, global, pc, scanVars>>

(* HazardPointerOwner's constructor: append counts the node ...            *)
CountOwner(t, i) ==
  /\ pc[t] = "run"
  /\ life[<<t, i>>] = "none"
  /\ life' = [life EXCEPT ![<<t, i>>] = "counted"]
  /\ mSize' = mSize + 1
  /\ UNCHANGED <<slot, status, holders, local, global, pc, scanVars>>

(* ... and then links it, with its pointer null.                           *)
LinkOwner(t, i) ==
  /\ life[<<t, i>>] = "counted"
  /\ life' = [life EXCEPT ![<<t, i>>] = "linked"]
  /\ UNCHANGED <<slot, status, holders, mSize, local, global, pc, scanVars>>

(* HazardPointerHolder::store and ::release, at any moment the thread does  *)
(* not scan: the array of owners is constructed as a whole before its use.  *)
Store(t, i, p) ==
  /\ pc[t] = "run"
  /\ \A j \in Idx : life[<<t, j>>] = "linked"
  /\ R!Announce(<<t, i>>, p)
  /\ UNCHANGED <<life, mSize, local, global, pc, scanVars>>

(* Mutant: the threshold of the scan is taken too high.                     *)
RetireLate(t, p) ==
  /\ pc[t] = "run"
  /\ \A j \in Idx : life[<<t, j>>] # "counted"
  /\ status[p] = "live" /\ R!Retire(p)
  /\ local' = [local EXCEPT ![t] = @ \cup {p}]
  /\ \E size \in SizesSeen(t) :
       pc' = [pc EXCEPT ![t] = IF 2 * size + 1 < Cardinality(local'[t])
                                 THEN "adopt" ELSE "run"]
  /\ UNCHANGED <<life, mSize, global, scanVars>>

(* retire of a live object, which is up to the client (see Reclamation):     *)
(* append to the local list, scan if it has become too long.               *)
Retire(t, p) ==
  /\ pc[t] = "run"
  /\ \A j \in Idx : life[<<t, j>>] # "counted"
  /\ status[p] = "live" /\ R!Retire(p)
  /\ local' = [local EXCEPT ![t] = @ \cup {p}]
  /\ \E size \in SizesSeen(t) :
       pc' = [pc EXCEPT ![t] = IF 2 * size < Cardinality(local'[t])
                                 THEN "adopt" ELSE "run"]
  /\ UNCHANGED <<life, mSize, global, scanVars>>

(* Mutant: loadHead where resetHead was meant.                              *)
AdoptShared(t) ==
  /\ pc[t] = "adopt"
  /\ local' = [local EXCEPT ![t] = @ \cup global]
  /\ pc' = [pc EXCEPT ![t] = "snapshot"]
  /\ UNCHANGED <<slot, status, holders, life, mSize, global, scanVars>>

(* tryDeallocateLocalList moves the global list to the local one; loadHead  *)
(* is relaxed and may return an old null, then the list stays where it is.  *)
Adopt(t) ==
  /\ pc[t] = "adopt"
  /\ \/ /\ local' = [local EXCEPT ![t] = @ \cup global]
        /\ global' = {}
     \/ UNCHANGED <<local, global>>
  /\ pc' = [pc EXCEPT ![t] = "snapshot"]
  /\ UNCHANGED <<slot, status, holders, life, mSize, scanVars>>

(* getPointers loads the head of the list of hazard pointers ...           *)
Snapshot(t) ==
  /\ pc[t] = "snapshot"
  /\ toread' = [toread EXCEPT ![t] = Listed]
  /\ arr' = [arr EXCEPT ![t] = {}]
  /\ pc' = [pc EXCEPT ![t] = "read"]
  /\ UNCHANGED <<slot, status, holders, life, mSize, local, global, pending>>

(* ... and reads the nodes one after the other.                            *)
ReadSlot(t) ==
  /\ pc[t] = "read"
  /\ \E o \in toread[t] :
       /\ toread' = [toread EXCEPT ![t] = @ \ {o}]
       /\ arr' = [arr EXCEPT ![t] = @ \cup ({slot[o]} \ {NoPtr})]
  /\ UNCHANGED <<slot, status, holders, life, mSize, local, global, pc, pending>>

(* Mutant: the global list is adopted after the hazard pointers were read.  *)
DetachAndAdopt(t) ==
  /\ pc[t] = "read"
  /\ toread[t] = {}
  /\ pending' = [pending EXCEPT ![t] = local[t] \cup global]
  /\ local' = [local EXCEPT ![t] = {}]
  /\ global' = {}
  /\ pc' = [pc EXCEPT ![t] = "sweep"]
  /\ UNCHANGED <<slot, status, holders, life, mSize, toread, arr>>

(* LocalDeleteList::resetHead, once all pointers are read.                 *)
Detach(t) ==
  /\ pc[t] = "read"
  /\ toread[t] = {}
  /\ pending' = [pending EXCEPT ![t] = local[t]]
  /\ local' = [local EXCEPT ![t] = {}]
  /\ pc' = [pc EXCEPT ![t] = "sweep"]
  /\ UNCHANGED <<slot, status, holders, life, mSize, global, toread, arr>>

(* One round of the loop: delete the object, or keep it for the next scan. *)
Delete(t, p) ==
  /\ pc[t] = "sweep"
  /\ p \in pending[t] \ arr[t]
  /\ pending' = [pending EXCEPT ![t] = @ \ {p}]
  /\ status' = [status EXCEPT ![p] = "free"]
  /\ UNCHANGED <<slot, holders, life, mSize, local, global, pc, toread, arr>>

Keep(t, p) ==
  /\ pc[t] = "sweep"
  /\ p \in pending[t] \cap arr[t]
  /\ pending' = [pending EXCEPT ![t] = @ \ {p}]
  /\ local' = [local EXCEPT ![t] = @ \cup {p}]
  /\ UNCHANGED <<slot, status, holders, life, mSize, global, pc, toread, arr>>

SweepDone(t) ==
  /\ pc[t] = "sweep"
  /\ pending[t] = {}
  /\ pc' = [pc EXCEPT ![t] = "run"]
  /\ arr' = [arr EXCEPT ![t] = {}]
  /\ UNCHANGED <<slot, status, holders, life, mSize, local, global, toread,
                 pending>>

(* The thread ends and destroys its thread_local objects, in an order that  *)
(* depends on which of them it used first.                                  *)
Exit(t) ==
  /\ pc[t] = "run"
  /\ \A j \in Idx : life[<<t, j>>] # "counted"
  /\ pc' = [pc EXCEPT ![t] = "exit"]
  /\ UNCHANGED <<slot, status, holders, life, mSize, local, global, scanVars>>

(* Mutant: the destructor forgets to clear the hazard pointer.              *)
CloseOwnerDirty(t, i) ==
  /\ pc[t] = "exit"
  /\ life[<<t, i>>] = "linked"
  /\ life' = [life EXCEPT ![<<t, i>>] = "closed"]
  /\ UNCHANGED <<slot, status, holders, mSize, local, global, pc, scanVars>>

(* ~HazardPointerOwner stores null; its node stays in the list for good.   *)
CloseOwner(t, i) ==
  /\ pc[t] = "exit"
  /\ life[<<t, i>>] = "linked"
  /\ life' = [life EXCEPT ![<<t, i>>] = "closed"]
  /\ R!Announce(<<t, i>>, NoPtr)
  /\ UNCHANGED <<mSize, local, global, pc, scanVars>>

(* ~LocalDeleteList leaves what is not yet deleted to the global list.     *)
LeaveList(t) ==
  /\ pc[t] = "exit"
  /\ local[t] # {}
  /\ global' = global \cup local[t]
  /\ local' = [local EXCEPT ![t] = {}]
  /\ UNCHANGED <<slot, status, holders, life, mSize, pc, scanVars>>

Scan(t) ==
  \/ Adopt(t) \/ Snapshot(t) \/ ReadSlot(t) \/ Detach(t) \/ SweepDone(t)
  \/ \E p \in Ptrs : Delete(t, p) \/ Keep(t, p)

Next ==
  \/ \E p \in Ptrs : Allocate(p)
  \/ \E t \in Threads :
       \/ \E i \in Idx : CountOwner(t, i) \/ LinkOwner(t, i) \/ CloseOwner(t, i)
       \/ \E i \in Idx, p \in Ptrs \cup {NoPtr} : Store(t, i, p)
       \/ \E p \in Ptrs : Retire(t, p)
       \/ Scan(t) \/ Exit(t) \/ LeaveList(t)

Spec == Init /\ [][Next]_vars

-----------------------------------------------------------------------------
(* PROPERTIES                                                              *)

(* What waits for its deletion in a list of thread t.                      *)
Waiting(t) == local[t] \cup pending[t]

(* Each retired object waits in exactly one list, and the lists hold        *)
(* nothing else: no object is deleted twice (two threads adopting the same  *)
(* global list, a kept node linked twice), none is forgotten when its       *)
(* thread exits.                                                            *)
OneList ==
  /\ \A p \in Ptrs : status[p] = "retired"
                      <=> p \in global \/ \E t \in Threads : p \in Waiting(t)
  /\ \A t \in Threads :
       /\ local[t] \cap pending[t] = {}
       /\ Waiting(t) \cap global = {}
       /\ \A u \in Threads \ {t} : Waiting(t) \cap Waiting(u) = {}

(* The heart of the algorithm.  A scan may miss an announcement made while  *)
(* it reads, never one that was there before the object was retired: every  *)
(* holder of an object in a scanning thread's list is a linked owner that   *)
(* still announces it and has either been read or is still to be read.      *)
ScanInv ==
  /\ \A o \in Owners : slot[o] # NoPtr => life[o] = "linked"
  /\ \A p \in Ptrs : \A o \in holders[p] :
       status[p] = "retired" => slot[o] = p
  /\ \A t \in Threads :
       /\ pc[t] # "sweep" => pending[t] = {}
       /\ \A p \in Waiting(t) : \A o \in holders[p] :
            /\ pc[t] = "read" => o \in toread[t] \/ p \in arr[t]
            /\ pc[t] = "sweep" /\ p \in pending[t] => p \in arr[t]

(* Garbage is bounded: outside retire, a thread keeps at most two retired   *)
(* objects for each hazard pointer ever counted, although the list it       *)
(* adopts from exited threads and the stale size it reads are arbitrary.    *)
GarbageBound ==
  \A t \in Threads : pc[t] = "run" => Cardinality(local[t]) <= 2 * mSize

(* The domain keeps its promise: every behaviour of the hazard pointer list *)
(* and the delete lists is one of Reclamation.  The step that matters is    *)
(* Delete: nobody who announced the object before it was retired, and still *)
(* announces it, was missed by a scan that read the slots one at a time.    *)
ImplementsReclamation == R!ReclamationSpec

-----------------------------------------------------------------------------
(* Threads are interchangeable, and so are addresses: every action treats   *)
(* them alike, and no checked property is a liveness property.              *)
Symmetry == Permutations(Threads) \cup Permutations(Ptrs)
=============================================================================
