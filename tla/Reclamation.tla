---------------------------- MODULE Reclamation ----------------------------
(***************************************************************************)
(* What HazardPointerDomain promises its clients, and nothing of how.      *)
(*                                                                         *)
(* An object is free, live or retired.  An owner (one hazard pointer of    *)
(* one thread) announces an address in its slot, or none.  holders[p] is   *)
(* the set of owners that have announced p without interruption since      *)
(* before p was retired: the domain frees p only when there are none.  An  *)
(* owner that announces an address too late, after the object was retired, *)
(* is not protected by it, whatever it reads in its own slot: that is why  *)
(* the clients of the domain load the shared pointer a second time.        *)
(***************************************************************************)
CONSTANTS Owners,  \* the HazardPointerOwner objects of all threads
          Ptrs,    \* the addresses the allocator hands out
          NoPtr    \* nullptr

ASSUME NoPtrAssumption == NoPtr \notin Ptrs

VARIABLES slot,    \* slot[o]: HazardPointerOwner::mPointer of owner o
          status,  \* status[p]: what lies at address p
          holders  \* holders[p]: see above; meaningful while p is retired

rvars == <<slot, status, holders>>

ReclamationTypeOK ==
  /\ slot \in [Owners -> Ptrs \cup {NoPtr}]
  /\ status \in [Ptrs -> {"free", "live", "retired"}]
  /\ holders \in [Ptrs -> SUBSET Owners]

ReclamationInit ==
  /\ slot = [o \in Owners |-> NoPtr]
  /\ status = [p \in Ptrs |-> "free"]
  /\ holders = [p \in Ptrs |-> {}]

-----------------------------------------------------------------------------
(* operator new of a client: any free address, a recycled one included.    *)
Allocate(p) ==
  /\ status[p] = "free"
  /\ status' = [status EXCEPT ![p] = "live"]
  /\ UNCHANGED <<slot, holders>>

(* A store to a hazard pointer; p = NoPtr is HazardPointerHolder::release. *)
Announce(o, p) ==
  /\ slot' = [slot EXCEPT ![o] = p]
  /\ holders' = [q \in Ptrs |-> IF q = p THEN holders[q] ELSE holders[q] \ {o}]
  /\ UNCHANGED status

(* The client has made p unreachable and hands it over.  Nothing keeps a     *)
(* client from retiring what it has retired before, or what is deleted: the  *)
(* object would be deleted twice, and is broken.                           *)
Retire(p) ==
  /\ status' = [status EXCEPT ![p] = IF @ = "live" THEN "retired" ELSE "broken"]
  /\ holders' = [holders EXCEPT ![p] = {o \in Owners : slot[o] = p}]
  /\ UNCHANGED slot

(* The domain runs the deleter of p.                                       *)
Free(p) ==
  /\ status[p] = "retired"
  /\ holders[p] = {}
  /\ status' = [status EXCEPT ![p] = "free"]
  /\ UNCHANGED <<slot, holders>>

(* The client's part of the contract: it retires live objects only.        *)
ReclamationNext ==
  \/ \E p \in Ptrs : Allocate(p) \/ (status[p] = "live" /\ Retire(p)) \/ Free(p)
  \/ \E o \in Owners, p \in Ptrs \cup {NoPtr} : Announce(o, p)

ReclamationSpec == ReclamationInit /\ [][ReclamationNext]_rvars
=============================================================================
