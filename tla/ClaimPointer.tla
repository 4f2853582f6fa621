---------------------------- MODULE ClaimPointer ----------------------------
(***************************************************************************)
(* The protocol by which the clients of the hazard pointer domain use it:  *)
(* a reader claims the object a shared atomic pointer refers to with       *)
(* claimPointer, a writer publishes a new object in its place and then     *)
(* retires the old one (LockFreeLocalWorkQueue replaces its array like     *)
(* that).  Addresses are recycled: a reader that is delayed between its    *)
(* steps may meet a new object at the address it loaded.                   *)
(***************************************************************************)
EXTENDS Reclamation

CONSTANT Cells     \* the shared atomic pointers

VARIABLES
  cell,       \* cell[c]: the value of the shared pointer c
  fresh,      \* objects allocated by a writer and not yet published
  unlinked,   \* objects a writer replaced and has not yet retired
  pc,         \* pc[t]: where reader t is in claimPointer
  source,     \* source[t]: the shared pointer it claims
  loaded      \* loaded[t]: the local variable p of claimPointer

vars == <<slot, status, holders, cell, fresh, unlinked, pc, source, loaded>>
readerVars == <<pc, source, loaded>>
writerVars == <<cell, fresh, unlinked>>

Init ==
  /\ ReclamationInit
  /\ cell = [c \in Cells |-> NoPtr]
  /\ fresh = {}
  /\ unlinked = {}
  /\ pc = [t \in Owners |-> "out"]
  /\ source \in [Owners -> Cells]
  /\ loaded = [t \in Owners |-> NoPtr]

TypeOK ==
  /\ ReclamationTypeOK
  /\ cell \in [Cells -> Ptrs \cup {NoPtr}]
  /\ fresh \in SUBSET Ptrs
  /\ unlinked \in SUBSET Ptrs
  /\ pc \in [Owners -> {"out", "load", "store", "check", "using"}]
  /\ source \in [Owners -> Cells]
  /\ loaded \in [Owners -> Ptrs \cup {NoPtr}]

-----------------------------------------------------------------------------
Begin(t, c) ==
  /\ pc[t] = "out"
  /\ source' = [source EXCEPT ![t] = c]
  /\ pc' = [pc EXCEPT ![t] = "load"]
  /\ UNCHANGED <<rvars, writerVars, loaded>>

(* p = pointer.load()                                                      *)
Load(t) ==
  /\ pc[t] = "load"
  /\ loaded' = [loaded EXCEPT ![t] = cell[source[t]]]
  /\ pc' = [pc EXCEPT ![t] = "store"]
  /\ UNCHANGED <<rvars, writerVars, source>>

(* holder.store(p)                                                         *)
StoreHazard(t) ==
  /\ pc[t] = "store"
  /\ Announce(t, loaded[t])
  /\ pc' = [pc EXCEPT ![t] = "check"]
  /\ UNCHANGED <<writerVars, source, loaded>>

(* Mutant: the pointer is not loaded a second time.                         *)
CheckNothing(t) ==
  /\ pc[t] = "check"
  /\ pc' = [pc EXCEPT ![t] = "using"]
  /\ UNCHANGED <<rvars, writerVars, source, loaded>>

(* q = pointer.load(), and another round while p # q                       *)
Check(t) ==
  /\ pc[t] = "check"
  /\ pc' = [pc EXCEPT ![t] = IF cell[source[t]] = loaded[t] THEN "using" ELSE "load"]
  /\ UNCHANGED <<rvars, writerVars, source, loaded>>

(* The HazardPointerHolder goes out of scope.                              *)
Release(t) ==
  /\ pc[t] = "using"
  /\ Announce(t, NoPtr)
  /\ pc' = [pc EXCEPT ![t] = "out"]
  /\ UNCHANGED <<writerVars, source, loaded>>

-----------------------------------------------------------------------------
New(p) ==
  /\ Allocate(p)
  /\ fresh' = fresh \cup {p}
  /\ UNCHANGED <<cell, unlinked, readerVars>>

(* Mutant: a writer publishes an object and keeps it for the next time.     *)
PublishTwice(c, p) ==
  /\ p \in fresh
  /\ unlinked' = unlinked \cup ({cell[c]} \ {NoPtr})
  /\ cell' = [cell EXCEPT ![c] = p]
  /\ UNCHANGED <<rvars, fresh, readerVars>>

(* mTasks.store(newTasks): the old object is out of reach from now on ...  *)
Publish(c, p) ==
  /\ p \in fresh
  /\ fresh' = fresh \ {p}
  /\ unlinked' = unlinked \cup ({cell[c]} \ {NoPtr})
  /\ cell' = [cell EXCEPT ![c] = p]
  /\ UNCHANGED <<rvars, readerVars>>

(* ... and only then HazardPointerDomain::retire(tasks).                   *)
RetireOld(p) ==
  /\ p \in unlinked
  /\ Retire(p)
  /\ unlinked' = unlinked \ {p}
  /\ UNCHANGED <<cell, fresh, readerVars>>

Reclaim(p) ==
  /\ Free(p)
  /\ UNCHANGED <<readerVars, writerVars>>

Next ==
  \/ \E t \in Owners :
       \/ \E c \in Cells : Begin(t, c)
       \/ Load(t) \/ StoreHazard(t) \/ Check(t) \/ Release(t)
  \/ \E p \in Ptrs :
       \/ New(p) \/ RetireOld(p) \/ Reclaim(p)
       \/ \E c \in Cells : Publish(c, p)

Spec == Init /\ [][Next]_vars

-----------------------------------------------------------------------------
(* PROPERTIES                                                              *)

(* What claimPointer returned stays allocated until the holder releases it, *)
(* however long ago a writer replaced and retired it.                      *)
NoUseAfterFree ==
  \A t \in Owners : pc[t] = "using" /\ loaded[t] # NoPtr
                      => status[loaded[t]] # "free"

(* Why: a claimed object is live, or its reader is one of the holders that  *)
(* keep the domain from freeing it; what a shared pointer refers to is      *)
(* live and referred to by no other pointer.                               *)
ClaimInv ==
  /\ \A t \in Owners : pc[t] \in {"check", "using"} => slot[t] = loaded[t]
  /\ \A t \in Owners : pc[t] = "using" /\ loaded[t] # NoPtr =>
       \/ status[loaded[t]] = "live"
       \/ status[loaded[t]] = "retired" /\ t \in holders[loaded[t]]
  /\ \A p \in Ptrs : p \in fresh \cup unlinked => status[p] = "live"
  /\ fresh \cap unlinked = {}
  /\ \A c \in Cells : cell[c] # NoPtr =>
       /\ status[cell[c]] = "live"
       /\ cell[c] \notin fresh \cup unlinked
       /\ \A d \in Cells \ {c} : cell[d] # cell[c]
=============================================================================
