------------------------ MODULE HazardPointerProofs ------------------------
(***************************************************************************)
(* Machine-checked proofs, for any number of threads, of hazard pointers   *)
(* per thread and of addresses, that the domain frees an object only when  *)
(* Reclamation allows it and that no retired object is lost or deleted     *)
(* twice.                                                                  *)
(*                                                                         *)
(* IInv is inductive: OneList alone does not say why a scan deletes only   *)
(* what nobody holds, and ScanInv needs OneList to know that no thread     *)
(* adds to the list another one is scanning.                               *)
(***************************************************************************)
EXTENDS HazardPointer, FiniteSetTheorems, TLAPS

(* A leaf may take a prover half a minute.                                 *)
USE SMTT(30), ZenonT(30)

IInv == TypeOK /\ OneList /\ ScanInv

LEMMA InitIInv == Init => IInv
BY ONLY PtrAssumption DEF Init, IInv, TypeOK, OneList, ScanInv, Waiting, Owners,
   R!ReclamationInit, R!ReclamationTypeOK

(* Actions that leave the delete lists and the scans alone.                *)
LEMMA OwnerSteps ==
  ASSUME IInv, NEW t \in Threads, NEW i \in Idx,
         CountOwner(t, i) \/ LinkOwner(t, i) \/ CloseOwner(t, i)
           \/ \E p \in Ptrs \cup {NoPtr} : Store(t, i, p)
  PROVE  IInv'
<1> USE PtrAssumption DEF IInv
<1>1. CASE CountOwner(t, i)
  <2>1. TypeOK'
    BY <1>1 DEF CountOwner, TypeOK, Owners, R!ReclamationTypeOK, scanVars
  <2>2. OneList' /\ ScanInv'
    BY <1>1, ZenonT(40) DEF CountOwner, OneList, ScanInv, Waiting, TypeOK, Owners, scanVars, R!ReclamationTypeOK
  <2> QED BY ONLY <2>1, <2>2
<1>2. CASE LinkOwner(t, i)
  <2>1. TypeOK'
    BY <1>2 DEF LinkOwner, TypeOK, Owners, R!ReclamationTypeOK, scanVars
  <2>2. OneList' /\ ScanInv'
    BY <1>2 DEF LinkOwner, OneList, ScanInv, Waiting, TypeOK, Owners, scanVars, R!ReclamationTypeOK
  <2> QED BY ONLY <2>1, <2>2
<1>3. CASE CloseOwner(t, i)
  <2>1. TypeOK'
    BY <1>3 DEF CloseOwner, R!Announce, TypeOK, Owners, R!ReclamationTypeOK, scanVars
  <2>2. OneList'
    BY <1>3 DEF CloseOwner, R!Announce, OneList, Waiting, scanVars
  <2>3. ScanInv'
    BY <1>3 DEF CloseOwner, R!Announce, ScanInv, Waiting, TypeOK, Owners, scanVars, R!ReclamationTypeOK
  <2> QED BY ONLY <2>1, <2>2, <2>3
<1>4. ASSUME NEW p \in Ptrs \cup {NoPtr}, Store(t, i, p)
      PROVE  IInv'
  <2>1. TypeOK'
    BY <1>4 DEF Store, R!Announce, TypeOK, Owners, R!ReclamationTypeOK, scanVars
  <2>2. OneList'
    BY <1>4 DEF Store, R!Announce, OneList, Waiting, scanVars
  <2>3. ScanInv'
    BY <1>4 DEF Store, R!Announce, ScanInv, Waiting, TypeOK, Owners, scanVars, R!ReclamationTypeOK
  <2> QED BY ONLY <2>1, <2>2, <2>3
<1> QED BY <1>1, <1>2, <1>3, <1>4

(* The client's new, retire and thread exit.                               *)
LEMMA ClientSteps ==
  ASSUME IInv,
         \/ \E p \in Ptrs : Allocate(p) \/ \E t \in Threads : Retire(t, p)
         \/ \E t \in Threads : Exit(t) \/ LeaveList(t)
  PROVE  IInv'
<1> USE PtrAssumption DEF IInv
<1>1. ASSUME NEW p \in Ptrs, Allocate(p)
      PROVE  IInv'
  <2>1. TypeOK'
    BY <1>1 DEF Allocate, R!Allocate, TypeOK, Owners, R!ReclamationTypeOK, scanVars
  <2>2. OneList'
    BY <1>1 DEF Allocate, R!Allocate, OneList, Waiting, TypeOK, R!ReclamationTypeOK, scanVars
  <2>3. ScanInv'
    BY <1>1 DEF Allocate, R!Allocate, ScanInv, Waiting, TypeOK, Owners, scanVars, R!ReclamationTypeOK
  <2> QED BY ONLY <2>1, <2>2, <2>3
<1>2. ASSUME NEW p \in Ptrs, NEW t \in Threads, Retire(t, p)
      PROVE  IInv'
  <2>0. PICK s \in {"run", "adopt"} : pc' = [pc EXCEPT ![t] = s]
    BY ONLY <1>2 DEF Retire
  <2>1. TypeOK'
    BY <1>2, <2>0 DEF Retire, R!Retire, TypeOK, Owners, R!ReclamationTypeOK, scanVars
  <2>2. OneList'
    BY <1>2 DEF Retire, R!Retire, OneList, Waiting, TypeOK, R!ReclamationTypeOK, scanVars
  <2>3. pc'[t] \in {"run", "adopt"} /\ \A u \in Threads \ {t} : pc'[u] = pc[u]
    BY <2>0 DEF TypeOK
  <2>4. ScanInv'
    BY <1>2, <2>3 DEF Retire, R!Retire, ScanInv, OneList, Waiting, TypeOK, Owners, scanVars, R!ReclamationTypeOK
  <2> QED BY ONLY <2>1, <2>2, <2>4
<1>3. ASSUME NEW t \in Threads, Exit(t)
      PROVE  IInv'
  <2>1. TypeOK'
    BY <1>3 DEF Exit, TypeOK, Owners, R!ReclamationTypeOK, scanVars
  <2>2. OneList' /\ ScanInv'
    BY <1>3 DEF Exit, OneList, ScanInv, Waiting, TypeOK, Owners, scanVars, R!ReclamationTypeOK
  <2> QED BY ONLY <2>1, <2>2
<1>4. ASSUME NEW t \in Threads, LeaveList(t)
      PROVE  IInv'
  <2>1. TypeOK'
    BY <1>4 DEF LeaveList, TypeOK, Owners, R!ReclamationTypeOK, scanVars
  <2>2. OneList'
    BY <1>4 DEF LeaveList, OneList, Waiting, TypeOK, R!ReclamationTypeOK, scanVars
  <2>3. ScanInv'
    BY <1>4 DEF LeaveList, ScanInv, OneList, Waiting, TypeOK, Owners, scanVars, R!ReclamationTypeOK
  <2> QED BY ONLY <2>1, <2>2, <2>3
<1> QED BY <1>1, <1>2, <1>3, <1>4

(* The steps of a scan.                                                    *)
LEMMA ScanSteps ==
  ASSUME IInv, NEW t \in Threads, Scan(t)
  PROVE  IInv'
<1> USE PtrAssumption DEF IInv
<1>1. CASE Adopt(t)
  <2>1. TypeOK'
    BY <1>1 DEF Adopt, TypeOK, Owners, R!ReclamationTypeOK, scanVars
  <2>2. OneList'
    BY <1>1 DEF Adopt, OneList, Waiting, TypeOK, R!ReclamationTypeOK, scanVars
  <2>3. ScanInv'
    BY <1>1 DEF Adopt, ScanInv, Waiting, TypeOK, Owners, scanVars, R!ReclamationTypeOK
  <2> QED BY ONLY <2>1, <2>2, <2>3
<1>2. CASE Snapshot(t)
  <2>1. TypeOK'
    BY <1>2 DEF Snapshot, Listed, TypeOK, Owners, R!ReclamationTypeOK
  <2>2. OneList'
    BY <1>2 DEF Snapshot, OneList, Waiting
  <2>3. \A p \in Waiting(t) : \A o \in holders[p] : o \in Listed
    BY DEF OneList, ScanInv, Waiting, TypeOK, Owners, R!ReclamationTypeOK, Listed
  <2>4. ScanInv'
    BY <1>2, <2>3 DEF Snapshot, ScanInv, Waiting, TypeOK, Owners, R!ReclamationTypeOK
  <2> QED BY ONLY <2>1, <2>2, <2>4
<1>3. CASE ReadSlot(t)
  <2>1. TypeOK'
    BY <1>3 DEF ReadSlot, TypeOK, Owners, R!ReclamationTypeOK
  <2>2. OneList'
    BY <1>3 DEF ReadSlot, OneList, Waiting
  <2>3. \A p \in Waiting(t) : p # NoPtr /\ \A o \in holders[p] : slot[o] = p
    BY DEF OneList, ScanInv, Waiting, TypeOK, Owners, R!ReclamationTypeOK
  <2>4. ScanInv'
    BY <1>3, <2>3 DEF ReadSlot, ScanInv, Waiting, TypeOK, Owners, R!ReclamationTypeOK
  <2> QED BY ONLY <2>1, <2>2, <2>4
<1>4. CASE Detach(t)
  <2>1. TypeOK'
    BY <1>4 DEF Detach, TypeOK, Owners, R!ReclamationTypeOK
  <2>2. OneList'
    BY <1>4 DEF Detach, OneList, ScanInv, Waiting, TypeOK
  <2>3. ScanInv'
    BY <1>4 DEF Detach, ScanInv, Waiting, TypeOK, Owners, R!ReclamationTypeOK
  <2> QED BY ONLY <2>1, <2>2, <2>3
<1>5. ASSUME NEW p \in Ptrs, Delete(t, p)
      PROVE  IInv'
  <2>1. TypeOK'
    BY <1>5 DEF Delete, TypeOK, Owners, R!ReclamationTypeOK
  <2>2. OneList'
    BY <1>5 DEF Delete, OneList, Waiting, TypeOK, R!ReclamationTypeOK
  <2>3. ScanInv'
    BY <1>5 DEF Delete, ScanInv, Waiting, TypeOK, Owners, R!ReclamationTypeOK
  <2> QED BY ONLY <2>1, <2>2, <2>3
<1>6. ASSUME NEW p \in Ptrs, Keep(t, p)
      PROVE  IInv'
  <2>1. TypeOK'
    BY <1>6 DEF Keep, TypeOK, Owners, R!ReclamationTypeOK
  <2>2. OneList'
    BY <1>6 DEF Keep, OneList, Waiting, TypeOK, R!ReclamationTypeOK
  <2>3. ScanInv'
    BY <1>6 DEF Keep, ScanInv, Waiting, TypeOK, Owners, R!ReclamationTypeOK
  <2> QED BY ONLY <2>1, <2>2, <2>3
<1>7. CASE SweepDone(t)
  <2>1. TypeOK'
    BY <1>7 DEF SweepDone, TypeOK, Owners, R!ReclamationTypeOK
  <2>2. OneList'
    BY <1>7 DEF SweepDone, OneList, Waiting
  <2>3. ScanInv'
    BY <1>7 DEF SweepDone, ScanInv, Waiting, TypeOK, Owners, R!ReclamationTypeOK
  <2> QED BY ONLY <2>1, <2>2, <2>3
<1> QED BY <1>1, <1>2, <1>3, <1>4, <1>5, <1>6, <1>7 DEF Scan

LEMMA NextIInv == IInv /\ [Next]_vars => IInv'
<1> SUFFICES ASSUME IInv, [Next]_vars PROVE IInv'
  OBVIOUS
<1>1. CASE Next
  <2>1. CASE \E p \in Ptrs : Allocate(p)
    BY <2>1, ClientSteps
  <2>2. ASSUME NEW t \in Threads,
               \/ \E p \in Ptrs : Retire(t, p)
               \/ Exit(t) \/ LeaveList(t)
        PROVE  IInv'
    BY <2>2, ClientSteps
  <2>3. ASSUME NEW t \in Threads, NEW i \in Idx,
               \/ CountOwner(t, i) \/ LinkOwner(t, i) \/ CloseOwner(t, i)
               \/ \E p \in Ptrs \cup {NoPtr} : Store(t, i, p)
        PROVE  IInv'
    BY <2>3, OwnerSteps
  <2> QED BY <1>1, <2>1, <2>2, <2>3, ScanSteps DEF Next
<1>2. CASE UNCHANGED vars
  BY <1>2 DEF vars, IInv, TypeOK, OneList, ScanInv, Waiting, Owners,
     R!ReclamationTypeOK
<1> QED BY <1>1, <1>2

(* Type correctness of the domain.                                         *)
THEOREM TypeCorrect == Spec => []TypeOK
<1>1. IInv => TypeOK
  BY DEF IInv
<1> QED BY InitIInv, NextIInv, <1>1, PTL DEF Spec

(* No retired object is in two delete lists, or in none.                   *)
THEOREM OneListCorrect == Spec => []OneList
<1>1. IInv => OneList
  BY DEF IInv
<1> QED BY InitIInv, NextIInv, <1>1, PTL DEF Spec

(* A scan never misses a hazard pointer that was set before the object it   *)
(* is about to judge was retired.                                          *)
THEOREM ScanCorrect == Spec => []ScanInv
<1>1. IInv => ScanInv
  BY DEF IInv
<1> QED BY InitIInv, NextIInv, <1>1, PTL DEF Spec

(* What a scan deletes has no holder left: the guard of Reclamation's Free. *)
LEMMA DeleteIsFree ==
  ASSUME IInv, NEW t \in Threads, NEW p \in Ptrs, Delete(t, p)
  PROVE  R!Free(p)
<1>1. p \in Waiting(t) /\ status[p] = "retired"
  BY DEF IInv, OneList, Waiting, Delete
<1>2. holders[p] = {}
  BY <1>1 DEF IInv, ScanInv, Delete
<1> QED BY <1>1, <1>2 DEF Delete, R!Free

LEMMA StepSimulation == IInv /\ [Next]_vars => [R!ReclamationNext]_(R!rvars)
<1> SUFFICES ASSUME IInv, Next PROVE [R!ReclamationNext]_(R!rvars)
  BY DEF vars, R!rvars
<1>1. CASE \E p \in Ptrs : Allocate(p)
  BY ONLY <1>1 DEF Allocate, R!ReclamationNext
<1>2. ASSUME NEW t \in Threads, NEW i \in Idx,
             CountOwner(t, i) \/ LinkOwner(t, i) \/ CloseOwner(t, i)
      PROVE  [R!ReclamationNext]_(R!rvars)
  BY ONLY <1>2 DEF CountOwner, LinkOwner, CloseOwner, R!ReclamationNext, R!rvars, Owners
<1>3. ASSUME NEW t \in Threads, NEW i \in Idx, NEW p \in Ptrs \cup {NoPtr},
             Store(t, i, p)
      PROVE  [R!ReclamationNext]_(R!rvars)
  BY ONLY <1>3 DEF Store, R!ReclamationNext, Owners
<1>4. ASSUME NEW t \in Threads, NEW p \in Ptrs, Retire(t, p)
      PROVE  [R!ReclamationNext]_(R!rvars)
  BY ONLY <1>4 DEF Retire, R!ReclamationNext
<1>5. ASSUME NEW t \in Threads, NEW p \in Ptrs, Delete(t, p)
      PROVE  [R!ReclamationNext]_(R!rvars)
  BY <1>5, DeleteIsFree DEF R!ReclamationNext
<1>6. ASSUME NEW t \in Threads,
             \/ Adopt(t) \/ Snapshot(t) \/ ReadSlot(t) \/ Detach(t) \/ SweepDone(t)
             \/ \E p \in Ptrs : Keep(t, p)
             \/ Exit(t) \/ LeaveList(t)
      PROVE  [R!ReclamationNext]_(R!rvars)
  BY ONLY <1>6 DEF Adopt, Snapshot, ReadSlot, Detach, SweepDone, Keep, Exit, LeaveList, R!rvars
<1> QED BY <1>1, <1>2, <1>3, <1>4, <1>5, <1>6 DEF Next, Scan

(* The hazard pointer domain implements its specification: it never frees   *)
(* an object someone holds since before it was retired.                    *)
THEOREM Implementation == Spec => ImplementsReclamation
<1>1. Init => R!ReclamationInit
  BY DEF Init
<1> QED BY InitIInv, NextIInv, <1>1, StepSimulation, PTL
        DEF Spec, ImplementsReclamation, R!ReclamationSpec

-----------------------------------------------------------------------------
(* Garbage is bounded.  A scan reads no more pointers than were ever        *)
(* counted, and keeps only what it has read; so what a scan leaves is       *)
(* bounded whatever it adopted, and between scans a stale size that retire  *)
(* reads is at most the present one.                                       *)
Counted == {o \in Owners : life[o] # "none"}

Bounded(t) ==
  /\ IsFiniteSet(local[t]) /\ IsFiniteSet(arr[t])
  /\ pc[t] = "run" => Cardinality(local[t]) <= 2 * mSize
  /\ pc[t] = "read" => Cardinality(arr[t]) + Cardinality(toread[t]) <= mSize
  /\ pc[t] = "sweep" => local[t] \subseteq arr[t] /\ Cardinality(arr[t]) <= mSize

BoundInv ==
  /\ mSize = Cardinality(Counted)
  /\ IsFiniteSet(global)
  /\ \A t \in Threads : Bounded(t)

LEMMA SubsetOfOwners ==
  ASSUME NEW S \in SUBSET Owners
  PROVE  IsFiniteSet(S) /\ Cardinality(S) \in Nat
<1>1. IsFiniteSet(Owners)
  BY ONLY FiniteAssumption, FS_Product DEF Owners
<1> QED BY ONLY <1>1, FS_Subset, FS_CardinalityType

LEMMA InitBound == Init => BoundInv
<1> SUFFICES ASSUME Init PROVE BoundInv
  OBVIOUS
<1>1. Counted = {}
  BY DEF Init, Counted
<1>2. /\ mSize = 0 /\ global = {}
      /\ \A t \in Threads : local[t] = {} /\ arr[t] = {} /\ pc[t] = "run"
  BY DEF Init
<1> QED BY ONLY <1>1, <1>2, FS_EmptySet DEF BoundInv, Bounded

(* What does not concern a thread leaves its lists bounded.                *)
LEMMA StaysBounded ==
  ASSUME NEW t \in Threads, Bounded(t), TypeOK, mSize' \in Nat, mSize <= mSize',
         local'[t] = local[t], arr'[t] = arr[t], toread'[t] = toread[t], pc'[t] = pc[t]
  PROVE  Bounded(t)'
<1>1. /\ Cardinality(local[t]) \in Nat /\ Cardinality(arr[t]) \in Nat
      /\ Cardinality(toread[t]) \in Nat
  BY SubsetOfOwners, FS_CardinalityType DEF Bounded, TypeOK
<1>2. mSize \in Nat
  BY DEF TypeOK
<1> QED BY <1>1, <1>2 DEF Bounded

(* A step of t that counts no hazard pointer.                              *)
LEMMA ThreadBound ==
  ASSUME TypeOK, BoundInv, NEW t \in Threads, Bounded(t)', IsFiniteSet(global)',
         Counted' = Counted, mSize' = mSize,
         \A u \in Threads \ {t} : /\ local'[u] = local[u] /\ arr'[u] = arr[u]
                                  /\ toread'[u] = toread[u] /\ pc'[u] = pc[u]
  PROVE  BoundInv'
<1>1. ASSUME NEW u \in Threads \ {t} PROVE Bounded(u)'
  <2>1. mSize' \in Nat /\ mSize <= mSize'
    BY DEF TypeOK
  <2> QED BY <2>1, StaysBounded DEF BoundInv
<1> QED BY <1>1 DEF BoundInv

LEMMA CountBound ==
  ASSUME TypeOK, BoundInv, NEW t \in Threads, NEW i \in Idx, CountOwner(t, i)
  PROVE  BoundInv'
<1>1. /\ life[<<t, i>>] = "none" /\ life' = [life EXCEPT ![<<t, i>>] = "counted"]
      /\ mSize' = mSize + 1 /\ UNCHANGED <<local, global, pc, toread, arr>>
  BY DEF CountOwner, scanVars
<1>2. <<t, i>> \in Owners /\ Counted' = Counted \cup {<<t, i>>} /\ <<t, i>> \notin Counted
  BY <1>1 DEF TypeOK, Counted, Owners
<1>3. IsFiniteSet(Counted) /\ Cardinality(Counted) \in Nat
  BY ONLY SubsetOfOwners DEF Counted
<1>4. mSize' = Cardinality(Counted')
  BY <1>1, <1>2, <1>3, FS_AddElement DEF BoundInv
<1>5. ASSUME NEW u \in Threads PROVE Bounded(u)'
  <2>1. mSize' \in Nat /\ mSize <= mSize'
    BY <1>1 DEF TypeOK
  <2> QED BY <1>1, <2>1, StaysBounded DEF BoundInv
<1> QED BY <1>1, <1>4, <1>5 DEF BoundInv

(* retire leaves the scan to the next one only if the list is still short.  *)
LEMMA RetireBound ==
  ASSUME TypeOK, BoundInv, NEW t \in Threads, NEW p \in Ptrs, Retire(t, p)
  PROVE  BoundInv'
<1>1. /\ local' = [local EXCEPT ![t] = @ \cup {p}] /\ pc[t] = "run"
      /\ UNCHANGED <<life, mSize, global, toread, arr>>
  BY DEF Retire, scanVars
<1>2. PICK size \in SizesSeen(t) :
        pc' = [pc EXCEPT ![t] = IF 2 * size < Cardinality(local'[t]) THEN "adopt" ELSE "run"]
  BY DEF Retire
<1>3. local'[t] = local[t] \cup {p} /\ IsFiniteSet(local'[t]) /\ Cardinality(local'[t]) \in Nat
  <2>1. local'[t] = local[t] \cup {p} /\ IsFiniteSet(local[t])
    BY <1>1 DEF TypeOK, BoundInv, Bounded
  <2> QED BY <2>1, FS_AddElement, FS_CardinalityType
<1>4. size \in Int /\ size <= mSize /\ mSize \in Nat
  <2>1. Cardinality({i \in Idx : life[<<t, i>>] \in {"counted", "linked", "closed"}}) \in Nat
    BY ONLY FiniteAssumption, FS_Subset, FS_CardinalityType
  <2> QED BY <1>2, <2>1 DEF SizesSeen, TypeOK
<1>5. pc'[t] \in {"adopt", "run"} /\ (pc'[t] = "run" => Cardinality(local'[t]) <= 2 * mSize)
  BY <1>2, <1>3, <1>4 DEF TypeOK
<1>6. Bounded(t)'
  BY <1>1, <1>3, <1>5 DEF BoundInv, Bounded
<1>7. \A u \in Threads \ {t} : /\ local'[u] = local[u] /\ arr'[u] = arr[u]
                               /\ toread'[u] = toread[u] /\ pc'[u] = pc[u]
  BY ONLY <1>1, <1>2 DEF TypeOK
<1>8. Counted' = Counted
  BY ONLY <1>1 DEF Counted
<1> QED BY <1>1, <1>6, <1>7, <1>8, ThreadBound DEF BoundInv

LEMMA ScanBound ==
  ASSUME TypeOK, BoundInv, NEW t \in Threads, Scan(t)
  PROVE  BoundInv'
<1>0. /\ IsFiniteSet(global) /\ IsFiniteSet(local[t]) /\ IsFiniteSet(arr[t])
      /\ mSize = Cardinality(Counted) /\ mSize \in Nat
      /\ toread[t] \in SUBSET Owners
      /\ Cardinality(arr[t]) \in Nat /\ Cardinality(local[t]) \in Nat
      /\ IsFiniteSet(toread[t]) /\ Cardinality(toread[t]) \in Nat
  BY SubsetOfOwners, FS_CardinalityType DEF BoundInv, Bounded, TypeOK
<1>a. life' = life /\ mSize' = mSize
  BY DEF Scan, Adopt, Snapshot, ReadSlot, Detach, SweepDone, Delete, Keep
<1>b. Counted' = Counted
  BY ONLY <1>a DEF Counted
<1>c. \A u \in Threads \ {t} : /\ local'[u] = local[u] /\ arr'[u] = arr[u]
                               /\ toread'[u] = toread[u] /\ pc'[u] = pc[u]
  BY DEF Scan, Adopt, Snapshot, ReadSlot, Detach, SweepDone, Delete, Keep, scanVars, TypeOK
<1> SUFFICES Bounded(t)' /\ IsFiniteSet(global)'
  BY <1>a, <1>b, <1>c, ThreadBound
<1>1. CASE Adopt(t)
  <2>1. /\ pc'[t] = "snapshot" /\ arr'[t] = arr[t]
        /\ local'[t] \in {local[t], local[t] \cup global} /\ global' \in {global, {}}
    BY <1>1 DEF Adopt, scanVars, TypeOK
  <2>2. IsFiniteSet(local[t] \cup global) /\ IsFiniteSet({})
    BY ONLY <1>0, FS_Union, FS_EmptySet
  <2> QED BY ONLY <1>0, <2>1, <2>2 DEF Bounded
<1>2. CASE Snapshot(t)
  <2>1. /\ pc'[t] = "read" /\ arr'[t] = {} /\ toread'[t] = Listed
        /\ local'[t] = local[t] /\ global' = global
    BY <1>2 DEF Snapshot, TypeOK
  <2>2. Listed \in SUBSET Counted /\ Counted \in SUBSET Owners
    BY DEF Listed, Counted
  <2>3. Cardinality(Listed) <= mSize /\ Cardinality(Listed) \in Nat
    BY ONLY <1>0, <2>2, SubsetOfOwners, FS_Subset
  <2> QED BY ONLY <1>0, <1>a, <2>1, <2>3, FS_EmptySet DEF Bounded
<1>3. CASE ReadSlot(t)
  <2>1. PICK o \in toread[t] : /\ toread'[t] = toread[t] \ {o}
                               /\ arr'[t] = arr[t] \cup ({slot[o]} \ {NoPtr})
    BY <1>3 DEF ReadSlot, TypeOK
  <2>2. pc[t] = "read" /\ pc'[t] = "read" /\ local'[t] = local[t] /\ global' = global
    BY ONLY <1>3 DEF ReadSlot
  <2>3. Cardinality(toread'[t]) = Cardinality(toread[t]) - 1
    <3>1. Cardinality(toread[t] \ {o}) = Cardinality(toread[t]) - 1
      BY ONLY <1>0, o \in toread[t], FS_RemoveElement
    <3> QED BY ONLY <2>1, <3>1
  <2>4. /\ IsFiniteSet(arr'[t]) /\ Cardinality(arr'[t]) \in Nat
        /\ Cardinality(arr'[t]) <= Cardinality(arr[t]) + 1
    <3>1. arr'[t] = arr[t] \/ arr'[t] = arr[t] \cup {slot[o]}
      BY ONLY <2>1
    <3>2. /\ IsFiniteSet(arr[t] \cup {slot[o]})
          /\ Cardinality(arr[t] \cup {slot[o]}) \in {Cardinality(arr[t]), Cardinality(arr[t]) + 1}
      BY ONLY <1>0, FS_AddElement
    <3> QED BY ONLY <1>0, <3>1, <3>2
  <2>5. Cardinality(arr[t]) + Cardinality(toread[t]) <= mSize
    BY <2>2 DEF BoundInv, Bounded
  <2> QED BY ONLY <1>0, <1>a, <2>2, <2>3, <2>4, <2>5 DEF Bounded
<1>4. CASE Detach(t)
  <2>1. /\ pc[t] = "read" /\ toread[t] = {} /\ pc'[t] = "sweep"
        /\ local'[t] = {} /\ arr'[t] = arr[t] /\ global' = global
    BY <1>4 DEF Detach, TypeOK
  <2>2. Cardinality(arr[t]) <= mSize
    <3>1. Cardinality(arr[t]) + Cardinality(toread[t]) <= mSize
      BY <2>1 DEF BoundInv, Bounded
    <3>2. Cardinality(toread[t]) = 0
      BY ONLY <2>1, FS_EmptySet
    <3> QED BY ONLY <1>0, <3>1, <3>2
  <2> QED BY ONLY <1>0, <1>a, <2>1, <2>2, FS_EmptySet DEF Bounded
<1>5. ASSUME NEW p \in Ptrs, Delete(t, p) \/ Keep(t, p)
      PROVE  Bounded(t)' /\ IsFiniteSet(global)'
  <2>1. /\ pc[t] = "sweep" /\ pc'[t] = "sweep" /\ arr'[t] = arr[t] /\ global' = global
        /\ local'[t] = local[t] \/ (p \in arr[t] /\ local'[t] = local[t] \cup {p})
    BY <1>5 DEF Delete, Keep, TypeOK
  <2>2. local[t] \subseteq arr[t] /\ Cardinality(arr[t]) <= mSize
    BY <2>1 DEF BoundInv, Bounded
  <2>3. IsFiniteSet(local'[t]) /\ local'[t] \subseteq arr'[t]
    <3>1. local'[t] \in SUBSET arr'[t]
      BY ONLY <2>1, <2>2
    <3> QED BY ONLY <1>0, <2>1, <3>1, FS_Subset
  <2> QED BY ONLY <1>0, <1>a, <2>1, <2>2, <2>3 DEF Bounded
<1>6. CASE SweepDone(t)
  <2>1. /\ pc[t] = "sweep" /\ pc'[t] = "run" /\ arr'[t] = {}
        /\ local'[t] = local[t] /\ global' = global
    BY <1>6 DEF SweepDone, TypeOK
  <2>2. local[t] \in SUBSET arr[t] /\ Cardinality(arr[t]) <= mSize
    BY <2>1 DEF BoundInv, Bounded
  <2>3. Cardinality(local[t]) <= Cardinality(arr[t])
    BY ONLY <1>0, <2>2, FS_Subset
  <2>4. Cardinality(local[t]) <= 2 * mSize
    BY ONLY <1>0, <2>2, <2>3
  <2> QED BY ONLY <1>0, <1>a, <2>1, <2>4, FS_EmptySet DEF Bounded
<1> QED BY <1>1, <1>2, <1>3, <1>4, <1>5, <1>6 DEF Scan

LEMMA NextBound == TypeOK /\ BoundInv /\ [Next]_vars => BoundInv'
<1> SUFFICES ASSUME TypeOK, BoundInv, [Next]_vars PROVE BoundInv'
  OBVIOUS
<1>1. ASSUME life' = life \/ \E t \in Threads, i \in Idx : LinkOwner(t, i) \/ CloseOwner(t, i),
             UNCHANGED <<mSize, global, local, arr, toread, pc>>
      PROVE  BoundInv'
  <2>1. Counted' = Counted
    BY <1>1 DEF Counted, LinkOwner, CloseOwner, TypeOK
  <2>2. mSize' \in Nat /\ mSize <= mSize'
    BY <1>1 DEF TypeOK
  <2>3. ASSUME NEW t \in Threads PROVE Bounded(t)'
    BY <1>1, <2>2, StaysBounded DEF BoundInv
  <2> QED BY <1>1, <2>1, <2>3 DEF BoundInv
<1>2. ASSUME NEW p \in Ptrs, Allocate(p) PROVE BoundInv'
  BY ONLY <1>1, <1>2 DEF Allocate, scanVars
<1>3. ASSUME NEW t \in Threads, NEW i \in Idx,
             LinkOwner(t, i) \/ CloseOwner(t, i) \/ \E p \in Ptrs \cup {NoPtr} : Store(t, i, p)
      PROVE  BoundInv'
  BY ONLY <1>1, <1>3 DEF LinkOwner, CloseOwner, Store, scanVars
<1>4. ASSUME NEW t \in Threads, Exit(t) \/ LeaveList(t) PROVE BoundInv'
  <2>1. /\ \A u \in Threads \ {t} : /\ local'[u] = local[u] /\ arr'[u] = arr[u]
                                    /\ toread'[u] = toread[u] /\ pc'[u] = pc[u]
        /\ pc'[t] = "exit" /\ local'[t] \in {local[t], {}} /\ arr'[t] = arr[t]
        /\ global' \in {global, global \cup local[t]} /\ life' = life /\ mSize' = mSize
    BY <1>4 DEF Exit, LeaveList, scanVars, TypeOK
  <2>2. Counted' = Counted
    BY ONLY <2>1 DEF Counted
  <2>3. /\ IsFiniteSet(local[t]) /\ IsFiniteSet(arr[t]) /\ IsFiniteSet({})
        /\ IsFiniteSet(global) /\ IsFiniteSet(global \cup local[t])
    BY FS_EmptySet, FS_Union DEF BoundInv, Bounded
  <2>4. Bounded(t)' /\ IsFiniteSet(global)'
    BY ONLY <2>1, <2>3 DEF Bounded
  <2> QED BY <2>1, <2>2, <2>4, ThreadBound
<1>5. CASE UNCHANGED vars
  BY ONLY <1>1, <1>5 DEF vars
<1> QED BY <1>2, <1>3, <1>4, <1>5, CountBound, RetireBound, ScanBound DEF Next

(* A thread outside retire keeps at most two retired objects for each       *)
(* hazard pointer ever counted, whatever it adopted from exited threads.    *)
THEOREM GarbageBoundCorrect == Spec => []GarbageBound
<1>1. IInv => TypeOK
  BY DEF IInv
<1>2. BoundInv => GarbageBound
  BY DEF BoundInv, Bounded, GarbageBound
<1> QED BY InitIInv, NextIInv, InitBound, NextBound, <1>1, <1>2, PTL DEF Spec
=============================================================================
