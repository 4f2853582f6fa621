----------------------- MODULE ReclamationClientsProofs ----------------------
(***************************************************************************)
(* The clients of the hazard pointer domain.  For any number of readers,   *)
(* shared pointers and addresses, an object that claimPointer has returned *)
(* is not freed.  What LockFreeStackProofs proves of the stack holds of    *)
(* the program that runs either client.  Together with the theorem         *)
(* Implementation of HazardPointerProofs this covers the clients and the   *)
(* domain they run on: whatever the domain frees, Reclamation allows it to *)
(* free.                                                                   *)
(***************************************************************************)
EXTENDS ReclamationClients, TLAPS

(* A leaf may take a prover half a minute.                                 *)
USE SMTT(30), ZenonT(30)

-----------------------------------------------------------------------------
(* claimPointer.                                                           *)

ClaimIInv == TypeOK /\ ClaimInv

LEMMA InitClaim == Init => ClaimIInv
BY ONLY NoPtrAssumption DEF Init, ClaimIInv, TypeOK, ClaimInv, ReclamationInit, ReclamationTypeOK

(* claimPointer and the release of what it returned.                       *)
LEMMA ReaderSteps ==
  ASSUME ClaimIInv, NEW t \in Owners,
         \/ \E c \in Cells : Begin(t, c)
         \/ Load(t) \/ StoreHazard(t) \/ Check(t) \/ Release(t)
  PROVE  ClaimIInv'
<1> USE NoPtrAssumption DEF ClaimIInv
<1>1. ASSUME NEW c \in Cells, Begin(t, c) PROVE ClaimIInv'
  BY <1>1 DEF Begin, TypeOK, ClaimInv, ReclamationTypeOK, rvars, writerVars
<1>2. CASE Load(t)
  BY <1>2 DEF Load, TypeOK, ClaimInv, ReclamationTypeOK, rvars, writerVars
<1>3. CASE StoreHazard(t)
  <2>1. TypeOK'
    BY <1>3 DEF StoreHazard, Announce, TypeOK, ReclamationTypeOK, writerVars
  <2>2. ClaimInv'
    BY <1>3 DEF StoreHazard, Announce, TypeOK, ClaimInv, ReclamationTypeOK, writerVars
  <2> QED BY ONLY <2>1, <2>2
<1>4. CASE Check(t)
  BY <1>4 DEF Check, TypeOK, ClaimInv, ReclamationTypeOK, rvars, writerVars
<1>5. CASE Release(t)
  <2>1. TypeOK'
    BY <1>5 DEF Release, Announce, TypeOK, ReclamationTypeOK, writerVars
  <2>2. ClaimInv'
    BY <1>5 DEF Release, Announce, TypeOK, ClaimInv, ReclamationTypeOK, writerVars
  <2> QED BY ONLY <2>1, <2>2
<1> QED BY <1>1, <1>2, <1>3, <1>4, <1>5

(* The writers and the domain.                                             *)
LEMMA WriterSteps ==
  ASSUME ClaimIInv, NEW p \in Ptrs,
         \/ New(p) \/ RetireOld(p) \/ Reclaim(p)
         \/ \E c \in Cells : Publish(c, p)
  PROVE  ClaimIInv'
<1> USE NoPtrAssumption DEF ClaimIInv
<1>1. CASE New(p)
  BY <1>1 DEF New, Allocate, TypeOK, ClaimInv, ReclamationTypeOK, readerVars
<1>2. CASE RetireOld(p)
  <2>1. TypeOK'
    BY <1>2 DEF RetireOld, Retire, TypeOK, ClaimInv, ReclamationTypeOK, readerVars
  <2>2. ClaimInv'
    BY <1>2 DEF RetireOld, Retire, TypeOK, ClaimInv, ReclamationTypeOK, readerVars
  <2> QED BY ONLY <2>1, <2>2
<1>3. CASE Reclaim(p)
  BY <1>3 DEF Reclaim, Free, TypeOK, ClaimInv, ReclamationTypeOK, readerVars, writerVars
<1>4. ASSUME NEW c \in Cells, Publish(c, p) PROVE ClaimIInv'
  <2>1. TypeOK'
    BY <1>4 DEF Publish, TypeOK, ReclamationTypeOK, rvars, readerVars
  <2>2. ClaimInv'
    BY <1>4 DEF Publish, TypeOK, ClaimInv, ReclamationTypeOK, rvars, readerVars
  <2> QED BY ONLY <2>1, <2>2
<1> QED BY <1>1, <1>2, <1>3, <1>4

LEMMA NextClaim == ClaimIInv /\ [Next]_vars => ClaimIInv'
<1> SUFFICES ASSUME ClaimIInv, [Next]_vars PROVE ClaimIInv'
  OBVIOUS
<1>1. CASE Next
  BY <1>1, ReaderSteps, WriterSteps DEF Next
<1>2. CASE UNCHANGED vars
  BY <1>2 DEF vars, ClaimIInv, TypeOK, ClaimInv, ReclamationTypeOK
<1> QED BY <1>1, <1>2

(* A claimed object is not freed before it is released.                    *)
THEOREM ClaimIsSafe == Spec => []NoUseAfterFree
<1>1. ClaimIInv => NoUseAfterFree
  BY DEF ClaimIInv, ClaimInv, NoUseAfterFree
<1> QED BY InitClaim, NextClaim, <1>1, PTL DEF Spec

(* A claimed object is live or kept by its reader, and what a shared pointer *)
(* refers to is live and in no other pointer.                              *)
THEOREM ClaimIsKept == Spec => []ClaimInv
<1>1. ClaimIInv => ClaimInv
  BY DEF ClaimIInv
<1> QED BY InitClaim, NextClaim, <1>1, PTL DEF Spec

(* The client keeps its part of the domain's contract: RetireOld may retire  *)
(* whatever a store has replaced, and never meets an object that is retired  *)
(* or deleted already.                                                     *)
THEOREM ClientObeysDomain == Spec => ReclamationSpec
<1>1. Init => ReclamationInit
  BY DEF Init
<1>2. ClaimIInv /\ [Next]_vars => [ReclamationNext]_rvars
  <2> SUFFICES ASSUME ClaimIInv, Next PROVE [ReclamationNext]_rvars
    BY DEF vars, rvars
  <2>1. /\ \A t \in Owners : loaded[t] \in Ptrs \cup {NoPtr}
        /\ \A p \in unlinked : p \in Ptrs => status[p] = "live"
    BY DEF ClaimIInv, TypeOK, ClaimInv
  <2> QED BY <2>1 DEF Next, Begin, Load, StoreHazard, Check, Release, New, Publish,
            RetireOld, Reclaim, ReclamationNext, rvars
<1> QED BY InitClaim, NextClaim, <1>1, <1>2, PTL DEF Spec, ReclamationSpec

-----------------------------------------------------------------------------
(* The program that runs claimPointer or the stack.                        *)

StackProofs == INSTANCE LockFreeStackProofs WITH pc <- stackPc

(* The two instances of the stack have the same definitions.               *)
LEMMA SameInit == Stack!Init => StackProofs!Init
BY DEF Stack!Init, Stack!ReclamationInit, StackProofs!Init, StackProofs!ReclamationInit

LEMMA SameNext ==
  (\E t \in Owners : Stack!Step(t) \/ Stack!Call(t)) \/ (\E p \in Ptrs : Stack!Reclaim(p))
    => StackProofs!Next
<1> USE DEF Stack!Goto, Stack!Allocate, Stack!Announce, Stack!Retire, Stack!Free, Stack!rvars,
      Stack!nodeVars, Stack!PushPcs, Stack!PopPcs,
      StackProofs!Goto, StackProofs!Allocate, StackProofs!Announce, StackProofs!Retire,
      StackProofs!Free, StackProofs!rvars, StackProofs!nodeVars, StackProofs!PushPcs,
      StackProofs!PopPcs
<1>1. ASSUME NEW t \in Owners, NEW v \in Values, NEW p \in Ptrs
      PROVE  Stack!CallPush(t, v, p) => StackProofs!CallPush(t, v, p)
  BY DEF Stack!CallPush, StackProofs!CallPush
<1>2. ASSUME NEW t \in Owners PROVE Stack!PushLoad(t) => StackProofs!PushLoad(t)
  BY DEF Stack!PushLoad, StackProofs!PushLoad
<1>3. ASSUME NEW t \in Owners PROVE Stack!PushCAS(t) => StackProofs!PushCAS(t)
  BY DEF Stack!PushCAS, StackProofs!PushCAS
<1>4. ASSUME NEW t \in Owners PROVE Stack!CallPop(t) => StackProofs!CallPop(t)
  BY DEF Stack!CallPop, StackProofs!CallPop
<1>5. ASSUME NEW t \in Owners PROVE Stack!PopLoad(t) => StackProofs!PopLoad(t)
  BY DEF Stack!PopLoad, StackProofs!PopLoad
<1>6. ASSUME NEW t \in Owners PROVE Stack!PopStore(t) => StackProofs!PopStore(t)
  BY DEF Stack!PopStore, StackProofs!PopStore
<1>7. ASSUME NEW t \in Owners PROVE Stack!PopCheck(t) => StackProofs!PopCheck(t)
  BY DEF Stack!PopCheck, StackProofs!PopCheck
<1>8. ASSUME NEW t \in Owners PROVE Stack!PopNext(t) => StackProofs!PopNext(t)
  BY DEF Stack!PopNext, StackProofs!PopNext
<1>9. ASSUME NEW t \in Owners PROVE Stack!PopCAS(t) => StackProofs!PopCAS(t)
  BY DEF Stack!PopCAS, StackProofs!PopCAS
<1>10. ASSUME NEW t \in Owners PROVE Stack!PopClear(t) => StackProofs!PopClear(t)
  BY DEF Stack!PopClear, StackProofs!PopClear
<1>11. ASSUME NEW t \in Owners PROVE Stack!PopTake(t) => StackProofs!PopTake(t)
  BY DEF Stack!PopTake, StackProofs!PopTake
<1>12. ASSUME NEW t \in Owners PROVE Stack!Return(t) => StackProofs!Return(t)
  BY DEF Stack!Return, StackProofs!Return
<1>13. ASSUME NEW p \in Ptrs PROVE Stack!Reclaim(p) => StackProofs!Reclaim(p)
  BY DEF Stack!Reclaim, StackProofs!Reclaim
<1> QED
  BY ONLY <1>1, <1>2, <1>3, <1>4, <1>5, <1>6, <1>7, <1>8, <1>9, <1>10, <1>11, <1>12, <1>13
  DEF Stack!Step, Stack!Call, StackProofs!Next, StackProofs!Step, StackProofs!Call

(* The stack is in a state of its own proofs; while the program runs        *)
(* claimPointer it is empty and nobody uses it.                            *)
StackIdle ==
  /\ mHead = NoPtr /\ nodes = <<>>
  /\ mNext = [p \in Ptrs |-> NoPtr] /\ mData = [p \in Ptrs |-> NoValue]
  /\ stackPc = [t \in Owners |-> "idle"]
  /\ node = [t \in Owners |-> NoPtr] /\ link = [t \in Owners |-> NoPtr]
  /\ result = [t \in Owners |-> NoValue]

ClientInv ==
  \/ client = "claim" /\ ClaimIInv /\ StackIdle
  \/ client = "stack" /\ StackProofs!IInv

LEMMA InitClient == ClientInit => ClientInv
<1> SUFFICES ASSUME ClientInit PROVE ClientInv
  OBVIOUS
<1>1. CASE client = "claim"
  BY <1>1, InitClaim DEF ClientInit, ClientInv, StackIdle, Stack!Init
<1>2. CASE client = "stack"
  <2>1. StackProofs!Init
    BY SameInit DEF ClientInit
  <2> QED BY ONLY <1>2, <2>1, StackProofs!InitIInv, NoPtrAssumption DEF ClientInv
<1> QED BY <1>1, <1>2 DEF ClientInit

LEMMA NextClient == ClientInv /\ [ClientNext]_clientVars => ClientInv'
<1> SUFFICES ASSUME ClientInv, [ClientNext]_clientVars PROVE ClientInv'
  OBVIOUS
<1>1. CASE ClaimNext \/ (client = "claim" /\ UNCHANGED clientVars)
  <2>1. client = "claim" /\ client' = client /\ [Next]_vars /\ UNCHANGED stackVars
    BY ONLY <1>1 DEF ClaimNext, clientVars
  <2> QED BY <2>1, NextClaim DEF ClientInv, StackIdle, stackVars
<1>2. CASE StackStep \/ StackNext \/ (client = "stack" /\ UNCHANGED clientVars)
  <2>1. client = "stack" /\ client' = client /\ [StackProofs!Next]_(StackProofs!vars)
    BY ONLY <1>2, SameNext
    DEF StackStep, StackNext, clientVars, vars, stackVars, StackProofs!vars, StackProofs!rvars
  <2> QED BY <2>1, StackProofs!NextIInv, NoPtrAssumption DEF ClientInv
<1> QED BY <1>1, <1>2 DEF ClientInv, ClientNext

(* The nodes of the stack are never used after they are freed, a             *)
(* compare-and-swap never meets a recycled address unnoticed, and mHead and *)
(* the links form the list of the nodes pushed and not yet popped.         *)
THEOREM NodesValidCorrect == ClientSpec => []NodesValid
<1>1. ClientInv => NodesValid
  <2> SUFFICES ASSUME ClientInv PROVE NodesValid
    OBVIOUS
  <2>1. CASE client = "claim" /\ ClaimIInv /\ StackIdle
    <3>1. ReclamationTypeOK
      BY ONLY <2>1 DEF ClaimIInv, TypeOK
    <3>2. Stack!TypeOK
      BY ONLY <2>1, <3>1 DEF StackIdle, Stack!TypeOK, Stack!ReclamationTypeOK, ReclamationTypeOK,
        Stack!PushPcs, Stack!PopPcs
    <3>3. Stack!ListInv /\ Stack!NoUseAfterFree /\ Stack!NoABA
      BY ONLY <2>1 DEF StackIdle, Stack!ListInv, Stack!NoUseAfterFree, Stack!NoABA, Stack!PushPcs
    <3> QED BY ONLY <3>2, <3>3 DEF NodesValid
  <2>2. CASE client = "stack" /\ StackProofs!IInv
    <3>1. StackProofs!TypeOK /\ StackProofs!ListInv /\ StackProofs!NoUseAfterFree
      BY ONLY <2>2, StackProofs!IInvSafe, NoPtrAssumption
    <3>2. StackProofs!NoABA
      BY ONLY <2>2, StackProofs!IInvSafe, NoPtrAssumption
    <3>3. Stack!TypeOK
      BY ONLY <3>1 DEF StackProofs!TypeOK, StackProofs!ReclamationTypeOK, StackProofs!PushPcs,
        StackProofs!PopPcs, Stack!TypeOK, Stack!ReclamationTypeOK, Stack!PushPcs, Stack!PopPcs
    <3>4. Stack!ListInv /\ Stack!NoABA
      BY ONLY <3>1, <3>2 DEF StackProofs!ListInv, StackProofs!NoABA, Stack!ListInv, Stack!NoABA
    <3>5. Stack!NoUseAfterFree
      BY ONLY <3>1 DEF StackProofs!NoUseAfterFree, StackProofs!PushPcs, Stack!NoUseAfterFree, Stack!PushPcs
    <3> QED BY ONLY <3>3, <3>4, <3>5 DEF NodesValid
  <2> QED BY <2>1, <2>2 DEF ClientInv
<1> QED BY InitClient, NextClient, <1>1, PTL DEF ClientSpec

(* The stack of the program is linearizable: no value is lost, duplicated or *)
(* popped out of order, whatever addresses the domain recycles.            *)
THEOREM LinearizableCorrect == ClientSpec => Linearizable
<1> DEFINE contents == Stack!Contents
           ops == [t \in Owners |-> Stack!Operation(t)]
<1>0. /\ contents = StackProofs!Contents
      /\ ops = [t \in Owners |-> StackProofs!Operation(t)]
      /\ contents' = StackProofs!Contents'
      /\ ops' = [t \in Owners |-> StackProofs!Operation(t)]'
  BY DEF Stack!Contents, StackProofs!Contents, Stack!Operation, StackProofs!Operation,
    Stack!PushPcs, StackProofs!PushPcs, Stack!PopPcs, StackProofs!PopPcs
<1>1. ClientInit => Stack!Abstract!Init
  <2>1. ClientInit => StackProofs!Abstract!Init
    BY ONLY SameInit, StackProofs!InitMaps, NoPtrAssumption DEF ClientInit
  <2> QED BY ONLY <2>1, <1>0 DEF StackProofs!Abstract!Init, Stack!Abstract!Init,
    StackProofs!Abstract!Idle, Stack!Abstract!Idle
<1>2. ClientInv /\ ClientInv' /\ [ClientNext]_clientVars
        => [Stack!Abstract!Next]_<<contents, ops>>
  <2> SUFFICES ASSUME ClientInv, ClientInv', [ClientNext]_clientVars
               PROVE  [Stack!Abstract!Next]_<<contents, ops>>
    OBVIOUS
  <2>1. CASE UNCHANGED stackVars
    <3>1. UNCHANGED <<contents, ops>>
      BY ONLY <2>1 DEF stackVars, Stack!Contents, Stack!Operation
    <3> QED BY ONLY <3>1
  <2>2. CASE StackStep \/ StackNext
    <3>1. client = "stack" /\ client' = "stack" /\ [StackProofs!Next]_(StackProofs!vars)
      BY ONLY <2>2, SameNext DEF StackStep, StackNext
    <3>2. StackProofs!IInv /\ StackProofs!IInv'
      BY <3>1 DEF ClientInv
    <3>3. [StackProofs!Abstract!Next]_<<StackProofs!Contents,
                                        [t \in Owners |-> StackProofs!Operation(t)]>>
      BY ONLY <3>1, <3>2, StackProofs!NextMaps, NoPtrAssumption
    <3>4. StackProofs!Abstract!Next => Stack!Abstract!Next
      <4> DEFINE stack == StackProofs!Contents
                 op == [t \in Owners |-> StackProofs!Operation(t)]
      <4>1. /\ Stack!Contents = stack /\ Stack!Contents' = stack'
            /\ [t \in Owners |-> Stack!Operation(t)] = op
            /\ [t \in Owners |-> Stack!Operation(t)]' = op'
        BY ONLY <1>0
      <4> HIDE DEF stack, op, contents, ops
      <4>2. SUFFICES ASSUME NEW t \in Owners,
                            \/ StackProofs!Abstract!Call(t) \/ StackProofs!Abstract!Push(t)
                            \/ StackProofs!Abstract!Pop(t) \/ StackProofs!Abstract!PopEmpty(t)
                            \/ StackProofs!Abstract!Return(t)
                     PROVE  \/ Stack!Abstract!Call(t) \/ Stack!Abstract!Push(t)
                            \/ Stack!Abstract!Pop(t) \/ Stack!Abstract!PopEmpty(t)
                            \/ Stack!Abstract!Return(t)
        BY DEF StackProofs!Abstract!Next, Stack!Abstract!Next
      <4>3. CASE StackProofs!Abstract!Call(t)
        BY ONLY <4>3, <4>1 DEF stack, op, StackProofs!Abstract!Call, Stack!Abstract!Call,
          StackProofs!Abstract!Idle, Stack!Abstract!Idle
      <4>4. CASE StackProofs!Abstract!Push(t)
        BY ONLY <4>4, <4>1 DEF stack, op, StackProofs!Abstract!Push, Stack!Abstract!Push
      <4>5. CASE StackProofs!Abstract!Pop(t)
        BY ONLY <4>5, <4>1 DEF stack, op, StackProofs!Abstract!Pop, Stack!Abstract!Pop
      <4>6. CASE StackProofs!Abstract!PopEmpty(t)
        BY ONLY <4>6, <4>1 DEF stack, op, StackProofs!Abstract!PopEmpty, Stack!Abstract!PopEmpty
      <4>7. CASE StackProofs!Abstract!Return(t)
        BY ONLY <4>7, <4>1 DEF stack, op, StackProofs!Abstract!Return, Stack!Abstract!Return,
          StackProofs!Abstract!Idle, Stack!Abstract!Idle
      <4> QED BY ONLY <4>2, <4>3, <4>4, <4>5, <4>6, <4>7
    <3> QED BY ONLY <1>0, <3>3, <3>4
  <2> QED BY <2>1, <2>2 DEF ClientNext, ClaimNext, clientVars
<1> QED BY InitClient, NextClient, <1>1, <1>2, PTL DEF ClientSpec, Linearizable,
  Stack!Linearizable, Stack!Abstract!Spec
=============================================================================
