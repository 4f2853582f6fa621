------------------------- MODULE LockFreeStackProofs ------------------------
(***************************************************************************)
(* Machine-checked proofs, for any number of threads, of addresses and of  *)
(* values, that the stack dereferences no deleted node, that no            *)
(* compare-and-swap is deceived by a recycled address (ABA), and that it   *)
(* implements AbstractStack.                                               *)
(*                                                                         *)
(* IInv is inductive.  A node belongs to the list, or to the thread that   *)
(* pushes it or has popped it, or is nobody's; what a thread has loaded and *)
(* checked it holds, from before it is retired, so that the address is not *)
(* used again and its link not written before the thread has let it go.    *)
(***************************************************************************)
EXTENDS LockFreeStack, SequenceTheorems, TLAPS

(* A leaf may take a prover half a minute.                                 *)
USE SMTT(30), ZenonT(30)

(* The thread is the only one to know its node.                            *)
Owns(t) == pc[t] \in PushPcs \/ (pc[t] \in {"clear", "take"} /\ node[t] # NoPtr)

OwnInv(t) ==
  Owns(t) => /\ node[t] \in Ptrs /\ status[node[t]] = "live"
             /\ \A i \in 1 .. Len(nodes) : nodes[i] # node[t]
             /\ \A u \in Owners \ {t} : Owns(u) => node[u] # node[t]

(* What pop has loaded, announced and checked.                             *)
HoldInv(t) ==
  /\ pc[t] \in {"check", "next", "cas"} => slot[t] = node[t]
  /\ pc[t] \in {"next", "cas"} =>
       /\ node[t] \in Ptrs
       /\ \/ status[node[t]] = "live"
          \/ status[node[t]] = "retired" /\ t \in holders[node[t]]
       /\ \A u \in Owners : pc[u] \in PushPcs => node[u] # node[t]
  /\ pc[t] = "cas" => link[t] = mNext[node[t]]

ResultInv(t) ==
  /\ pc[t] \in PushPcs => result[t] = mData[node[t]]
  /\ pc[t] \in {"idle", "clear", "take"} \cup PopPcs => result[t] = NoValue

Distinct == \A i, j \in 1 .. Len(nodes) : nodes[i] = nodes[j] => i = j

IInv ==
  /\ TypeOK /\ ListInv /\ Distinct
  /\ \A t \in Owners : OwnInv(t) /\ HoldInv(t) /\ ResultInv(t)

-----------------------------------------------------------------------------
(* IInv is inductive.                                                      *)

LEMMA InitIInv == Init => IInv
BY ONLY NoPtrAssumption
DEF Init, ReclamationInit, IInv, TypeOK, ReclamationTypeOK, ListInv, Distinct, OwnInv, HoldInv,
    ResultInv, Owns, PushPcs, PopPcs

(* The steps of push but its compare-and-swap.                             *)
LEMMA PushSteps ==
  ASSUME IInv, NEW t \in Owners,
         (\E v \in Values, p \in Ptrs : CallPush(t, v, p)) \/ PushLoad(t)
  PROVE  IInv'
<1> USE NoPtrAssumption DEF IInv, Goto, nodeVars, rvars
<1>1. ASSUME NEW v \in Values, NEW p \in Ptrs, CallPush(t, v, p) PROVE IInv'
  <2>1. TypeOK'
    BY <1>1 DEF CallPush, Allocate, TypeOK, ReclamationTypeOK, PushPcs, PopPcs
  <2>2. ListInv' /\ Distinct'
    BY <1>1 DEF CallPush, Allocate, TypeOK, ReclamationTypeOK, ListInv, Distinct, OwnInv, Owns, PushPcs
  <2>3. ASSUME NEW w \in Owners PROVE OwnInv(w)'
    BY <1>1 DEF CallPush, Allocate, TypeOK, ReclamationTypeOK, ListInv, OwnInv, Owns, PushPcs, PopPcs
  <2>4. ASSUME NEW w \in Owners PROVE HoldInv(w)'
    BY <1>1 DEF CallPush, Allocate, TypeOK, ReclamationTypeOK, ListInv, OwnInv, HoldInv, Owns, PushPcs, PopPcs
  <2>5. ASSUME NEW w \in Owners PROVE ResultInv(w)'
    BY <1>1 DEF CallPush, Allocate, TypeOK, ReclamationTypeOK, OwnInv, ResultInv, Owns, PushPcs, PopPcs
  <2> QED BY ONLY <2>1, <2>2, <2>3, <2>4, <2>5
<1>2. CASE PushLoad(t)
  <2>1. TypeOK'
    BY <1>2 DEF PushLoad, TypeOK, ReclamationTypeOK, PushPcs, PopPcs
  <2>2. ListInv' /\ Distinct'
    BY <1>2 DEF PushLoad, TypeOK, ReclamationTypeOK, ListInv, Distinct, OwnInv, Owns, PushPcs
  <2>3. ASSUME NEW w \in Owners PROVE OwnInv(w)'
    BY <1>2 DEF PushLoad, TypeOK, ReclamationTypeOK, ListInv, OwnInv, Owns, PushPcs, PopPcs
  <2>4. ASSUME NEW w \in Owners PROVE HoldInv(w)'
    BY <1>2 DEF PushLoad, TypeOK, ReclamationTypeOK, ListInv, OwnInv, HoldInv, Owns, PushPcs, PopPcs
  <2>5. ASSUME NEW w \in Owners PROVE ResultInv(w)'
    BY <1>2 DEF PushLoad, TypeOK, ReclamationTypeOK, OwnInv, ResultInv, Owns, PushPcs, PopPcs
  <2> QED BY ONLY <2>1, <2>2, <2>3, <2>4, <2>5
<1> QED BY <1>1, <1>2

(* The steps of pop but its compare-and-swap.                              *)
LEMMA PopSteps ==
  ASSUME IInv, NEW t \in Owners,
         CallPop(t) \/ PopLoad(t) \/ PopStore(t) \/ PopCheck(t) \/ PopNext(t) \/ PopClear(t) \/ PopTake(t) \/ Return(t)
  PROVE  IInv'
<1> USE NoPtrAssumption DEF IInv, Goto, nodeVars, rvars
<1>1. CASE CallPop(t)
  <2>1. TypeOK'
    BY <1>1 DEF CallPop, TypeOK, ReclamationTypeOK, PushPcs, PopPcs
  <2>2. ListInv' /\ Distinct'
    BY <1>1 DEF CallPop, TypeOK, ReclamationTypeOK, ListInv, Distinct, OwnInv, Owns, PushPcs
  <2>3. ASSUME NEW w \in Owners PROVE OwnInv(w)'
    BY <1>1 DEF CallPop, TypeOK, ReclamationTypeOK, ListInv, OwnInv, Owns, PushPcs, PopPcs
  <2>4. ASSUME NEW w \in Owners PROVE HoldInv(w)'
    BY <1>1 DEF CallPop, TypeOK, ReclamationTypeOK, ListInv, OwnInv, HoldInv, Owns, PushPcs, PopPcs
  <2>5. ASSUME NEW w \in Owners PROVE ResultInv(w)'
    BY <1>1 DEF CallPop, TypeOK, ReclamationTypeOK, OwnInv, ResultInv, Owns, PushPcs, PopPcs
  <2> QED BY ONLY <2>1, <2>2, <2>3, <2>4, <2>5
<1>2. CASE PopLoad(t)
  <2>1. TypeOK'
    BY <1>2 DEF PopLoad, TypeOK, ReclamationTypeOK, PushPcs, PopPcs
  <2>2. ListInv' /\ Distinct'
    BY <1>2 DEF PopLoad, TypeOK, ReclamationTypeOK, ListInv, Distinct, OwnInv, Owns, PushPcs
  <2>3. ASSUME NEW w \in Owners PROVE OwnInv(w)'
    BY <1>2 DEF PopLoad, TypeOK, ReclamationTypeOK, ListInv, OwnInv, Owns, PushPcs, PopPcs
  <2>4. ASSUME NEW w \in Owners PROVE HoldInv(w)'
    BY <1>2 DEF PopLoad, TypeOK, ReclamationTypeOK, ListInv, OwnInv, HoldInv, Owns, PushPcs, PopPcs
  <2>5. ASSUME NEW w \in Owners PROVE ResultInv(w)'
    BY <1>2 DEF PopLoad, TypeOK, ReclamationTypeOK, OwnInv, ResultInv, Owns, PushPcs, PopPcs
  <2> QED BY ONLY <2>1, <2>2, <2>3, <2>4, <2>5
<1>3. CASE PopStore(t)
  <2>1. TypeOK'
    BY <1>3 DEF PopStore, Announce, TypeOK, ReclamationTypeOK, PushPcs, PopPcs
  <2>2. ListInv' /\ Distinct'
    BY <1>3 DEF PopStore, Announce, TypeOK, ReclamationTypeOK, ListInv, Distinct, OwnInv, Owns, PushPcs
  <2>3. ASSUME NEW w \in Owners PROVE OwnInv(w)'
    BY <1>3 DEF PopStore, Announce, TypeOK, ReclamationTypeOK, ListInv, OwnInv, Owns, PushPcs, PopPcs
  <2>4. ASSUME NEW w \in Owners PROVE HoldInv(w)'
    BY <1>3 DEF PopStore, Announce, TypeOK, ReclamationTypeOK, ListInv, OwnInv, HoldInv, Owns, PushPcs, PopPcs
  <2>5. ASSUME NEW w \in Owners PROVE ResultInv(w)'
    BY <1>3 DEF PopStore, Announce, TypeOK, ReclamationTypeOK, OwnInv, ResultInv, Owns, PushPcs, PopPcs
  <2> QED BY ONLY <2>1, <2>2, <2>3, <2>4, <2>5
<1>4. CASE PopCheck(t)
  <2>1. TypeOK'
    BY <1>4 DEF PopCheck, TypeOK, ReclamationTypeOK, PushPcs, PopPcs
  <2>2. ListInv' /\ Distinct'
    BY <1>4 DEF PopCheck, TypeOK, ReclamationTypeOK, ListInv, Distinct, OwnInv, Owns, PushPcs
  <2>3. ASSUME NEW w \in Owners PROVE OwnInv(w)'
    BY <1>4 DEF PopCheck, TypeOK, ReclamationTypeOK, ListInv, OwnInv, Owns, PushPcs, PopPcs
  <2>4. ASSUME NEW w \in Owners PROVE HoldInv(w)'
    BY <1>4 DEF PopCheck, TypeOK, ReclamationTypeOK, ListInv, OwnInv, HoldInv, Owns, PushPcs, PopPcs
  <2>5. ASSUME NEW w \in Owners PROVE ResultInv(w)'
    BY <1>4 DEF PopCheck, TypeOK, ReclamationTypeOK, OwnInv, ResultInv, Owns, PushPcs, PopPcs
  <2> QED BY ONLY <2>1, <2>2, <2>3, <2>4, <2>5
<1>5. CASE PopNext(t)
  <2>1. TypeOK'
    BY <1>5 DEF PopNext, TypeOK, ReclamationTypeOK, PushPcs, PopPcs
  <2>2. ListInv' /\ Distinct'
    BY <1>5 DEF PopNext, TypeOK, ReclamationTypeOK, ListInv, Distinct, OwnInv, Owns, PushPcs
  <2>3. ASSUME NEW w \in Owners PROVE OwnInv(w)'
    BY <1>5 DEF PopNext, TypeOK, ReclamationTypeOK, ListInv, OwnInv, Owns, PushPcs, PopPcs
  <2>4. ASSUME NEW w \in Owners PROVE HoldInv(w)'
    BY <1>5 DEF PopNext, TypeOK, ReclamationTypeOK, ListInv, OwnInv, HoldInv, Owns, PushPcs, PopPcs
  <2>5. ASSUME NEW w \in Owners PROVE ResultInv(w)'
    BY <1>5 DEF PopNext, TypeOK, ReclamationTypeOK, OwnInv, ResultInv, Owns, PushPcs, PopPcs
  <2> QED BY ONLY <2>1, <2>2, <2>3, <2>4, <2>5
<1>6. CASE PopClear(t)
  <2>1. TypeOK'
    BY <1>6 DEF PopClear, Announce, TypeOK, ReclamationTypeOK, PushPcs, PopPcs
  <2>2. ListInv' /\ Distinct'
    BY <1>6 DEF PopClear, Announce, TypeOK, ReclamationTypeOK, ListInv, Distinct, OwnInv, Owns, PushPcs
  <2>3. ASSUME NEW w \in Owners PROVE OwnInv(w)'
    BY <1>6 DEF PopClear, Announce, TypeOK, ReclamationTypeOK, ListInv, OwnInv, Owns, PushPcs, PopPcs
  <2>4. ASSUME NEW w \in Owners PROVE HoldInv(w)'
    BY <1>6 DEF PopClear, Announce, TypeOK, ReclamationTypeOK, ListInv, OwnInv, HoldInv, Owns, PushPcs, PopPcs
  <2>5. ASSUME NEW w \in Owners PROVE ResultInv(w)'
    BY <1>6 DEF PopClear, Announce, TypeOK, ReclamationTypeOK, OwnInv, ResultInv, Owns, PushPcs, PopPcs
  <2> QED BY ONLY <2>1, <2>2, <2>3, <2>4, <2>5
<1>7. CASE PopTake(t)
  <2>1. TypeOK'
    BY <1>7 DEF PopTake, Retire, TypeOK, OwnInv, Owns, ReclamationTypeOK, PushPcs, PopPcs
  <2>2. ListInv' /\ Distinct'
    BY <1>7 DEF PopTake, Retire, TypeOK, ReclamationTypeOK, ListInv, Distinct, OwnInv, Owns, PushPcs
  <2>3. ASSUME NEW w \in Owners PROVE OwnInv(w)'
    BY <1>7 DEF PopTake, Retire, TypeOK, ReclamationTypeOK, ListInv, OwnInv, Owns, PushPcs, PopPcs
  <2>4. ASSUME NEW w \in Owners PROVE HoldInv(w)'
    BY <1>7 DEF PopTake, Retire, TypeOK, ReclamationTypeOK, ListInv, OwnInv, HoldInv, Owns, PushPcs, PopPcs
  <2>5. ASSUME NEW w \in Owners PROVE ResultInv(w)'
    BY <1>7 DEF PopTake, Retire, TypeOK, ReclamationTypeOK, OwnInv, ResultInv, Owns, PushPcs, PopPcs
  <2> QED BY ONLY <2>1, <2>2, <2>3, <2>4, <2>5
<1>8. CASE Return(t)
  <2>1. TypeOK'
    BY <1>8 DEF Return, TypeOK, ReclamationTypeOK, PushPcs, PopPcs
  <2>2. ListInv' /\ Distinct'
    BY <1>8 DEF Return, TypeOK, ReclamationTypeOK, ListInv, Distinct, OwnInv, Owns, PushPcs
  <2>3. ASSUME NEW w \in Owners PROVE OwnInv(w)'
    BY <1>8 DEF Return, TypeOK, ReclamationTypeOK, ListInv, OwnInv, Owns, PushPcs, PopPcs
  <2>4. ASSUME NEW w \in Owners PROVE HoldInv(w)'
    BY <1>8 DEF Return, TypeOK, ReclamationTypeOK, ListInv, OwnInv, HoldInv, Owns, PushPcs, PopPcs
  <2>5. ASSUME NEW w \in Owners PROVE ResultInv(w)'
    BY <1>8 DEF Return, TypeOK, ReclamationTypeOK, OwnInv, ResultInv, Owns, PushPcs, PopPcs
  <2> QED BY ONLY <2>1, <2>2, <2>3, <2>4, <2>5
<1> QED BY <1>1, <1>2, <1>3, <1>4, <1>5, <1>6, <1>7, <1>8

(* The domain deletes a node.                                              *)
LEMMA ReclaimStep ==
  ASSUME IInv, NEW p \in Ptrs, Reclaim(p)
  PROVE  IInv'
<1> USE NoPtrAssumption DEF IInv, Reclaim, Free
<1>1. TypeOK'
  BY DEF TypeOK, ReclamationTypeOK
<1>2. ListInv' /\ Distinct'
  BY DEF TypeOK, ReclamationTypeOK, ListInv, Distinct
<1>3. ASSUME NEW w \in Owners PROVE OwnInv(w)' /\ HoldInv(w)' /\ ResultInv(w)'
  BY DEF TypeOK, ReclamationTypeOK, OwnInv, HoldInv, ResultInv, Owns
<1> QED BY ONLY <1>1, <1>2, <1>3

(* A node pushed before the others.                                        *)
LEMMA Prepend ==
  ASSUME NEW S, NEW q \in Seq(S), NEW x \in S
  PROVE  /\ <<x>> \o q \in Seq(S) /\ Len(<<x>> \o q) = Len(q) + 1
         /\ (<<x>> \o q)[1] = x /\ <<x>> \o q # <<>>
         /\ \A i \in 1 .. Len(q) : (<<x>> \o q)[i + 1] = q[i]
         /\ \A i \in 2 .. Len(q) + 1 : (<<x>> \o q)[i] = q[i - 1]
<1>1. <<x>> \in Seq(S) /\ Len(<<x>>) = 1 /\ <<x>>[1] = x
  OBVIOUS
<1>2. /\ <<x>> \o q \in Seq(S) /\ Len(<<x>> \o q) = 1 + Len(q)
      /\ \A i \in 1 .. 1 + Len(q) : (<<x>> \o q)[i] = IF i <= 1 THEN <<x>>[i] ELSE q[i - 1]
  BY ONLY <1>1, ConcatProperties
<1>3. Len(q) \in Nat
  OBVIOUS
<1> QED BY ONLY <1>1, <1>2, <1>3

(* A push takes effect: the node joins the list.                           *)
LEMMA PushCASStep ==
  ASSUME IInv, NEW t \in Owners, PushCAS(t)
  PROVE  IInv'
<1> USE NoPtrAssumption DEF IInv, Goto, rvars
<1>1. CASE mHead = mNext[node[t]]
  <2> DEFINE n == Len(nodes)
  <2>1. /\ n \in Nat /\ nodes \in Seq(Ptrs) /\ node[t] \in Ptrs /\ status[node[t]] = "live"
        /\ \A i \in 1 .. n : nodes[i] \in Ptrs /\ nodes[i] # node[t]
    BY DEF TypeOK, PushCAS, OwnInv, Owns, PushPcs
  <2>2. /\ nodes' \in Seq(Ptrs) /\ Len(nodes') = n + 1 /\ nodes' # <<>> /\ nodes'[1] = node[t]
        /\ \A i \in 1 .. n : nodes'[i + 1] = nodes[i]
        /\ \A i \in 2 .. n + 1 : nodes'[i] = nodes[i - 1]
    <3>1. nodes' = <<node[t]>> \o nodes
      BY <1>1 DEF PushCAS
    <3> QED BY ONLY <2>1, <3>1, Prepend
  <2>3. /\ pc' = [pc EXCEPT ![t] = "done"] /\ node' = [node EXCEPT ![t] = NoPtr]
        /\ result' = [result EXCEPT ![t] = NoValue] /\ mHead' = node[t]
        /\ UNCHANGED <<slot, status, holders, mNext, mData, link>>
        /\ pc[t] = "cas-push"
    BY <1>1 DEF PushCAS
  <2> HIDE DEF n
  <2>4. TypeOK'
    BY <2>1, <2>2, <2>3 DEF TypeOK, ReclamationTypeOK, PushPcs, PopPcs
  <2>5. ListInv'
    <3>1. nodes = <<>> <=> n = 0
      BY ONLY <2>1 DEF n
    <3>2. n # 0 => mHead = nodes[1]
      BY <3>1 DEF ListInv
    <3>3. ASSUME NEW i \in 1 .. n + 1
          PROVE  /\ status[nodes'[i]] = "live"
                 /\ mNext[nodes'[i]] = IF i = n + 1 THEN NoPtr ELSE nodes'[i + 1]
      <4>1. CASE i = 1
        BY <1>1, <2>1, <2>2, <3>1, <3>2, <4>1 DEF ListInv
      <4>2. CASE i # 1
        <5>1. i - 1 \in 1 .. n /\ i \in 2 .. n + 1 /\ (i = n + 1 <=> i - 1 = n)
          BY ONLY <2>1, <4>2
        <5>2. i # n + 1 => i \in 1 .. n /\ (i - 1) + 1 = i
          BY ONLY <2>1, <4>2
        <5> QED BY <2>2, <5>1, <5>2 DEF ListInv, n
      <4> QED BY ONLY <4>1, <4>2
    <3> QED BY ONLY <2>2, <2>3, <3>3 DEF ListInv
  <2>6. Distinct'
    <3> SUFFICES ASSUME NEW i \in 1 .. n + 1, NEW j \in 1 .. n + 1, nodes'[i] = nodes'[j]
                 PROVE  i = j
      BY <2>2 DEF Distinct
    <3>1. i # 1 => i - 1 \in 1 .. n /\ i \in 2 .. n + 1
      BY ONLY <2>1
    <3>2. j # 1 => j - 1 \in 1 .. n /\ j \in 2 .. n + 1
      BY ONLY <2>1
    <3>3. i = 1 => j = 1
      BY <2>1, <2>2, <3>2
    <3>4. j = 1 => i = 1
      BY <2>1, <2>2, <3>1
    <3>5. i # 1 /\ j # 1 => i - 1 = j - 1
      BY <2>2, <3>1, <3>2 DEF Distinct, n
    <3> QED BY ONLY <3>3, <3>4, <3>5
  <2>7. ASSUME NEW w \in Owners PROVE OwnInv(w)'
    <3> SUFFICES ASSUME Owns(w)' PROVE OwnInv(w)'
      BY DEF OwnInv
    <3>1. w # t /\ Owns(w) /\ node'[w] = node[w]
      BY <2>3 DEF Owns, TypeOK, PushPcs
    <3>2. node[w] # node[t]
      BY <2>3, <3>1 DEF OwnInv, Owns, PushPcs
    <3>3. \A i \in 1 .. n + 1 : nodes'[i] # node[w]
      <4> TAKE i \in 1 .. n + 1
      <4>1. i = 1 \/ (i - 1 \in 1 .. n /\ i \in 2 .. n + 1)
        BY ONLY <2>1
      <4> QED BY <2>2, <3>1, <3>2, <4>1 DEF OwnInv, n
    <3>4. \A u \in Owners \ {w} : Owns(u)' => node'[u] # node[w]
      <4> TAKE u \in Owners \ {w}
      <4>1. Owns(u)' => u # t /\ Owns(u) /\ node'[u] = node[u]
        BY <2>3 DEF Owns, TypeOK, PushPcs
      <4> QED BY <3>1, <4>1 DEF OwnInv
    <3> QED BY <2>2, <2>3, <3>1, <3>3, <3>4 DEF OwnInv
  <2>8. ASSUME NEW w \in Owners PROVE HoldInv(w)'
    BY <2>3 DEF TypeOK, HoldInv, PushPcs
  <2>9. ASSUME NEW w \in Owners PROVE ResultInv(w)'
    BY <2>3 DEF TypeOK, ResultInv, PushPcs, PopPcs
  <2> QED BY ONLY <2>4, <2>5, <2>6, <2>7, <2>8, <2>9
<1>2. CASE mHead # mNext[node[t]]
  <2>1. TypeOK'
    BY <1>2 DEF PushCAS, TypeOK, ReclamationTypeOK, PushPcs, PopPcs
  <2>2. ListInv' /\ Distinct'
    BY <1>2 DEF PushCAS, TypeOK, ReclamationTypeOK, ListInv, Distinct, OwnInv, Owns, PushPcs
  <2>3. ASSUME NEW w \in Owners PROVE OwnInv(w)' /\ HoldInv(w)' /\ ResultInv(w)'
    BY <1>2 DEF PushCAS, TypeOK, ReclamationTypeOK, OwnInv, HoldInv, ResultInv, Owns, PushPcs, PopPcs
  <2> QED BY ONLY <2>1, <2>2, <2>3
<1> QED BY ONLY <1>1, <1>2

(* A pop takes effect: the first node leaves the list and is the thread's.  *)
LEMMA PopCASStep ==
  ASSUME IInv, NEW t \in Owners, PopCAS(t)
  PROVE  IInv'
<1> USE NoPtrAssumption DEF IInv, Goto, rvars
<1>1. CASE mHead = node[t]
  <2> DEFINE n == Len(nodes) - 1
  <2>1. nodes # <<>> /\ mHead = nodes[1] /\ node[t] = nodes[1] /\ pc[t] = "cas"
    BY <1>1 DEF TypeOK, PopCAS, HoldInv, ListInv
  <2>2. /\ n \in Nat /\ Len(nodes) = n + 1 /\ nodes \in Seq(Ptrs)
        /\ \A i \in 1 .. n + 1 : nodes[i] \in Ptrs /\ status[nodes[i]] = "live"
        /\ \A i \in 2 .. n + 1 : nodes[i] # node[t]
    BY <2>1 DEF TypeOK, ListInv, Distinct
  <2>3. /\ nodes' \in Seq(Ptrs) /\ Len(nodes') = n
        /\ \A i \in 1 .. n : nodes'[i] = nodes[i + 1]
    <3>1. nodes' = Tail(nodes)
      BY <1>1 DEF PopCAS
    <3>2. Tail(nodes) \in Seq(Ptrs) /\ Len(Tail(nodes)) = Len(nodes) - 1
      BY ONLY <2>1, <2>2, HeadTailProperties
    <3>3. \A i \in 1 .. Len(Tail(nodes)) : Tail(nodes)[i] = nodes[i + 1]
      BY ONLY <2>1, <2>2, HeadTailProperties
    <3> QED BY ONLY <3>1, <3>2, <3>3
  <2>4. /\ pc' = [pc EXCEPT ![t] = "clear"] /\ mHead' = mNext[node[t]]
        /\ link' = [link EXCEPT ![t] = NoPtr]
        /\ UNCHANGED <<slot, status, holders, mNext, mData, node, result>>
    BY <1>1 DEF PopCAS, HoldInv
  <2> HIDE DEF n
  <2>5. TypeOK'
    BY <2>1, <2>2, <2>3, <2>4 DEF TypeOK, ReclamationTypeOK, PushPcs, PopPcs
  <2>6. ListInv'
    <3>1. nodes' = <<>> <=> n = 0
      BY ONLY <2>2, <2>3
    <3>2. mHead' = IF n = 0 THEN NoPtr ELSE nodes'[1]
      <4>1. mNext[nodes[1]] = IF n = 0 THEN NoPtr ELSE nodes[2]
        BY <2>2 DEF ListInv
      <4>2. n # 0 => nodes'[1] = nodes[2]
        BY ONLY <2>2, <2>3
      <4> QED BY ONLY <2>1, <2>4, <4>1, <4>2
    <3>3. ASSUME NEW i \in 1 .. n
          PROVE  /\ status[nodes'[i]] = "live"
                 /\ mNext[nodes'[i]] = IF i = n THEN NoPtr ELSE nodes'[i + 1]
      <4>1. i + 1 \in 1 .. n + 1 /\ (i + 1 = n + 1 <=> i = n) /\ (i # n => i + 1 \in 1 .. n)
        BY ONLY <2>2
      <4> QED BY <2>2, <2>3, <4>1 DEF ListInv
    <3> QED BY ONLY <2>3, <2>4, <3>1, <3>2, <3>3 DEF ListInv
  <2>7. Distinct'
    <3> SUFFICES ASSUME NEW i \in 1 .. n, NEW j \in 1 .. n, nodes'[i] = nodes'[j]
                 PROVE  i = j
      BY <2>3 DEF Distinct
    <3>1. i + 1 \in 1 .. n + 1 /\ j + 1 \in 1 .. n + 1
      BY ONLY <2>2
    <3> QED BY <2>2, <2>3, <3>1 DEF Distinct
  <2>8. ASSUME NEW w \in Owners PROVE OwnInv(w)'
    <3> SUFFICES ASSUME Owns(w)' PROVE OwnInv(w)'
      BY DEF OwnInv
    <3>1. \A u \in Owners : Owns(u)' => u = t \/ Owns(u)
      BY ONLY <2>4 DEF Owns, TypeOK, PushPcs
    <3>2. node[w] \in Ptrs /\ status[node[w]] = "live"
      BY <2>1, <2>2, <3>1 DEF OwnInv
    <3>3. \A i \in 1 .. n : nodes'[i] # node[w]
      <4> TAKE i \in 1 .. n
      <4>1. i + 1 \in 2 .. n + 1 /\ i + 1 \in 1 .. n + 1
        BY ONLY <2>2
      <4> QED BY <2>2, <2>3, <3>1, <4>1 DEF OwnInv
    <3>4. \A u \in Owners \ {w} : Owns(u)' => node[u] # node[w]
      <4> TAKE u \in Owners \ {w}
      <4>1. \A x \in Owners : Owns(x) => node[x] # node[t]
        BY <2>1, <2>2 DEF OwnInv
      <4> QED BY <3>1, <4>1 DEF OwnInv
    <3> QED BY ONLY <2>3, <2>4, <3>2, <3>3, <3>4 DEF OwnInv
  <2>9. ASSUME NEW w \in Owners PROVE HoldInv(w)' /\ ResultInv(w)'
    BY <2>1, <2>4 DEF TypeOK, HoldInv, ResultInv, PushPcs, PopPcs
  <2> QED BY ONLY <2>5, <2>6, <2>7, <2>8, <2>9
<1>2. CASE mHead # node[t]
  <2>1. TypeOK'
    BY <1>2 DEF PopCAS, TypeOK, ReclamationTypeOK, PushPcs, PopPcs
  <2>2. ListInv' /\ Distinct'
    BY <1>2 DEF PopCAS, TypeOK, ReclamationTypeOK, ListInv, Distinct
  <2>3. ASSUME NEW w \in Owners PROVE OwnInv(w)' /\ HoldInv(w)' /\ ResultInv(w)'
    BY <1>2 DEF PopCAS, TypeOK, ReclamationTypeOK, OwnInv, HoldInv, ResultInv, Owns, PushPcs, PopPcs
  <2> QED BY ONLY <2>1, <2>2, <2>3
<1> QED BY ONLY <1>1, <1>2

LEMMA NextIInv == IInv /\ [Next]_vars => IInv'
<1> SUFFICES ASSUME IInv, [Next]_vars PROVE IInv'
  OBVIOUS
<1>1. CASE Next
  BY <1>1, PushSteps, PopSteps, PushCASStep, PopCASStep, ReclaimStep DEF Next, Call, Step
<1>2. CASE UNCHANGED vars
  BY <1>2 DEF vars, rvars, IInv, TypeOK, ReclamationTypeOK, ListInv, Distinct, OwnInv, HoldInv,
     ResultInv, Owns
<1> QED BY <1>1, <1>2

LEMMA IInvSafe == IInv => TypeOK /\ ListInv /\ NoUseAfterFree /\ NoABA
<1>1. IInv => NoUseAfterFree
  BY DEF IInv, NoUseAfterFree, OwnInv, Owns, HoldInv, TypeOK
<1>2. IInv => TypeOK /\ ListInv /\ NoABA
  BY DEF IInv, NoABA, HoldInv
<1> QED BY ONLY <1>1, <1>2

(* No thread dereferences a deleted node, and none gives up a node before   *)
(* it has taken its value.                                                 *)
THEOREM NoUseAfterFreeCorrect == Spec => []NoUseAfterFree
BY InitIInv, NextIInv, IInvSafe, PTL DEF Spec

(* The list is never broken, and a compare-and-swap that succeeds is not    *)
(* deceived by a recycled address.                                         *)
THEOREM NoABACorrect == Spec => [](TypeOK /\ ListInv /\ NoABA)
BY InitIInv, NextIInv, IInvSafe, PTL DEF Spec

-----------------------------------------------------------------------------
(* The stack implements AbstractStack.                                     *)

Ops == [t \in Owners |-> Operation(t)]

(* One step of the abstract stack, in terms of Contents and Ops.           *)
AbstractStep(t, o, contents) ==
  Ops' = [Ops EXCEPT ![t] = o] /\ Contents' = contents

LEMMA AbstractNext ==
  ASSUME NEW t \in Owners, NEW v,
         \/ /\ Ops[t] = [name |-> "idle", val |-> NoValue]
            /\ \/ v \in Values /\ AbstractStep(t, [name |-> "push", val |-> v], Contents)
               \/ AbstractStep(t, [name |-> "pop", val |-> NoValue], Contents)
         \/ /\ Ops[t] = [name |-> "push", val |-> v]
            /\ AbstractStep(t, [name |-> "done", val |-> NoValue], <<v>> \o Contents)
         \/ /\ Ops[t].name = "pop" /\ Contents # <<>>
            /\ AbstractStep(t, [name |-> "done", val |-> Head(Contents)], Tail(Contents))
         \/ /\ Ops[t].name = "pop" /\ Contents = <<>>
            /\ AbstractStep(t, [name |-> "done", val |-> NoValue], Contents)
         \/ /\ Ops[t].name = "done"
            /\ AbstractStep(t, [name |-> "idle", val |-> NoValue], Contents)
  PROVE  Abstract!Next
<1> USE DEF AbstractStep, Ops, Abstract!Idle
<1>1. CASE /\ Ops[t] = [name |-> "idle", val |-> NoValue]
           /\ v \in Values /\ AbstractStep(t, [name |-> "push", val |-> v], Contents)
  BY ONLY <1>1 DEF Abstract!Next, Abstract!Call
<1>2. CASE /\ Ops[t] = [name |-> "idle", val |-> NoValue]
           /\ AbstractStep(t, [name |-> "pop", val |-> NoValue], Contents)
  BY ONLY <1>2 DEF Abstract!Next, Abstract!Call
<1>3. CASE /\ Ops[t] = [name |-> "push", val |-> v]
           /\ AbstractStep(t, [name |-> "done", val |-> NoValue], <<v>> \o Contents)
  <2>1. Ops[t].name = "push" /\ Ops[t].val = v
    BY ONLY <1>3
  <2> QED BY ONLY <1>3, <2>1 DEF Abstract!Next, Abstract!Push
<1>4. CASE /\ Ops[t].name = "pop" /\ Contents # <<>>
           /\ AbstractStep(t, [name |-> "done", val |-> Head(Contents)], Tail(Contents))
  BY ONLY <1>4 DEF Abstract!Next, Abstract!Pop
<1>5. CASE /\ Ops[t].name = "pop" /\ Contents = <<>>
           /\ AbstractStep(t, [name |-> "done", val |-> NoValue], Contents)
  BY ONLY <1>5 DEF Abstract!Next, Abstract!PopEmpty
<1>6. CASE /\ Ops[t].name = "done"
           /\ AbstractStep(t, [name |-> "idle", val |-> NoValue], Contents)
  BY ONLY <1>6 DEF Abstract!Next, Abstract!Return
<1> QED BY <1>1, <1>2, <1>3, <1>4, <1>5, <1>6

AbstractStutter == Ops' = Ops /\ Contents' = Contents

LEMMA ContentsSeq ==
  ASSUME TypeOK
  PROVE  /\ Contents \in Seq(Values \cup {NoValue}) /\ Len(Contents) = Len(nodes)
         /\ \A i \in 1 .. Len(nodes) : Contents[i] = mData[nodes[i]]
<1>1. \A i \in 1 .. Len(nodes) : mData[nodes[i]] \in Values \cup {NoValue}
  BY DEF TypeOK
<1>2. Len(nodes) \in Nat
  BY DEF TypeOK
<1> QED BY ONLY <1>1, <1>2 DEF Contents

(* A step of thread t on no node of another thread or of the list.         *)
LEMMA OpsStep ==
  ASSUME NEW t \in Owners,
         \A u \in Owners \ {t} :
           /\ pc'[u] = pc[u] /\ node'[u] = node[u] /\ result'[u] = result[u]
           /\ Owns(u) => mData'[node[u]] = mData[node[u]]
  PROVE  Ops' = [Ops EXCEPT ![t] = Operation(t)']
<1>1. \A u \in Owners \ {t} : Operation(u)' = Operation(u)
  BY DEF Operation, Owns
<1>2. Ops' = [u \in Owners |-> Operation(u)']
  BY DEF Ops
<1> HIDE DEF Operation
<1> QED BY ONLY <1>1, <1>2 DEF Ops

LEMMA PushMaps ==
  ASSUME IInv, IInv', NEW t \in Owners,
         (\E v \in Values, p \in Ptrs : CallPush(t, v, p)) \/ PushLoad(t) \/ PushCAS(t)
  PROVE  Abstract!Next \/ AbstractStutter
<1> USE NoPtrAssumption
<1>0. TypeOK /\ TypeOK'
  BY DEF IInv
<1>1. ASSUME NEW v \in Values, NEW p \in Ptrs, CallPush(t, v, p)
      PROVE  Abstract!Next
  <2>1. /\ Operation(t) = [name |-> "idle", val |-> NoValue]
        /\ Operation(t)' = [name |-> "push", val |-> v]
    BY ONLY <1>0, <1>1 DEF CallPush, Goto, Operation, TypeOK, PushPcs, PopPcs
  <2>2. Ops' = [Ops EXCEPT ![t] = Operation(t)']
    BY <1>0, <1>1, OpsStep DEF CallPush, Allocate, Goto, TypeOK, IInv, OwnInv
  <2>3. Contents' = Contents
    BY <1>0, <1>1 DEF CallPush, Allocate, Contents, IInv, ListInv, TypeOK
  <2>4. Ops[t] = [name |-> "idle", val |-> NoValue] /\ AbstractStep(t, [name |-> "push", val |-> v], Contents)
    BY ONLY <2>1, <2>2, <2>3 DEF AbstractStep, Ops
  <2> QED BY ONLY <2>4, AbstractNext
<1>2. CASE PushLoad(t)
  <2>1. Operation(t)' = Operation(t)
    BY ONLY <1>0, <1>2 DEF PushLoad, Goto, Operation, TypeOK, PushPcs, PopPcs
  <2>2. Ops' = [Ops EXCEPT ![t] = Operation(t)']
    BY ONLY <1>0, <1>2, OpsStep DEF PushLoad, Goto, TypeOK
  <2>3. Contents' = Contents
    BY ONLY <1>2 DEF PushLoad, Contents
  <2> QED BY ONLY <2>1, <2>2, <2>3 DEF AbstractStutter, Ops
<1>3. CASE PushCAS(t) /\ mHead = mNext[node[t]]
  <2> DEFINE v == result[t]
             n == Len(nodes)
  <2>1. /\ pc[t] = "cas-push" /\ pc' = [pc EXCEPT ![t] = "done"] /\ node' = [node EXCEPT ![t] = NoPtr]
        /\ result' = [result EXCEPT ![t] = NoValue]
        /\ nodes' = <<node[t]>> \o nodes /\ mData' = mData
        /\ node[t] \in Ptrs /\ nodes \in Seq(Ptrs) /\ n \in Nat
        /\ v = mData[node[t]]
    BY <1>0, <1>3 DEF PushCAS, Goto, TypeOK, IInv, OwnInv, Owns, ResultInv, PushPcs
  <2>2. /\ Operation(t) = [name |-> "push", val |-> v]
        /\ Operation(t)' = [name |-> "done", val |-> NoValue]
    BY ONLY <1>0, <2>1 DEF Operation, TypeOK, PushPcs, PopPcs
  <2>3. Ops' = [Ops EXCEPT ![t] = Operation(t)']
    BY ONLY <1>0, <2>1, OpsStep DEF TypeOK
  <2>4. Contents' = <<v>> \o Contents
    <3>1. (/\ Contents \in Seq(Values \cup {NoValue}) /\ Len(Contents) = Len(nodes)
           /\ \A i \in 1 .. Len(nodes) : Contents[i] = mData[nodes[i]])'
      BY <1>0, ContentsSeq, PTL
    <3>2. /\ nodes'[1] = node[t] /\ Len(nodes') = n + 1
          /\ \A i \in 2 .. n + 1 : nodes'[i] = nodes[i - 1]
      BY ONLY <2>1, Prepend
    <3>3. v \in Values \cup {NoValue}
      BY ONLY <1>0 DEF TypeOK
    <3> DEFINE c == <<v>> \o Contents
    <3>4. /\ c \in Seq(Values \cup {NoValue}) /\ Len(c) = n + 1 /\ c[1] = v
          /\ \A i \in 2 .. n + 1 : c[i] = Contents[i - 1]
      BY ONLY <1>0, <3>3, ContentsSeq, Prepend
    <3> HIDE DEF c
    <3>5. ASSUME NEW i \in 1 .. n + 1 PROVE Contents'[i] = c[i]
      <4>1. i = 1 \/ (i \in 2 .. n + 1 /\ i - 1 \in 1 .. n)
        BY ONLY <2>1
      <4>2. CASE i = 1
        BY ONLY <2>1, <3>1, <3>2, <3>4, <4>2
      <4>3. CASE i \in 2 .. n + 1 /\ i - 1 \in 1 .. n
        <5>1. Contents[i - 1] = mData[nodes[i - 1]]
          BY ONLY <1>0, <4>3, ContentsSeq
        <5>2. Contents'[i] = mData'[nodes'[i]]
          BY ONLY <3>1, <3>2
        <5> QED BY ONLY <2>1, <3>2, <3>4, <4>3, <5>1, <5>2
      <4> QED BY ONLY <4>1, <4>2, <4>3
    <3>6. Contents' = c
      BY ONLY <3>1, <3>2, <3>4, <3>5, SeqEqual
    <3> QED BY ONLY <3>6 DEF c
  <2>5. /\ Ops[t] = [name |-> "push", val |-> v]
        /\ AbstractStep(t, [name |-> "done", val |-> NoValue], <<v>> \o Contents)
    BY ONLY <2>2, <2>3, <2>4 DEF AbstractStep, Ops
  <2> QED BY ONLY <2>5, AbstractNext
<1>4. CASE PushCAS(t) /\ mHead # mNext[node[t]]
  BY ONLY <1>4 DEF PushCAS, AbstractStutter, Ops, Operation, Contents
<1> QED BY <1>1, <1>2, <1>3, <1>4

(* A pop takes effect with the compare-and-swap that succeeds, or with the  *)
(* second load of mHead if it finds no node.                               *)
LEMMA PopMaps ==
  ASSUME IInv, IInv', NEW t \in Owners,
         \/ CallPop(t) \/ PopLoad(t) \/ PopStore(t) \/ PopCheck(t) \/ PopNext(t)
         \/ PopCAS(t) \/ PopClear(t) \/ PopTake(t) \/ Return(t)
  PROVE  Abstract!Next \/ AbstractStutter
<1> USE NoPtrAssumption
<1> DEFINE idle == [name |-> "idle", val |-> NoValue]
           pop == [name |-> "pop", val |-> NoValue]
           done(v) == [name |-> "done", val |-> v]
<1>0. TypeOK /\ TypeOK'
  BY DEF IInv
<1>1. Ops' = [Ops EXCEPT ![t] = Operation(t)']
  <2>1. CASE PopTake(t)
    BY <1>0, <2>1, OpsStep DEF PopTake, Goto, TypeOK, IInv, OwnInv, Owns
  <2>2. CASE ~ PopTake(t)
    BY <1>0, <2>2, OpsStep
    DEF CallPop, PopLoad, PopStore, PopCheck, PopNext, PopCAS, PopClear, Return,
        Goto, TypeOK, nodeVars
  <2> QED BY ONLY <2>1, <2>2
<1>2. CASE CallPop(t)
  <2>1. Operation(t) = idle /\ Operation(t)' = pop
    BY ONLY <1>0, <1>2 DEF CallPop, Goto, Operation, TypeOK, PushPcs, PopPcs
  <2>2. Contents' = Contents
    BY ONLY <1>2 DEF CallPop, nodeVars, Contents
  <2>3. Ops[t] = idle /\ AbstractStep(t, pop, Contents)
    BY ONLY <1>1, <2>1, <2>2 DEF AbstractStep, Ops
  <2> QED BY ONLY <2>3, AbstractNext
<1>3. CASE PopLoad(t) \/ PopStore(t) \/ PopNext(t)
  <2>1. Operation(t)' = Operation(t)
    BY ONLY <1>0, <1>3 DEF PopLoad, PopStore, PopNext, Goto, Operation, TypeOK, PushPcs, PopPcs
  <2>2. Contents' = Contents
    BY ONLY <1>3 DEF PopLoad, PopStore, PopNext, nodeVars, Contents
  <2> QED BY ONLY <1>1, <2>1, <2>2 DEF AbstractStutter, Ops
<1>4. CASE PopCheck(t)
  <2>1. Operation(t) = pop /\ Contents' = Contents
    BY ONLY <1>0, <1>4 DEF PopCheck, Goto, Operation, TypeOK, PushPcs, PopPcs, nodeVars, Contents
  <2>2. CASE mHead = node[t] /\ node[t] = NoPtr
    <3>1. Operation(t)' = done(NoValue)
      BY <1>0, <1>4, <2>2
      DEF PopCheck, Goto, Operation, TypeOK, PushPcs, PopPcs, IInv, ResultInv
    <3>2. Contents = <<>>
      <4>1. Len(nodes) = 0
        BY <1>0, <2>2 DEF IInv, ListInv, TypeOK
      <4> QED BY ONLY <1>0, <4>1, ContentsSeq
    <3>3. Ops[t].name = "pop" /\ Contents = <<>> /\ AbstractStep(t, done(NoValue), Contents)
      BY ONLY <1>1, <2>1, <3>1, <3>2 DEF AbstractStep, Ops
    <3> QED BY ONLY <3>3, AbstractNext
  <2>3. CASE ~ (mHead = node[t] /\ node[t] = NoPtr)
    <3>1. Operation(t)' = pop
      BY ONLY <1>0, <1>4, <2>3 DEF PopCheck, Goto, Operation, TypeOK, PushPcs, PopPcs
    <3> QED BY ONLY <1>1, <2>1, <3>1 DEF AbstractStutter, Ops
  <2> QED BY ONLY <2>2, <2>3
<1>5. CASE PopCAS(t) /\ mHead = node[t]
  <2> DEFINE n == Len(nodes) - 1
  <2>1. /\ nodes # <<>> /\ node[t] = nodes[1] /\ pc[t] = "cas" /\ pc'[t] = "clear"
        /\ node[t] \in Ptrs /\ node'[t] = node[t] /\ nodes' = Tail(nodes) /\ mData' = mData
        /\ nodes \in Seq(Ptrs) /\ n \in Nat
    BY <1>0, <1>5 DEF PopCAS, Goto, TypeOK, IInv, HoldInv, ListInv
  <2>2. Operation(t) = pop /\ Operation(t)' = done(mData[nodes[1]])
    BY <1>0, <2>1 DEF Operation, PushPcs, PopPcs
  <2>3. /\ Contents \in Seq(Values \cup {NoValue}) /\ Len(Contents) = n + 1
        /\ Contents # <<>> /\ Head(Contents) = mData[nodes[1]]
    BY ONLY <1>0, <2>1, ContentsSeq
  <2>4. Contents' = Tail(Contents)
    <3>1. (/\ Contents \in Seq(Values \cup {NoValue}) /\ Len(Contents) = Len(nodes)
           /\ \A i \in 1 .. Len(nodes) : Contents[i] = mData[nodes[i]])'
      BY <1>0, ContentsSeq, PTL
    <3>2. Len(nodes') = n /\ \A i \in 1 .. n : nodes'[i] = nodes[i + 1]
      <4>1. Len(Tail(nodes)) = Len(nodes) - 1
        BY ONLY <2>1, HeadTailProperties
      <4>2. \A i \in 1 .. Len(Tail(nodes)) : Tail(nodes)[i] = nodes[i + 1]
        BY ONLY <2>1, HeadTailProperties
      <4> QED BY ONLY <2>1, <4>1, <4>2
    <3>3. /\ Tail(Contents) \in Seq(Values \cup {NoValue}) /\ Len(Tail(Contents)) = n
          /\ \A i \in 1 .. n : Tail(Contents)[i] = Contents[i + 1]
      <4>1. /\ Tail(Contents) \in Seq(Values \cup {NoValue})
            /\ Len(Tail(Contents)) = Len(Contents) - 1
        BY ONLY <2>3, HeadTailProperties
      <4>2. \A i \in 1 .. Len(Tail(Contents)) : Tail(Contents)[i] = Contents[i + 1]
        BY ONLY <2>3, HeadTailProperties
      <4>3. Len(Contents) - 1 = n
        BY ONLY <2>1, <2>3
      <4> QED BY ONLY <4>1, <4>2, <4>3
    <3> HIDE DEF n
    <3>4. ASSUME NEW i \in 1 .. n PROVE Contents'[i] = Tail(Contents)[i]
      <4>1. i + 1 \in 1 .. n + 1
        BY ONLY <2>1
      <4>2. Contents[i + 1] = mData[nodes[i + 1]]
        BY ONLY <1>0, <2>3, <4>1, ContentsSeq
      <4> QED BY ONLY <2>1, <3>1, <3>2, <3>3, <4>2
    <3> QED BY ONLY <3>1, <3>2, <3>3, <3>4, SeqEqual
  <2>5. Ops[t].name = "pop"
    BY ONLY <2>2 DEF Ops
  <2>6. AbstractStep(t, done(Head(Contents)), Tail(Contents))
    BY ONLY <1>1, <2>2, <2>3, <2>4 DEF AbstractStep
  <2> QED BY ONLY <2>3, <2>5, <2>6, AbstractNext
<1>6. CASE PopCAS(t) /\ mHead # node[t]
  <2>1. Operation(t)' = Operation(t)
    BY ONLY <1>0, <1>6 DEF PopCAS, Goto, Operation, TypeOK, PushPcs, PopPcs
  <2>2. Contents' = Contents
    BY ONLY <1>6 DEF PopCAS, Contents
  <2> QED BY ONLY <1>1, <2>1, <2>2 DEF AbstractStutter, Ops
<1>7. CASE PopClear(t)
  <2>1. Operation(t)' = Operation(t)
    BY ONLY <1>0, <1>7 DEF PopClear, Goto, Operation, TypeOK, PushPcs, PopPcs, nodeVars
  <2>2. Contents' = Contents
    BY ONLY <1>7 DEF PopClear, nodeVars, Contents
  <2> QED BY ONLY <1>1, <2>1, <2>2 DEF AbstractStutter, Ops
<1>8. CASE PopTake(t)
  <2>1. Operation(t)' = Operation(t)
    BY ONLY <1>0, <1>8 DEF PopTake, Goto, Operation, TypeOK, PushPcs, PopPcs
  <2>2. Contents' = Contents
    BY <1>0, <1>8 DEF PopTake, Contents, IInv, OwnInv, Owns, TypeOK
  <2> QED BY ONLY <1>1, <2>1, <2>2 DEF AbstractStutter, Ops
<1>9. CASE Return(t)
  <2>1. Operation(t).name = "done" /\ Operation(t)' = idle
    BY ONLY <1>0, <1>9 DEF Return, Goto, Operation, TypeOK, PushPcs, PopPcs
  <2>2. Contents' = Contents
    BY ONLY <1>9 DEF Return, nodeVars, Contents
  <2>3. Ops[t].name = "done" /\ AbstractStep(t, idle, Contents)
    BY ONLY <1>1, <2>1, <2>2 DEF AbstractStep, Ops
  <2> QED BY ONLY <2>3, AbstractNext
<1> QED BY <1>2, <1>3, <1>4, <1>5, <1>6, <1>7, <1>8, <1>9

LEMMA InitMaps == Init => Abstract!Init
<1> SUFFICES ASSUME Init PROVE Abstract!Init
  OBVIOUS
<1>1. Contents = <<>>
  BY DEF Init, Contents
<1>2. \A t \in Owners : Operation(t) = [name |-> "idle", val |-> NoValue]
  BY DEF Init, Operation, PushPcs, PopPcs
<1> QED BY ONLY <1>1, <1>2 DEF Abstract!Init, Abstract!Idle

LEMMA NextMaps ==
  ASSUME IInv, IInv', [Next]_vars
  PROVE  [Abstract!Next]_<<Contents, [t \in Owners |-> Operation(t)]>>
<1> SUFFICES Abstract!Next \/ AbstractStutter
  BY DEF AbstractStutter, Ops
<1>1. ASSUME NEW t \in Owners, Call(t) \/ Step(t)
      PROVE  Abstract!Next \/ AbstractStutter
  BY <1>1, PushMaps, PopMaps DEF Call, Step
<1>2. ASSUME NEW p \in Ptrs, Reclaim(p)
      PROVE  AbstractStutter
  BY ONLY <1>2 DEF Reclaim, AbstractStutter, Ops, Operation, Contents
<1>3. CASE UNCHANGED vars
  BY ONLY <1>3 DEF vars, AbstractStutter, Ops, Operation, Contents
<1> QED BY <1>1, <1>2, <1>3 DEF Next

(* The stack is linearizable, for any number of threads, addresses and      *)
(* values, although addresses are recycled while threads still know them.  *)
THEOREM LinearizableCorrect == Spec => Linearizable
BY InitIInv, NextIInv, InitMaps, NextMaps, PTL DEF Spec, Linearizable, Abstract!Spec

(* The stack keeps its part of the domain's contract: PopTake retires the    *)
(* node that its compare-and-swap took, whatever its state, and never meets  *)
(* one that another pop has retired, or that is deleted.                   *)
THEOREM StackObeysDomain == Spec => ReclamationSpec
<1>1. Init => ReclamationInit
  BY DEF Init
<1>2. IInv /\ [Next]_vars => [ReclamationNext]_rvars
  <2> SUFFICES ASSUME IInv, Next PROVE [ReclamationNext]_rvars
    BY DEF vars, rvars
  <2>1. \A t \in Owners : /\ node[t] \in Ptrs \cup {NoPtr}
                          /\ pc[t] = "take" => node[t] \in Ptrs /\ status[node[t]] = "live"
    BY DEF IInv, TypeOK, OwnInv, Owns, PushPcs
  <2>2. ASSUME NEW t \in Owners, Call(t) \/ Step(t) PROVE [ReclamationNext]_rvars
    BY ONLY <2>1, <2>2
    DEF Call, Step, CallPush, PushLoad, PushCAS, CallPop, PopLoad, PopStore, PopCheck, PopNext,
        PopCAS, PopClear, PopTake, Return, ReclamationNext, rvars
  <2>3. ASSUME NEW p \in Ptrs, Reclaim(p) PROVE [ReclamationNext]_rvars
    BY ONLY <2>3 DEF Reclaim, ReclamationNext
  <2> QED BY <2>2, <2>3 DEF Next
<1> QED BY InitIInv, NextIInv, <1>1, <1>2, PTL DEF Spec, ReclamationSpec
=============================================================================
