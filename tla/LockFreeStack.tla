--------------------------- MODULE LockFreeStack ---------------------------
(***************************************************************************)
(* LockFreeStack<T>: Treiber's stack, its nodes reclaimed through hazard   *)
(* pointers.  One action per access to mHead, to a node another thread may *)
(* reach, or to the domain, which is represented by its specification      *)
(* Reclamation (HazardPointer implements it): a popped node may be deleted,*)
(* and its address be handed out again by new Node, as soon as no thread   *)
(* holds it.  A spurious failure of compare_exchange_weak reloads the      *)
(* value it expected, so it is a stuttering step.                          *)
(*                                                                         *)
(* nodes is a history variable: the nodes on the stack as the successful   *)
(* compare-and-swaps have put and taken them.  No step looks at it.        *)
(***************************************************************************)
EXTENDS Reclamation, Naturals, Sequences

CONSTANTS Values, NoValue

VARIABLES
  mHead,     \* the atomic pointer to the top node
  mNext,     \* mNext[p]: the link of the node at address p
  mData,     \* mData[p]: its value
  pc,        \* pc[t]: where thread t is
  node,      \* node[t]: the node t pushes, then the local oldHead of its pop
  link,      \* link[t]: oldHead->mNext, read before the compare-and-swap
  result,    \* result[t]: the value the operation of t has pushed or popped
  nodes      \* history: the nodes on the stack, the top first

vars == <<rvars, mHead, mNext, mData, pc, node, link, result, nodes>>
nodeVars == <<mHead, mNext, mData, nodes>>

PushPcs == {"push", "cas-push"}
PopPcs == {"load", "store", "check", "next", "cas"}

TypeOK ==
  /\ ReclamationTypeOK
  /\ mHead \in Ptrs \cup {NoPtr}
  /\ mNext \in [Ptrs -> Ptrs \cup {NoPtr}]
  /\ mData \in [Ptrs -> Values \cup {NoValue}]
  /\ pc \in [Owners -> {"idle", "clear", "take", "done"} \cup PushPcs \cup PopPcs]
  /\ node \in [Owners -> Ptrs \cup {NoPtr}]
  /\ link \in [Owners -> Ptrs \cup {NoPtr}]
  /\ result \in [Owners -> Values \cup {NoValue}]
  /\ nodes \in Seq(Ptrs)
  /\ \A t \in Owners :
       pc[t] \in PushPcs \cup {"next", "cas", "take"} => node[t] # NoPtr

Init ==
  /\ ReclamationInit
  /\ mHead = NoPtr
  /\ mNext = [p \in Ptrs |-> NoPtr]
  /\ mData = [p \in Ptrs |-> NoValue]
  /\ pc = [t \in Owners |-> "idle"]
  /\ node = [t \in Owners |-> NoPtr]
  /\ link = [t \in Owners |-> NoPtr]
  /\ result = [t \in Owners |-> NoValue]
  /\ nodes = <<>>

Goto(t, label) == pc' = [pc EXCEPT ![t] = label]

-----------------------------------------------------------------------------
(* push(val): new Node(val)                                                *)
CallPush(t, v, p) ==
  /\ pc[t] = "idle"
  /\ Allocate(p)
  /\ mData' = [mData EXCEPT ![p] = v]
  /\ mNext' = [mNext EXCEPT ![p] = NoPtr]
  /\ node' = [node EXCEPT ![t] = p]
  /\ result' = [result EXCEPT ![t] = v]
  /\ Goto(t, "push")
  /\ UNCHANGED <<mHead, link, nodes>>

(* node->mNext = mHead.load()                                              *)
PushLoad(t) ==
  /\ pc[t] = "push"
  /\ mNext' = [mNext EXCEPT ![node[t]] = mHead]
  /\ Goto(t, "cas-push")
  /\ UNCHANGED <<rvars, mHead, mData, node, link, result, nodes>>

(* Mutant: a failed compare-and-swap does not refresh node->mNext.          *)
PushCASStale(t) ==
  /\ pc[t] = "cas-push"
  /\ mHead' = node[t]
  /\ nodes' = <<node[t]>> \o nodes
  /\ node' = [node EXCEPT ![t] = NoPtr]
  /\ result' = [result EXCEPT ![t] = NoValue]
  /\ Goto(t, "done")
  /\ UNCHANGED <<rvars, mNext, mData, link>>

PushCAS(t) ==
  /\ pc[t] = "cas-push"
  /\ IF mHead = mNext[node[t]]
       THEN /\ mHead' = node[t]
            /\ nodes' = <<node[t]>> \o nodes
            /\ node' = [node EXCEPT ![t] = NoPtr]
            /\ result' = [result EXCEPT ![t] = NoValue]
            /\ Goto(t, "done")
            /\ UNCHANGED mNext
       ELSE /\ mNext' = [mNext EXCEPT ![node[t]] = mHead]
            /\ UNCHANGED <<mHead, nodes, node, result, pc>>
  /\ UNCHANGED <<rvars, mData, link>>

CallPop(t) ==
  /\ pc[t] = "idle"
  /\ Goto(t, "load")
  /\ UNCHANGED <<rvars, nodeVars, node, link, result>>

(* oldHead = mHead.load()                                                  *)
PopLoad(t) ==
  /\ pc[t] = "load"
  /\ node' = [node EXCEPT ![t] = mHead]
  /\ Goto(t, "store")
  /\ UNCHANGED <<rvars, nodeVars, link, result>>

PopStore(t) ==
  /\ pc[t] = "store"
  /\ Announce(t, node[t])
  /\ Goto(t, "check")
  /\ UNCHANGED <<nodeVars, node, link, result>>

(* Mutant: the head is not loaded again after the hazard pointer is set.   *)
PopNoCheck(t) ==
  /\ pc[t] = "check"
  /\ Goto(t, IF node[t] = NoPtr THEN "clear" ELSE "next")
  /\ UNCHANGED <<rvars, nodeVars, node, link, result>>

(* temp = mHead.load() and the condition of the inner loop                 *)
PopCheck(t) ==
  /\ pc[t] = "check"
  /\ Goto(t, IF mHead # node[t] THEN "load"
             ELSE IF node[t] = NoPtr THEN "clear" ELSE "next")
  /\ UNCHANGED <<rvars, nodeVars, node, link, result>>

(* Mutant: the hazard pointer is cleared before the compare-and-swap.       *)
PopNextClear(t) ==
  /\ pc[t] = "next"
  /\ link' = [link EXCEPT ![t] = mNext[node[t]]]
  /\ Announce(t, NoPtr)
  /\ Goto(t, "cas")
  /\ UNCHANGED <<nodeVars, node, result>>

(* oldHead->mNext, an argument of the compare-and-swap                     *)
PopNext(t) ==
  /\ pc[t] = "next"
  /\ link' = [link EXCEPT ![t] = mNext[node[t]]]
  /\ Goto(t, "cas")
  /\ UNCHANGED <<rvars, nodeVars, node, result>>

(* Mutant: a failed compare-and-swap is repeated with the node it knows.    *)
PopCASAgain(t) ==
  /\ pc[t] = "cas"
  /\ IF mHead = node[t]
       THEN /\ mHead' = link[t]
            /\ nodes' = Tail(nodes)
            /\ link' = [link EXCEPT ![t] = NoPtr]
            /\ Goto(t, "clear")
       ELSE UNCHANGED <<mHead, link, nodes>> /\ Goto(t, "next")
  /\ UNCHANGED <<rvars, mNext, mData, node, result>>

PopCAS(t) ==
  /\ pc[t] = "cas"
  /\ link' = [link EXCEPT ![t] = NoPtr]
  /\ IF mHead = node[t]
       THEN mHead' = link[t] /\ nodes' = Tail(nodes) /\ Goto(t, "clear")
       ELSE UNCHANGED <<mHead, nodes>> /\ Goto(t, "load")
  /\ UNCHANGED <<rvars, mNext, mData, node, result>>

(* hazardPointer.store(nullptr)                                            *)
PopClear(t) ==
  /\ pc[t] = "clear"
  /\ Announce(t, NoPtr)
  /\ Goto(t, IF node[t] = NoPtr THEN "done" ELSE "take")
  /\ UNCHANGED <<nodeVars, node, link, result>>

(* swap(ans, oldHead->mData) and retire(oldHead)                           *)
PopTake(t) ==
  /\ pc[t] = "take"
  /\ result' = [result EXCEPT ![t] = mData[node[t]]]
  /\ mData' = [mData EXCEPT ![node[t]] = NoValue]
  /\ Retire(node[t])
  /\ node' = [node EXCEPT ![t] = NoPtr]
  /\ Goto(t, "done")
  /\ UNCHANGED <<mHead, mNext, link, nodes>>

Return(t) ==
  /\ pc[t] = "done"
  /\ result' = [result EXCEPT ![t] = NoValue]
  /\ Goto(t, "idle")
  /\ UNCHANGED <<rvars, nodeVars, node, link>>

(* The domain deletes a node.                                              *)
Reclaim(p) ==
  /\ Free(p)
  /\ mNext' = [mNext EXCEPT ![p] = NoPtr]
  /\ UNCHANGED <<mHead, mData, nodes, pc, node, link, result>>

Call(t) == CallPop(t) \/ \E v \in Values, p \in Ptrs : CallPush(t, v, p)

Step(t) ==
  \/ PushLoad(t) \/ PushCAS(t)
  \/ PopLoad(t) \/ PopStore(t) \/ PopCheck(t) \/ PopNext(t) \/ PopCAS(t)
  \/ PopClear(t) \/ PopTake(t) \/ Return(t)

Next ==
  \/ \E t \in Owners : Call(t) \/ Step(t)
  \/ \E p \in Ptrs : Reclaim(p)

Spec == Init /\ [][Next]_vars

-----------------------------------------------------------------------------
(* PROPERTIES                                                              *)

(* A thread dereferences oldHead only while the node is allocated, and       *)
(* takes the value of a popped node before anyone may delete it.           *)
NoUseAfterFree ==
  \A t \in Owners :
    /\ pc[t] = "next" => status[node[t]] # "free"
    /\ pc[t] \in PushPcs \cup {"take"} => status[node[t]] = "live"

(* No ABA: a compare-and-swap that finds the head it loaded finds the node   *)
(* it loaded, with the successor it read, and not a recycled address.      *)
NoABA ==
  \A t \in Owners : pc[t] = "cas" /\ mHead = node[t] => mNext[node[t]] = link[t]

(* The list that mHead and the links form is that of the nodes pushed and    *)
(* not yet popped, and all of them are allocated.                          *)
ListInv ==
  /\ mHead = IF nodes = <<>> THEN NoPtr ELSE nodes[1]
  /\ \A i \in 1 .. Len(nodes) :
       /\ status[nodes[i]] = "live"
       /\ mNext[nodes[i]] = IF i = Len(nodes) THEN NoPtr ELSE nodes[i + 1]

(* The values on the stack, the top first.                                 *)
Contents == [i \in 1 .. Len(nodes) |-> mData[nodes[i]]]

(* What the caller of the operation could tell about it: a pop has taken     *)
(* effect when its compare-and-swap succeeded, or when its second load      *)
(* found the stack empty.                                                  *)
Operation(t) ==
  CASE pc[t] = "idle" -> [name |-> "idle", val |-> NoValue]
    [] pc[t] \in PushPcs -> [name |-> "push", val |-> result[t]]
    [] pc[t] \in PopPcs -> [name |-> "pop", val |-> NoValue]
    [] pc[t] \in {"clear", "take"} /\ node[t] # NoPtr ->
         [name |-> "done", val |-> mData[node[t]]]
    [] OTHER -> [name |-> "done", val |-> result[t]]

Abstract == INSTANCE AbstractStack WITH
  Threads <- Owners, stack <- Contents, op <- [t \in Owners |-> Operation(t)]

(* The stack is linearizable: no value is lost, duplicated or popped out of  *)
(* order, and a pop that returns nothing met an empty stack.               *)
Linearizable == Abstract!Spec

(* Lock-freedom: whatever threads are stalled, as long as some thread runs,  *)
(* some operation completes; retries are always paid for by the success of  *)
(* another thread.                                                         *)
LockFree == (\E t \in Owners : pc[t] # "idle") ~> (\E t \in Owners : pc[t] = "done")
=============================================================================
