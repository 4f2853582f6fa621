------------------------- MODULE ReclamationClients -------------------------
(***************************************************************************)
(* The two ways the library uses the hazard pointer domain: client is      *)
(* claimPointer on shared pointers that are replaced ("claim"), or the     *)
(* stack with its own load, store, check ("stack").                        *)
(***************************************************************************)
EXTENDS ClaimPointer, Naturals, Sequences

CONSTANTS Values, NoValue

VARIABLES client,
          mHead, mNext, mData, stackPc, node, link, result, nodes  \* LockFreeStack

Stack == INSTANCE LockFreeStack WITH pc <- stackPc
stackVars == <<mHead, mNext, mData, stackPc, node, link, result, nodes>>
clientVars == <<client, vars, stackVars>>

ClientInit ==
  /\ client \in {"claim", "stack"}
  /\ Init /\ Stack!Init
  /\ client = "stack" => source = [t \in Owners |-> CHOOSE c \in Cells : TRUE]

ClaimNext == client = "claim" /\ Next /\ UNCHANGED <<client, stackVars>>

StackStep ==
  /\ client = "stack"
  /\ \E t \in Owners : Stack!Step(t)
  /\ UNCHANGED <<client, writerVars, readerVars>>

StackNext ==
  /\ client = "stack"
  /\ (\E t \in Owners : Stack!Call(t)) \/ (\E p \in Ptrs : Stack!Reclaim(p))
  /\ UNCHANGED <<client, writerVars, readerVars>>

ClientNext == ClaimNext \/ StackStep \/ StackNext

(* The scheduler runs some thread that is inside push or pop; which one is  *)
(* up to it, so that any thread may be stalled for ever at any point.      *)
ClientSpec ==
  ClientInit /\ [][ClientNext]_clientVars /\ WF_clientVars(StackStep)

-----------------------------------------------------------------------------
(* PROPERTIES.  Those of ClaimPointer are checked as they are; with the     *)
(* stack they say nothing.                                                 *)

(* A thread dereferences oldHead only while the node is allocated, and       *)
(* takes the value of a popped node before anyone may delete it.  No ABA: a  *)
(* compare-and-swap that finds the head it loaded finds the node it loaded,  *)
(* with the successor it read, and not a recycled address.  The list that   *)
(* mHead and the links form is that of the nodes pushed and not yet popped.  *)
NodesValid == Stack!TypeOK /\ Stack!ListInv /\ Stack!NoUseAfterFree /\ Stack!NoABA

(* The stack is linearizable: no value is lost, duplicated or popped out of  *)
(* order, and a pop that returns nothing met an empty stack.               *)
Linearizable == Stack!Linearizable

(* Lock-freedom: whatever threads are stalled, as long as some thread runs,  *)
(* some operation completes; retries are always paid for by the success of  *)
(* another thread.                                                         *)
LockFree == Stack!LockFree
=============================================================================
