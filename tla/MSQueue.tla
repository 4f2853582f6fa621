------------------------------ MODULE MSQueue ------------------------------
(***************************************************************************)
(* MSQueue<T>, the lock-free queue of Michael and Scott with the values in *)
(* the nodes themselves: the last node of the list is the one without a    *)
(* value, a push fills it by a compare-and-swap and then appends another.  *)
(* One action per access to mHead, mTail, a shared node or the hazard      *)
(* pointer domain, which is represented by its specification Reclamation.  *)
(*                                                                         *)
(* The allocator hands out the address of a deleted node again.  tryPop is *)
(* not safe against that: it compares the tail with a head that it has not *)
(* validated yet, and validates it by its address.  reused records that    *)
(* this has become possible: the node at an address that a tryPop has      *)
(* loaded and not validated was deleted, and the address is in use again.  *)
(* What is claimed of the queue is claimed until then, whatever else is    *)
(* deleted and allocated.                                                  *)
(*                                                                         *)
(* nodes and reused are history variables: nodes are those of the list as  *)
(* the successful compare-and-swaps have appended and taken them.  No step *)
(* looks at either.                                                        *)
(***************************************************************************)
EXTENDS Reclamation, Naturals, Sequences, FiniteSets, TLC

CONSTANTS Values, NoValue

ASSUME ValuesAssumption == NoValue \notin Values

VARIABLES
  mHead, mTail,  \* the two atomic pointers of the queue
  mNext, mData,  \* mNext[p], mData[p]: the fields of the node at address p
  pc,            \* pc[t]: where thread t is
  cur,           \* cur[t]: the local tail of push, the local head of tryPop
  node,          \* node[t]: the unused node t owns (node, newTail)
  next,          \* next[t]: the local newNext of push, next of tryPop
  stored,        \* stored[t]: push has put its value into the list
  result,        \* result[t]: the value t pushes, or has popped
  owed,          \* history: values pushed and not popped
  nodes,         \* history: the nodes of the list, the head first
  reused         \* history: an address came back that a tryPop has yet to validate

vars == <<rvars, mHead, mTail, mNext, mData, pc, cur, node, next, stored, result, owed,
          nodes, reused>>
localVars == <<cur, node, next, stored, result>>
sharedVars == <<mHead, mTail, mNext, mData, owed, nodes, reused>>

PushPcs == {"p-load", "p-store", "p-check", "p-data"}
AfterPushPcs == {"p-link", "p-alloc", "p-tail"}
PopPcs == {"load", "store", "tail", "check", "next", "cas",
           "e-check", "e-data", "e-next", "e-alloc", "e-link", "e-tail", "e-release"}
EndPcs == {"take", "retire", "empty", "delete", "release", "done"}

TypeOK ==
  /\ ReclamationTypeOK
  /\ {mHead, mTail} \subseteq Ptrs \cup {NoPtr}
  /\ mNext \in [Ptrs -> Ptrs \cup {NoPtr}]
  /\ mData \in [Ptrs -> Values \cup {NoValue}]
  /\ pc \in [Owners -> {"idle"} \cup PushPcs \cup AfterPushPcs \cup PopPcs \cup EndPcs]
  /\ cur \in [Owners -> Ptrs \cup {NoPtr}]
  /\ node \in [Owners -> Ptrs \cup {NoPtr}]
  /\ next \in [Owners -> Ptrs \cup {NoPtr}]
  /\ stored \in [Owners -> BOOLEAN]
  /\ result \in [Owners -> Values \cup {NoValue}]
  /\ owed \subseteq Values /\ nodes \in Seq(Ptrs) /\ reused \in BOOLEAN
  /\ \A t \in Owners :
       /\ pc[t] \in {"p-data", "p-link", "p-tail", "next", "cas"} => cur[t] # NoPtr
       /\ pc[t] \in {"p-tail", "cas", "e-tail"} => next[t] # NoPtr

(* The constructor allocates the first node, which holds no value.         *)
Init ==
  /\ slot = [t \in Owners |-> NoPtr]
  /\ holders = [p \in Ptrs |-> {}]
  /\ mHead \in Ptrs
  /\ mTail = mHead
  /\ status = [p \in Ptrs |-> IF p = mHead THEN "live" ELSE "free"]
  /\ mNext = [p \in Ptrs |-> NoPtr]
  /\ mData = [p \in Ptrs |-> NoValue]
  /\ pc = [t \in Owners |-> "idle"]
  /\ cur = [t \in Owners |-> NoPtr]
  /\ node = [t \in Owners |-> NoPtr]
  /\ next = [t \in Owners |-> NoPtr]
  /\ stored = [t \in Owners |-> FALSE]
  /\ result = [t \in Owners |-> NoValue]
  /\ owed = {}
  /\ nodes = <<mHead>>
  /\ reused = FALSE

Goto(t, label) == pc' = [pc EXCEPT ![t] = label]

(* A tryPop that has loaded mHead and has neither found it at the tail, with *)
(* its hazard pointer set, nor seen it in mHead again.                     *)
Unvalidated(t) == pc[t] \in {"store", "tail", "check"}

(* make_unique<Node>()                                                     *)
NewNode(t, p) ==
  /\ Allocate(p)
  /\ reused' = (reused \/ \E u \in Owners : Unvalidated(u) /\ cur[u] = p)
  /\ mData' = [mData EXCEPT ![p] = NoValue]
  /\ mNext' = [mNext EXCEPT ![p] = NoPtr]
  /\ node' = [node EXCEPT ![t] = p]

(* The compare-and-swap of cur->mNext from null to the thread's own node.   *)
Link(t) ==
  IF mNext[cur[t]] = NoPtr
    THEN /\ mNext' = [mNext EXCEPT ![cur[t]] = node[t]]
         /\ nodes' = Append(nodes, node[t])
         /\ next' = [next EXCEPT ![t] = node[t]]
         /\ node' = [node EXCEPT ![t] = NoPtr]
    ELSE /\ next' = [next EXCEPT ![t] = mNext[cur[t]]]
         /\ UNCHANGED <<mNext, nodes, node>>

(* mTail.compare_exchange_strong(tail, next)                               *)
SwingTail(t) == mTail' = IF mTail = cur[t] THEN next[t] ELSE mTail

-----------------------------------------------------------------------------
(* push(data): the values in flight are kept apart to tell them apart.     *)
CallPush(t, v, p) ==
  /\ pc[t] = "idle"
  /\ v \notin owed \cup {result[u] : u \in Owners}
  /\ NewNode(t, p)
  /\ result' = [result EXCEPT ![t] = v]
  /\ stored' = [stored EXCEPT ![t] = FALSE]
  /\ Goto(t, "p-load")
  /\ UNCHANGED <<mHead, mTail, nodes, cur, next, owed>>

PushLoad(t) ==
  /\ pc[t] = "p-load"
  /\ cur' = [cur EXCEPT ![t] = mTail]
  /\ Goto(t, "p-store")
  /\ UNCHANGED <<rvars, sharedVars, node, next, stored, result>>

PushStore(t) ==
  /\ pc[t] = "p-store"
  /\ Announce(t, cur[t])
  /\ Goto(t, "p-check")
  /\ UNCHANGED <<sharedVars, localVars>>

(* Mutant: the hazard pointer is trusted without a second load of mTail.    *)
PushCheckNothing(t) ==
  /\ pc[t] = "p-check"
  /\ Goto(t, "p-data")
  /\ UNCHANGED <<rvars, sharedVars, localVars>>

PushCheck(t) ==
  /\ pc[t] = "p-check"
  /\ Goto(t, IF mTail = cur[t] THEN "p-data" ELSE "p-load")
  /\ UNCHANGED <<rvars, sharedVars, localVars>>

(* tail->mData.compare_exchange_strong(null, p): the push takes effect.    *)
PushData(t) ==
  /\ pc[t] = "p-data"
  /\ IF mData[cur[t]] = NoValue
       THEN /\ mData' = [mData EXCEPT ![cur[t]] = result[t]]
            /\ owed' = owed \cup {result[t]}
            /\ stored' = [stored EXCEPT ![t] = TRUE]
            /\ result' = [result EXCEPT ![t] = NoValue]
       ELSE UNCHANGED <<mData, owed, stored, result>>
  /\ Goto(t, "p-link")
  /\ UNCHANGED <<rvars, mHead, mTail, mNext, nodes, cur, node, next, reused>>

PushLink(t) ==
  /\ pc[t] = "p-link"
  /\ Link(t)
  /\ Goto(t, IF ~stored[t] /\ node'[t] = NoPtr THEN "p-alloc" ELSE "p-tail")
  /\ UNCHANGED <<rvars, mHead, mTail, mData, cur, stored, result, owed, reused>>

(* The node went into the list without the value: another one is needed.   *)
PushAlloc(t, p) ==
  /\ pc[t] = "p-alloc"
  /\ NewNode(t, p)
  /\ Goto(t, "p-tail")
  /\ UNCHANGED <<mHead, mTail, nodes, cur, next, stored, result, owed>>

PushTail(t) ==
  /\ pc[t] = "p-tail"
  /\ SwingTail(t)
  /\ next' = [next EXCEPT ![t] = NoPtr]
  /\ Goto(t, IF stored[t] THEN "delete" ELSE "p-load")
  /\ UNCHANGED <<rvars, mHead, mNext, mData, nodes, cur, node, stored, result, owed, reused>>

-----------------------------------------------------------------------------
CallPop(t) ==
  /\ pc[t] = "idle"
  /\ Goto(t, "load")
  /\ UNCHANGED <<rvars, sharedVars, localVars>>

PopLoad(t) ==
  /\ pc[t] = "load"
  /\ cur' = [cur EXCEPT ![t] = mHead]
  /\ Goto(t, "store")
  /\ UNCHANGED <<rvars, sharedVars, node, next, stored, result>>

PopStore(t) ==
  /\ pc[t] = "store"
  /\ Announce(t, cur[t])
  /\ Goto(t, "tail")
  /\ UNCHANGED <<sharedVars, localVars>>

(* Mutant: the empty queue is not told apart.                               *)
PopTailNoCheck(t) ==
  /\ pc[t] = "tail"
  /\ Goto(t, "check")
  /\ UNCHANGED <<rvars, sharedVars, localVars>>

(* tail = mTail.load(): it is compared with a head not validated yet.      *)
PopTail(t) ==
  /\ pc[t] = "tail"
  /\ Goto(t, IF mTail = cur[t] THEN "e-check" ELSE "check")
  /\ UNCHANGED <<rvars, sharedVars, localVars>>

PopCheck(t) ==
  /\ pc[t] = "check"
  /\ Goto(t, IF mHead = cur[t] THEN "next" ELSE "load")
  /\ UNCHANGED <<rvars, sharedVars, localVars>>

(* head->mNext.load(); a null head ends the program here.                  *)
PopNext(t) ==
  /\ pc[t] = "next"
  /\ cur[t] # NoPtr
  /\ next' = [next EXCEPT ![t] = mNext[cur[t]]]
  /\ Goto(t, "cas")
  /\ UNCHANGED <<rvars, sharedVars, cur, node, stored, result>>

PopCAS(t) ==
  /\ pc[t] = "cas"
  /\ next' = [next EXCEPT ![t] = NoPtr]
  /\ IF mHead = cur[t]
       THEN /\ mHead' = next[t]
            /\ nodes' = SubSeq(nodes, 2, Len(nodes))
            /\ owed' = owed \ {mData[cur[t]]}
            /\ Goto(t, "take")
       ELSE UNCHANGED <<mHead, nodes, owed>> /\ Goto(t, "load")
  /\ UNCHANGED <<rvars, mTail, mNext, mData, cur, node, stored, result, reused>>

(* Mutant: the value of the next node, as in the queue with a dummy node.   *)
PopTakeNext(t) ==
  /\ pc[t] = "take"
  /\ result' = [result EXCEPT ![t] = mData[mNext[cur[t]]]]
  /\ Announce(t, NoPtr)
  /\ Goto(t, "retire")
  /\ UNCHANGED <<sharedVars, cur, node, next, stored>>

(* ans(head->mData) and hp.release()                                       *)
PopTake(t) ==
  /\ pc[t] = "take"
  /\ result' = [result EXCEPT ![t] = mData[cur[t]]]
  /\ Announce(t, NoPtr)
  /\ Goto(t, "retire")
  /\ UNCHANGED <<sharedVars, cur, node, next, stored>>

PopRetire(t) ==
  /\ pc[t] = "retire"
  /\ Retire(cur[t])
  /\ Goto(t, "delete")
  /\ UNCHANGED <<sharedVars, localVars>>

-----------------------------------------------------------------------------
(* tryPop when head == tail: the queue is empty, or its last node is full   *)
(* and the tail lags behind.                                               *)
EmptyCheck(t) ==
  /\ pc[t] = "e-check"
  /\ Goto(t, IF mTail = cur[t] THEN "e-data" ELSE "e-release")
  /\ UNCHANGED <<rvars, sharedVars, localVars>>

EmptyData(t) ==
  /\ pc[t] = "e-data"
  /\ Goto(t, IF mData[cur[t]] = NoValue THEN "empty" ELSE "e-next")
  /\ UNCHANGED <<rvars, sharedVars, localVars>>

(* Mutant: the tail is advanced although no node was appended.              *)
EmptyNextNoLink(t) ==
  /\ pc[t] = "e-next"
  /\ next' = [next EXCEPT ![t] = mNext[cur[t]]]
  /\ Goto(t, "e-tail")
  /\ UNCHANGED <<rvars, sharedVars, cur, node, stored, result>>

EmptyNext(t) ==
  /\ pc[t] = "e-next"
  /\ next' = [next EXCEPT ![t] = mNext[cur[t]]]
  /\ Goto(t, IF mNext[cur[t]] # NoPtr THEN "e-tail"
             ELSE IF node[t] = NoPtr THEN "e-alloc" ELSE "e-link")
  /\ UNCHANGED <<rvars, sharedVars, cur, node, stored, result>>

EmptyAlloc(t, p) ==
  /\ pc[t] = "e-alloc"
  /\ NewNode(t, p)
  /\ Goto(t, "e-link")
  /\ UNCHANGED <<mHead, mTail, nodes, cur, next, stored, result, owed>>

EmptyLink(t) ==
  /\ pc[t] = "e-link"
  /\ Link(t)
  /\ Goto(t, "e-tail")
  /\ UNCHANGED <<rvars, mHead, mTail, mData, cur, stored, result, owed, reused>>

EmptyTail(t) ==
  /\ pc[t] = "e-tail"
  /\ SwingTail(t)
  /\ next' = [next EXCEPT ![t] = NoPtr]
  /\ Goto(t, "e-release")
  /\ UNCHANGED <<rvars, mHead, mNext, mData, nodes, cur, node, stored, result, owed, reused>>

EmptyRelease(t) ==
  /\ pc[t] \in {"e-release", "empty"}
  /\ Announce(t, NoPtr)
  /\ Goto(t, IF pc[t] = "empty" THEN "delete" ELSE "load")
  /\ UNCHANGED <<sharedVars, localVars>>

-----------------------------------------------------------------------------
(* The destructors at the end of both operations: a node that was not used  *)
(* was never shared, so it is deleted at once; then the hazard pointer.    *)
DeleteUnused(t) ==
  /\ pc[t] = "delete"
  /\ status' = [p \in Ptrs |-> IF p = node[t] THEN "free" ELSE status[p]]
  /\ node' = [node EXCEPT ![t] = NoPtr]
  /\ cur' = [cur EXCEPT ![t] = NoPtr]
  /\ stored' = [stored EXCEPT ![t] = FALSE]
  /\ Goto(t, "release")
  /\ UNCHANGED <<slot, holders, sharedVars, next, result>>

ReleaseHazard(t) ==
  /\ pc[t] = "release"
  /\ Announce(t, NoPtr)
  /\ Goto(t, "done")
  /\ UNCHANGED <<sharedVars, localVars>>

Return(t) ==
  /\ pc[t] = "done"
  /\ result' = [result EXCEPT ![t] = NoValue]
  /\ Goto(t, "idle")
  /\ UNCHANGED <<rvars, sharedVars, cur, node, next, stored>>

(* The domain deletes a node.                                              *)
Reclaim(p) ==
  /\ Free(p)
  /\ UNCHANGED <<sharedVars, localVars, pc>>

Call(t) == CallPop(t) \/ \E v \in Values, p \in Ptrs : CallPush(t, v, p)

PushStep(t) ==
  \/ PushLoad(t) \/ PushStore(t) \/ PushCheck(t) \/ PushData(t) \/ PushLink(t)
  \/ PushTail(t) \/ \E p \in Ptrs : PushAlloc(t, p)

PopStep(t) ==
  \/ PopLoad(t) \/ PopStore(t) \/ PopTail(t) \/ PopCheck(t) \/ PopNext(t)
  \/ PopCAS(t) \/ PopTake(t) \/ PopRetire(t)
  \/ EmptyCheck(t) \/ EmptyData(t) \/ EmptyNext(t) \/ EmptyLink(t)
  \/ EmptyTail(t) \/ EmptyRelease(t) \/ \E p \in Ptrs : EmptyAlloc(t, p)

Step(t) == PushStep(t) \/ PopStep(t) \/ DeleteUnused(t) \/ ReleaseHazard(t) \/ Return(t)

Next ==
  \/ \E t \in Owners : Call(t) \/ Step(t)
  \/ \E p \in Ptrs : Reclaim(p)

Spec == Init /\ [][Next]_vars

-----------------------------------------------------------------------------
(* PROPERTIES                                                              *)

(* The values from node p on, in at most n nodes.                          *)
Walk[n \in 0 .. Cardinality(Ptrs), p \in Ptrs \cup {NoPtr}] ==
  IF n = 0 \/ p = NoPtr \/ (p # NoPtr /\ mData[p] = NoValue)
    THEN <<>> ELSE <<mData[p]>> \o Walk[n - 1, mNext[p]]

Reachable == Walk[Cardinality(Ptrs), mHead]

(* Every value that was pushed and not yet popped is in the queue, or in the *)
(* hands of the thread about to return it: the consumers get back what the  *)
(* producers put in (TestMSQueue compares the two collections).            *)
NothingLost ==
  \A v \in owed :
    \/ \E i \in 1 .. Len(Reachable) : Reachable[i] = v
    \/ \E t \in Owners : pc[t] = "take" /\ mData[cur[t]] = v

(* The list is never broken: mHead and the links lead through the nodes      *)
(* appended and not popped, all allocated, the tail at most one node behind *)
(* the last, and only the last node has no value.                          *)
ListIntact ==
  /\ TypeOK
  /\ nodes # <<>> /\ mHead = nodes[1]
  /\ \A i \in 1 .. Len(nodes) :
       /\ status[nodes[i]] = "live"
       /\ mNext[nodes[i]] = IF i = Len(nodes) THEN NoPtr ELSE nodes[i + 1]
       /\ i < Len(nodes) => mData[nodes[i]] # NoValue
  /\ \E i \in 1 .. Len(nodes) : mTail = nodes[i] /\ i >= Len(nodes) - 1
  /\ \A t \in Owners : pc[t] \in {"next", "cas"} /\ mHead = cur[t] => mHead # mTail

(* Deleted nodes whose addresses are used again, even in the same list and  *)
(* at once, do not break it, unless tryPop has one of them unvalidated.    *)
ListInv == ~ reused => ListIntact

(* A thread reads and writes a node only while it is allocated: one that is  *)
(* head or tail when its announcement is checked is not freed until the     *)
(* announcement is withdrawn, and a pop takes the value before it retires.  *)
(* It is the node that was loaded, or another one at its address.          *)
NoUseAfterFree ==
  ~ reused =>
    \A t \in Owners :
      pc[t] \in {"p-data", "p-link", "next", "take", "e-data", "e-next", "e-link"} =>
        status[cur[t]] # "free"

(* The values in the queue, the oldest first.                              *)
Contents ==
  LET values == IF mData[nodes[Len(nodes)]] = NoValue THEN Len(nodes) - 1 ELSE Len(nodes)
  IN  [i \in 1 .. values |-> mData[nodes[i]]]

(* What a caller could tell of the operation: a push takes effect with the   *)
(* compare-and-swap of mData, a pop with that of mHead, or, of the empty    *)
(* queue, with the load of mData.                                          *)
Operation(t) ==
  CASE pc[t] = "idle" -> [name |-> "idle", val |-> NoValue]
    [] pc[t] \in PushPcs \cup AfterPushPcs /\ ~stored[t] ->
         [name |-> "push", val |-> result[t]]
    [] pc[t] \in PopPcs -> [name |-> "pop", val |-> NoValue]
    [] pc[t] = "take" -> [name |-> "done", val |-> mData[cur[t]]]
    [] OTHER -> [name |-> "done", val |-> result[t]]

Abstract == INSTANCE AbstractQueue WITH
  Threads <- Owners, queue <- Contents, op <- [t \in Owners |-> Operation(t)]

(* The queue is linearizable: no value is lost, duplicated or overtaken, and *)
(* nullptr is returned for an empty queue only.  That holds of every step   *)
(* until an address comes back that a tryPop has yet to validate.          *)
Linearizable ==
  Abstract!Init /\ [][reused' \/ Abstract!Next]_<<Contents, [t \in Owners |-> Operation(t)]>>

-----------------------------------------------------------------------------
(* For the runs without liveness properties.                               *)
Symmetry ==
  Permutations(Owners) \cup Permutations(Ptrs) \cup Permutations(Values)
=============================================================================
