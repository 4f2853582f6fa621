----------------------------- MODULE MSQueueProofs -----------------------------
(***************************************************************************)
(* Machine-checked proofs, for any number of threads, addresses and        *)
(* values, that the list of MSQueue is never broken, that no thread        *)
(* touches a deleted node and that the queue is linearizable, although the *)
(* addresses of deleted nodes are used again all the time: until one comes *)
(* back that a tryPop has loaded and not validated.                        *)
(*                                                                         *)
(* The invariant therefore says nothing of a node that was deleted, nor of *)
(* the links that still lead to it from nodes popped before it.            *)
(***************************************************************************)
EXTENDS MSQueue, SequenceTheorems, TLAPS

(* A leaf may take a prover half a minute.                                 *)
USE SMTT(30), ZenonT(30)

(* A node that was appended, as against one that a thread has just made.   *)
Listed(p) == p \in Ptrs /\ status[p] # "free" /\ \A t \in Owners : node[t] # p

(* A node that mHead has passed, and one that it has not.                  *)
Popping(t) == pc[t] \in {"take", "retire"}
Popped(p) ==
  p \in Ptrs /\ (status[p] = "retired" \/ \E t \in Owners : Popping(t) /\ cur[t] = p)
Queued(p) == Listed(p) /\ ~ Popped(p)
Reached(p) == p = mHead \/ Popped(p)

(* A node that is not behind the tail, and one that is before it.          *)
Known(p) == Listed(p) /\ p # mNext[mTail]
Passed(p) == Known(p) /\ p # mTail

(* The domain does not delete p while owner t announces it.                *)
Held(t, p) == status[p] = "live" \/ (status[p] = "retired" /\ t \in holders[p])

(* A node that its thread has not appended.                                *)
Private(t) ==
  node[t] # NoPtr =>
    /\ status[node[t]] = "live" /\ mNext[node[t]] = NoPtr /\ mData[node[t]] = NoValue
    /\ \A u \in Owners \ {t} : node[u] # node[t]

(* Where a thread has such a node, and where it has none.                  *)
NodeInv(t) ==
  /\ pc[t] \in PushPcs \cup {"p-link", "e-link"} => node[t] # NoPtr
  /\ pc[t] = "p-tail" => stored[t] \/ node[t] # NoPtr
  /\ pc[t] \in {"idle", "p-alloc", "e-alloc", "release", "done"} => node[t] = NoPtr

(* The links of the nodes that are in the queue.  That of a popped node may *)
(* lead to a node that is deleted, or anything else by now.                *)
LinksInv ==
  /\ \A p \in Ptrs : Queued(p) /\ mNext[p] # NoPtr => Queued(mNext[p])
  /\ \A p, q \in Ptrs :
       Queued(p) /\ Queued(q) /\ mNext[p] = mNext[q] /\ mNext[p] # NoPtr => p = q
  /\ \A p \in Ptrs : Queued(p) => mNext[p] # mHead
  /\ \A p \in Ptrs : Passed(p) => mNext[p] # NoPtr /\ mData[p] # NoValue
  /\ Listed(mTail)
  /\ mNext[mTail] # NoPtr => mData[mTail] # NoValue /\ mNext[mNext[mTail]] = NoPtr
  /\ Known(mHead) /\ ~ Popped(mHead)

PoppedInv ==
  /\ \A p \in Ptrs : Popped(p) => Passed(p)
  /\ \A t \in Owners : Popping(t) =>
       /\ cur[t] \in Ptrs /\ status[cur[t]] = "live"
       /\ \A u \in Owners \ {t} : Popping(u) => cur[u] # cur[t]

(* mHead, the links and the tail lead through nodes.                       *)
NodesInv ==
  /\ nodes # <<>> /\ mHead = nodes[1]
  /\ \A i \in 1 .. Len(nodes) :
       /\ Queued(nodes[i])
       /\ mNext[nodes[i]] = IF i = Len(nodes) THEN NoPtr ELSE nodes[i + 1]
  /\ \E i \in 1 .. Len(nodes) : mTail = nodes[i]

(* Where a thread has loaded a node, and where it has validated it.         *)
Loaded == {"p-store", "p-check", "store", "tail", "check"}
Safe == {"p-data", "p-link", "p-alloc", "p-tail", "next", "cas", "e-check", "e-data",
         "e-next", "e-alloc", "e-link", "e-tail"}
Announced == Safe \cup {"p-check", "tail", "check"}
Full == {"p-link", "e-next", "e-alloc", "e-link"}
Linked == {"p-alloc", "p-tail", "cas", "e-tail"}
Headed == {"next", "cas", "e-check", "e-data"}

(* What thread t knows of the node it has loaded.                          *)
LocalInv(t) ==
  /\ pc[t] \in Loaded => cur[t] \in Ptrs
  /\ Unvalidated(t) => status[cur[t]] = "free" \/ (Known(cur[t]) /\ Reached(cur[t]))
  /\ pc[t] \in {"check", "next", "cas"} => cur[t] # mTail
  /\ pc[t] \in Announced => slot[t] = cur[t]
  /\ pc[t] \in Safe => Known(cur[t]) /\ Held(t, cur[t])
  /\ pc[t] \in Full => mData[cur[t]] # NoValue
  /\ pc[t] \in Linked => next[t] = mNext[cur[t]] /\ next[t] # NoPtr
  /\ pc[t] \in Headed => Reached(cur[t])

ResultInv(t) ==
  /\ pc[t] \in {"idle", "empty", "take"} \cup PopPcs => result[t] = NoValue
  /\ pc[t] \in PushPcs \cup AfterPushPcs =>
       IF stored[t] THEN result[t] = NoValue ELSE result[t] \in Values
  /\ stored[t] => pc[t] \in {"p-link", "p-tail", "delete"} /\ result[t] = NoValue

SharedInv == LinksInv /\ PoppedInv /\ NodesInv /\ \A t \in Owners : Private(t)

IInv ==
  /\ TypeOK /\ SharedInv
  /\ \A t \in Owners : NodeInv(t) /\ LocalInv(t) /\ ResultInv(t)

-----------------------------------------------------------------------------
(* What a step of the threads in S leaves of what the others know: a node   *)
(* is deleted only if nobody holds it, and one that was deleted does not    *)
(* come back while a tryPop has yet to validate it.                        *)
Deleted(p) == status'[p] = "free" /\ \A u \in Owners : slot[u] = p => ~ Held(u, p)

Stays(p) ==
  /\ Known(p)' /\ (p # mTail => p # mTail')
  /\ (mData[p] # NoValue => mData'[p] = mData[p])
  /\ (mNext[p] # NoPtr => mNext'[p] = mNext[p])
  /\ (Reached(p) => Reached(p)')
  /\ \A u \in Owners : slot[u] = p /\ slot'[u] = p /\ Held(u, p) => Held(u, p)'

Keeps(S) ==
  /\ \A u \in Owners \ S :
       /\ pc'[u] = pc[u] /\ cur'[u] = cur[u] /\ node'[u] = node[u] /\ next'[u] = next[u]
       /\ stored'[u] = stored[u] /\ result'[u] = result[u] /\ slot'[u] = slot[u]
       /\ Unvalidated(u) /\ cur[u] \in Ptrs /\ status[cur[u]] = "free" =>
            status'[cur[u]] = "free"
  /\ \A p \in Ptrs : Known(p) => Deleted(p) \/ Stays(p)
  /\ Listed(mTail)'

LEMMA OthersKeep ==
  ASSUME NEW S, Keeps(S), NEW u \in Owners \ S,
         LocalInv(u), NodeInv(u), ResultInv(u)
  PROVE  LocalInv(u)' /\ NodeInv(u)' /\ ResultInv(u)'
<1> USE DEF Loaded, Safe, Announced, Full, Linked, Headed
<1>1. /\ pc'[u] = pc[u] /\ cur'[u] = cur[u] /\ node'[u] = node[u] /\ next'[u] = next[u]
      /\ stored'[u] = stored[u] /\ result'[u] = result[u] /\ slot'[u] = slot[u]
      /\ Unvalidated(u) /\ cur[u] \in Ptrs /\ status[cur[u]] = "free" =>
           status'[cur[u]] = "free"
  BY ONLY Keeps(S), u \in Owners \ S DEF Keeps
<1>2. NodeInv(u)'
  BY ONLY <1>1, NodeInv(u) DEF NodeInv
<1>3. ResultInv(u)'
  BY ONLY <1>1, ResultInv(u) DEF ResultInv
<1> PICK p : p = cur[u]
  OBVIOUS
<1>4. Listed(mTail)' => \A q : status'[q] = "free" => q # mTail'
  BY ONLY DEF Listed
<1>5. CASE pc[u] \in Safe
  <2>1. p \in Ptrs /\ Known(p) /\ Held(u, p) /\ slot[u] = p /\ ~ Unvalidated(u)
    BY ONLY <1>5, p = cur[u], LocalInv(u) DEF LocalInv, Known, Listed, Unvalidated
  <2>2. Stays(p)
    BY ONLY <2>1, Keeps(S), u \in Owners \ S DEF Keeps, Deleted
  <2>3. /\ Known(p)' /\ (p # mTail => p # mTail')
        /\ (mData[p] # NoValue => mData'[p] = mData[p])
        /\ (mNext[p] # NoPtr => mNext'[p] = mNext[p])
        /\ (Reached(p) => Reached(p)') /\ Held(u, p)'
    BY ONLY <1>1, <2>1, <2>2, p = cur[u], u \in Owners \ S DEF Stays
  <2>4. Known(cur[u])' /\ Held(u, cur[u])' /\ (Reached(p) => Reached(cur[u])')
    BY ONLY <1>1, <2>3, p = cur[u] DEF Known, Listed, Held, Reached, Popped, Popping
  <2>5. LocalInv(u)'
    BY ONLY <1>1, <1>5, <2>1, <2>3, <2>4, p = cur[u], LocalInv(u) DEF LocalInv, Unvalidated
  <2> QED BY ONLY <1>2, <1>3, <2>5
<1>6. CASE Unvalidated(u)
  <2>1. p \in Ptrs /\ (status[p] = "free" \/ (Known(p) /\ Reached(p)))
        /\ (pc[u] = "check" => p # mTail)
    BY ONLY <1>6, p = cur[u], LocalInv(u) DEF LocalInv, Unvalidated
  <2>2. status'[p] = "free" \/ (Known(p)' /\ Reached(p)' /\ (p # mTail => p # mTail'))
    BY ONLY <1>1, <1>6, <2>1, p = cur[u], Keeps(S) DEF Keeps, Deleted, Stays
  <2>3. Known(p)' /\ Reached(p)' => Known(cur[u])' /\ Reached(cur[u])'
    BY ONLY <1>1, p = cur[u] DEF Known, Listed, Reached, Popped, Popping
  <2>4. status'[cur'[u]] = "free" => cur'[u] # mTail'
    BY ONLY <1>4, Keeps(S) DEF Keeps
  <2>5. LocalInv(u)'
    BY ONLY <1>1, <1>6, <2>1, <2>2, <2>3, <2>4, p = cur[u], LocalInv(u)
       DEF LocalInv, Unvalidated
  <2> QED BY ONLY <1>2, <1>3, <2>5
<1>7. CASE pc[u] \notin Safe /\ ~ Unvalidated(u)
  <2>1. LocalInv(u)'
    BY ONLY <1>1, <1>7, LocalInv(u) DEF LocalInv, Unvalidated
  <2> QED BY ONLY <1>2, <1>3, <2>1
<1> QED BY ONLY <1>5, <1>6, <1>7

-----------------------------------------------------------------------------
(* The steps that change no link.                                          *)
Same ==
  /\ UNCHANGED <<status, mHead, mTail, mNext, node, nodes, reused>>
  /\ \A t \in Owners :
       (Popping(t)' <=> Popping(t)) /\ (Popping(t) => cur'[t] = cur[t])
  /\ \A p \in Ptrs :
       mData'[p] = mData[p] \/ (Listed(p) /\ mData[p] = NoValue /\ mData'[p] # NoValue)

Quiet(t) ==
  /\ \A u \in Owners \ {t} :
       /\ pc'[u] = pc[u] /\ cur'[u] = cur[u] /\ next'[u] = next[u]
       /\ stored'[u] = stored[u] /\ result'[u] = result[u] /\ slot'[u] = slot[u]
  /\ \A p \in Ptrs, u \in Owners :
       slot[u] = p /\ slot'[u] = p /\ u \in holders[p] => u \in holders'[p]

LEMMA SameNodes ==
  ASSUME Same
  PROVE  \A p : /\ Listed(p)' <=> Listed(p)
                /\ Popped(p)' <=> Popped(p)
                /\ Known(p)' <=> Known(p)
                /\ Passed(p)' <=> Passed(p)
                /\ Queued(p)' <=> Queued(p)
                /\ Reached(p)' <=> Reached(p)
<1>1. status' = status /\ mHead' = mHead /\ mTail' = mTail /\ mNext' = mNext /\ node' = node
  BY ONLY Same DEF Same
<1>2. \A t \in Owners : Popping(t)' /\ cur'[t] # cur[t] => FALSE
  BY ONLY Same DEF Same
<1>3. \A t \in Owners : Popping(t)' <=> Popping(t)
  BY ONLY Same DEF Same
<1>4. ASSUME NEW p PROVE Listed(p)' <=> Listed(p)
  BY ONLY <1>1 DEF Listed
<1>5. ASSUME NEW p PROVE Popped(p)' <=> Popped(p)
  BY ONLY <1>1, <1>2, <1>3 DEF Popped
<1>6. ASSUME NEW p PROVE Known(p)' <=> Known(p)
  BY ONLY <1>1, <1>4 DEF Known
<1>7. ASSUME NEW p PROVE Passed(p)' <=> Passed(p)
  BY ONLY <1>1, <1>6 DEF Passed
<1>8. ASSUME NEW p PROVE (Queued(p)' <=> Queued(p)) /\ (Reached(p)' <=> Reached(p))
  BY ONLY <1>1, <1>4, <1>5 DEF Queued, Reached
<1> QED BY ONLY <1>4, <1>5, <1>6, <1>7, <1>8

LEMMA SameShared ==
  ASSUME TypeOK, SharedInv, Same
  PROVE  SharedInv'
<1>1. /\ UNCHANGED <<status, mHead, mTail, mNext, node, nodes, reused>>
      /\ \A t \in Owners :
           (Popping(t)' <=> Popping(t)) /\ (Popping(t) => cur'[t] = cur[t])
      /\ \A p \in Ptrs :
           mData'[p] = mData[p] \/ (Listed(p) /\ mData[p] = NoValue /\ mData'[p] # NoValue)
  BY ONLY Same DEF Same
<1>2. \A p : /\ Listed(p)' <=> Listed(p)
             /\ Popped(p)' <=> Popped(p)
             /\ Known(p)' <=> Known(p)
             /\ Passed(p)' <=> Passed(p)
             /\ Queued(p)' <=> Queued(p)
  BY ONLY Same, SameNodes
<1>3. LinksInv'
  <2>1. \A p \in Ptrs : mData[p] # NoValue => mData'[p] # NoValue
    BY ONLY <1>1
  <2>2. mTail \in Ptrs
    BY ONLY SharedInv DEF SharedInv, LinksInv, Listed
  <2> QED BY ONLY <1>1, <1>2, <2>1, <2>2, SharedInv DEF SharedInv, LinksInv
<1>4. PoppedInv'
  BY ONLY <1>1, <1>2, SharedInv DEF SharedInv, PoppedInv
<1>5. NodesInv'
  BY ONLY <1>1, <1>2, SharedInv DEF SharedInv, NodesInv
<1>6. ASSUME NEW u \in Owners PROVE Private(u)'
  <2>1. node[u] \in Ptrs \cup {NoPtr} /\ Private(u)
    BY ONLY TypeOK, SharedInv DEF SharedInv, TypeOK
  <2>2. node[u] # NoPtr => mData'[node[u]] = mData[node[u]]
    BY ONLY <1>1, <2>1 DEF Listed
  <2> QED BY ONLY <1>1, <2>1, <2>2 DEF Private
<1> QED BY ONLY <1>3, <1>4, <1>5, <1>6 DEF SharedInv

LEMMA QuietKeeps ==
  ASSUME NEW t \in Owners, SharedInv, Same, Quiet(t)
  PROVE  Keeps({t})
<1>1. /\ UNCHANGED <<status, mHead, mTail, mNext, node, nodes, reused>>
      /\ \A p \in Ptrs : mData[p] # NoValue => mData'[p] = mData[p]
  BY ONLY Same DEF Same
<1>2. \A p : (Reached(p)' <=> Reached(p)) /\ (Known(p)' <=> Known(p)) /\ (Listed(p)' <=> Listed(p))
  BY ONLY Same, SameNodes
<1>3. ASSUME NEW p \in Ptrs, NEW u \in Owners, slot[u] = p, slot'[u] = p, Held(u, p)
      PROVE  Held(u, p)'
  BY ONLY <1>1, <1>3, Quiet(t) DEF Quiet, Held
<1>4. \A p \in Ptrs : Known(p) => Stays(p)
  BY ONLY <1>1, <1>2, <1>3 DEF Stays
<1>5. Listed(mTail)'
  <2>1. Listed(mTail)
    BY ONLY SharedInv DEF SharedInv, LinksInv
  <2> QED BY ONLY <1>1, <2>1 DEF Listed
<1> QED BY ONLY <1>1, <1>4, <1>5, Quiet(t) DEF Keeps, Quiet

(* A store to the hazard pointer of thread t, or none.                     *)
LEMMA AnnounceQuiet ==
  ASSUME TypeOK, NEW t \in Owners, NEW p, Announce(t, p)
  PROVE  /\ \A u \in Owners \ {t} : slot'[u] = slot[u]
         /\ slot'[t] = p
         /\ \A q \in Ptrs, u \in Owners :
              slot[u] = q /\ slot'[u] = q /\ u \in holders[q] => u \in holders'[q]
<1>1. slot \in [Owners -> Ptrs \cup {NoPtr}] /\ holders \in [Ptrs -> SUBSET Owners]
  BY ONLY TypeOK DEF TypeOK, ReclamationTypeOK
<1> QED BY ONLY <1>1, t \in Owners, Announce(t, p) DEF Announce

-----------------------------------------------------------------------------
(* The steps that change the list.                                         *)

(* Only thread t moves.                                                    *)
Moves(t) ==
  /\ \A u \in Owners \ {t} :
       /\ pc'[u] = pc[u] /\ cur'[u] = cur[u] /\ node'[u] = node[u] /\ next'[u] = next[u]
       /\ stored'[u] = stored[u] /\ result'[u] = result[u] /\ slot'[u] = slot[u]

LEMMA NewNodeKeeps ==
  ASSUME TypeOK, SharedInv, NEW t \in Owners, NEW p \in Ptrs, NewNode(t, p), node[t] = NoPtr,
         ~ reused', UNCHANGED <<mHead, mTail, nodes>>, Moves(t),
         ~ Popping(t), ~ Popping(t)'
  PROVE  SharedInv' /\ Keeps({t})
<1>0. LinksInv /\ PoppedInv /\ NodesInv /\ \A u \in Owners : Private(u)
  BY ONLY SharedInv DEF SharedInv
<1>1. /\ status[p] = "free" /\ UNCHANGED <<slot, holders>>
      /\ status' = [status EXCEPT ![p] = "live"] /\ node' = [node EXCEPT ![t] = p]
      /\ mData' = [mData EXCEPT ![p] = NoValue] /\ mNext' = [mNext EXCEPT ![p] = NoPtr]
      /\ \A u \in Owners : Unvalidated(u) => cur[u] # p
  BY ONLY NewNode(t, p), ~ reused' DEF NewNode, Allocate
<1>2. /\ status \in [Ptrs -> {"free", "live", "retired"}]
      /\ node \in [Owners -> Ptrs \cup {NoPtr}] /\ mNext \in [Ptrs -> Ptrs \cup {NoPtr}]
      /\ mData \in [Ptrs -> Values \cup {NoValue}] /\ p # NoPtr
  BY ONLY TypeOK, NoPtrAssumption DEF TypeOK, ReclamationTypeOK
<1>3. ~ Listed(p) /\ \A u \in Owners : node[u] # p
  BY ONLY <1>0, <1>1, <1>2 DEF Listed, Private
<1>4. mHead' = mHead /\ mTail' = mTail /\ nodes' = nodes
  BY ONLY UNCHANGED <<mHead, mTail, nodes>>
<1>5. mTail \in Ptrs /\ mTail # p /\ mHead # p /\ \A q : Listed(q) => q \in Ptrs /\ q # p
  BY ONLY <1>0, <1>3 DEF LinksInv, Known, Listed
<1>6. /\ \A q \in Ptrs : q # p => status'[q] = status[q] /\ mData'[q] = mData[q]
                                  /\ mNext'[q] = mNext[q]
      /\ status'[p] = "live" /\ mData'[p] = NoValue /\ mNext'[p] = NoPtr /\ node'[t] = p
      /\ \A u \in Owners \ {t} : node'[u] = node[u]
  BY ONLY <1>1, <1>2, t \in Owners
<1>7. \A q : Listed(q)' <=> Listed(q)
  BY ONLY <1>1, <1>2, <1>3, <1>6, node[t] = NoPtr, NoPtrAssumption, t \in Owners DEF Listed
<1>8. \A q : Popped(q)' <=> Popped(q)
  <2>1. \A u \in Owners : (Popping(u)' <=> Popping(u)) /\ (Popping(u) => cur'[u] = cur[u])
    BY ONLY Moves(t), ~ Popping(t), ~ Popping(t)' DEF Moves, Popping
  <2>2. ~ Popped(p)
    BY ONLY <1>0, <1>3 DEF PoppedInv, Passed, Known, Popped
  <2>3. \A u \in Owners : Popping(u) => cur[u] # p
    BY ONLY <2>2, p \in Ptrs DEF Popped
  <2> QED BY ONLY <1>1, <1>6, <2>1, <2>2, <2>3 DEF Popped
<1>9. mNext'[mTail] = mNext[mTail]
  BY ONLY <1>5, <1>6
<1>10. \A q : /\ (Known(q)' <=> Known(q)) /\ (Passed(q)' <=> Passed(q))
              /\ (Queued(q)' <=> Queued(q)) /\ (Reached(q)' <=> Reached(q))
  BY ONLY <1>4, <1>7, <1>8, <1>9 DEF Known, Passed, Queued, Reached
<1>11. LinksInv'
  <2>1. \A q : Listed(q) => mData'[q] = mData[q] /\ mNext'[q] = mNext[q]
    BY ONLY <1>5, <1>6
  <2>2. \A q : (Passed(q) => Listed(q)) /\ (Queued(q) => Listed(q))
    BY ONLY DEF Passed, Known, Queued
  <2>3. mNext[mTail] # NoPtr => mNext[mTail] \in Ptrs /\ mNext[mTail] # p
    <3>1. Queued(mTail)
      BY ONLY <1>0 DEF LinksInv, PoppedInv, Passed, Queued, Listed
    <3> QED BY ONLY <1>0, <1>5, <2>2, <3>1 DEF LinksInv
  <2>4. /\ \A q \in Ptrs : Queued(q)' /\ mNext'[q] # NoPtr => Queued(mNext[q])
        /\ \A q, r \in Ptrs :
             Queued(q)' /\ Queued(r)' /\ mNext'[q] = mNext'[r] /\ mNext'[q] # NoPtr => q = r
        /\ \A q \in Ptrs : Queued(q)' => mNext'[q] # mHead'
        /\ \A q \in Ptrs : Passed(q)' => mNext'[q] # NoPtr /\ mData'[q] # NoValue
    BY ONLY <1>0, <1>4, <1>10, <2>1, <2>2 DEF LinksInv
  <2>5. \A q \in Ptrs : Queued(q)' /\ mNext'[q] # NoPtr => Queued(mNext[q])'
    <3>1. ASSUME NEW q \in Ptrs, Queued(q)', mNext'[q] # NoPtr PROVE Queued(mNext[q])'
      <4> PICK r : r = mNext'[q]
        OBVIOUS
      <4>1. mNext'[q] = mNext[q]
        BY ONLY <1>10, <2>1, <2>2, <3>1
      <4>2. Queued(r)'
        BY ONLY <1>10, <2>4, <3>1, <4>1, r = mNext'[q]
      <4> QED BY ONLY <4>2, r = mNext'[q] DEF Queued, Listed, Popped, Popping
    <3> QED BY ONLY <3>1
  <2>6. Listed(mTail)' /\ Known(mHead)' /\ ~ Popped(mHead)'
    <3>1. PICK h, m : h = mHead /\ m = mTail
      OBVIOUS
    <3>2. Listed(m)' /\ Known(h)' /\ ~ Popped(h)'
      BY ONLY <1>0, <1>7, <1>8, <1>10, <3>1 DEF LinksInv
    <3> QED BY ONLY <1>4, <3>1, <3>2 DEF Listed, Known, Popped, Popping
  <2>7. mNext'[mTail'] # NoPtr => mData'[mTail'] # NoValue /\ mNext'[mNext'[mTail']] = NoPtr
    BY ONLY <1>0, <1>4, <1>5, <1>6, <2>3 DEF LinksInv
  <2> QED BY ONLY <2>4, <2>5, <2>6, <2>7 DEF LinksInv
<1>12. PoppedInv'
  <2>1. \A u \in Owners : (Popping(u)' <=> Popping(u)) /\ (Popping(u) => cur'[u] = cur[u])
    BY ONLY Moves(t), ~ Popping(t), ~ Popping(t)' DEF Moves, Popping
  <2>2. \A u \in Owners : Popping(u) => cur[u] # p
    BY ONLY <1>0, <1>1 DEF PoppedInv
  <2> QED BY ONLY <1>0, <1>6, <1>8, <1>10, <2>1, <2>2 DEF PoppedInv
<1>13. NodesInv'
  <2>1. \A q : Queued(q) => mNext'[q] = mNext[q]
    BY ONLY <1>5, <1>6 DEF Queued
  <2>2. \A i \in 1 .. Len(nodes) : Queued(nodes[i])'
    <3>1. ASSUME NEW i \in 1 .. Len(nodes) PROVE Queued(nodes[i])'
      <4> PICK q : q = nodes[i]
        OBVIOUS
      <4>1. Queued(q)'
        BY ONLY <1>0, <1>10, q = nodes[i], i \in 1 .. Len(nodes) DEF NodesInv
      <4> QED BY ONLY <1>4, <4>1, q = nodes[i] DEF Queued, Listed, Popped, Popping
    <3> QED BY ONLY <3>1
  <2> QED BY ONLY <1>0, <1>4, <2>1, <2>2 DEF NodesInv
<1>14. ASSUME NEW u \in Owners PROVE Private(u)'
  <2>1. CASE u = t
    BY ONLY <1>3, <1>6, <2>1 DEF Private
  <2>2. CASE u # t
    <3>1. node'[u] = node[u] /\ node[u] \in Ptrs \cup {NoPtr} /\ node[u] # p
      BY ONLY <1>2, <1>3, <1>6, <2>2
    <3> QED BY ONLY <1>0, <1>3, <1>6, <3>1 DEF Private
  <2> QED BY ONLY <2>1, <2>2
<1>15. Keeps({t})
  <2>1. ASSUME NEW q \in Ptrs, Known(q) PROVE Stays(q)
    <3>1. q # p /\ mData'[q] = mData[q] /\ mNext'[q] = mNext[q] /\ status'[q] = status[q]
          /\ holders' = holders
      BY ONLY <1>1, <1>5, <1>6, <2>1 DEF Known
    <3>2. \A u : Held(u, q) => Held(u, q)'
      BY ONLY <3>1 DEF Held
    <3> QED BY ONLY <1>4, <1>10, <2>1, <3>1, <3>2 DEF Stays
  <2>2. \A u \in Owners : Unvalidated(u) /\ cur[u] \in Ptrs /\ status[cur[u]] = "free" =>
          status'[cur[u]] = "free"
    BY ONLY <1>1, <1>6
  <2>3. Listed(mTail)'
    BY ONLY <1>11 DEF LinksInv
  <2> QED BY ONLY <2>1, <2>2, <2>3, Moves(t) DEF Keeps, Moves
<1> QED BY ONLY <1>11, <1>12, <1>13, <1>14, <1>15 DEF SharedInv

(* Thread t appends its node n to the last node c.                         *)
LEMMA LinkKeeps ==
  ASSUME TypeOK, SharedInv, NEW t \in Owners, NEW c, c = cur[t], NEW n, n = node[t],
         Known(c), mNext[c] = NoPtr, mData[c] # NoValue, n # NoPtr, Link(t),
         UNCHANGED <<rvars, mHead, mTail, mData, cur, reused>>, Moves(t),
         ~ Popping(t), ~ Popping(t)'
  PROVE  SharedInv' /\ Keeps({t})
<1>0. LinksInv /\ PoppedInv /\ NodesInv /\ \A u \in Owners : Private(u)
  BY ONLY SharedInv DEF SharedInv
<1>1. /\ mNext' = [mNext EXCEPT ![c] = n] /\ nodes' = Append(nodes, n)
      /\ node' = [node EXCEPT ![t] = NoPtr]
  BY ONLY Link(t), c = cur[t], n = node[t], mNext[c] = NoPtr DEF Link
<1>2. /\ status' = status /\ slot' = slot /\ holders' = holders /\ mHead' = mHead
      /\ mTail' = mTail /\ mData' = mData /\ cur' = cur /\ reused' = reused
  BY ONLY UNCHANGED <<rvars, mHead, mTail, mData, cur, reused>> DEF rvars
<1>3. /\ node \in [Owners -> Ptrs \cup {NoPtr}] /\ mNext \in [Ptrs -> Ptrs \cup {NoPtr}]
      /\ n \in Ptrs /\ c \in Ptrs /\ nodes \in Seq(Ptrs)
  BY ONLY TypeOK, n = node[t], n # NoPtr, t \in Owners, Known(c) DEF TypeOK, Known, Listed
<1>4. /\ ~ Listed(n) /\ status[n] = "live" /\ mNext[n] = NoPtr /\ Listed(c) /\ c # n
      /\ \A u \in Owners \ {t} : node[u] # n
  BY ONLY <1>0, n = node[t], n # NoPtr, t \in Owners, Known(c) DEF Private, Listed, Known
<1>5. c = mTail /\ Queued(c)
  <2>1. c = mTail
    BY ONLY <1>0, <1>3, Known(c), mNext[c] = NoPtr DEF LinksInv, Passed
  <2> QED BY ONLY <1>0, <1>4, <2>1 DEF PoppedInv, Passed, Queued, Listed
<1>6. /\ \A p \in Ptrs : p # c => mNext'[p] = mNext[p]
      /\ mNext'[c] = n /\ node'[t] = NoPtr
      /\ \A u \in Owners \ {t} : node'[u] = node[u]
  BY ONLY <1>1, <1>3, t \in Owners
<1>7. \A q : Listed(q)' <=> (Listed(q) \/ q = n)
  BY ONLY <1>2, <1>3, <1>4, <1>6, n = node[t], NoPtrAssumption, t \in Owners DEF Listed
<1>8. \A u \in Owners : (Popping(u)' <=> Popping(u)) /\ cur'[u] = cur[u]
  BY ONLY <1>2, Moves(t), ~ Popping(t), ~ Popping(t)' DEF Moves, Popping
<1>9. \A q : Popped(q)' <=> Popped(q)
  BY ONLY <1>2, <1>8 DEF Popped
<1>10. /\ \A q : Listed(q) => q \in Ptrs /\ q # n /\ q # NoPtr
       /\ \A q : /\ (Known(q)' <=> Known(q)) /\ (Passed(q)' <=> Passed(q))
                 /\ (Queued(q)' <=> Queued(q) \/ q = n) /\ (Reached(q)' <=> Reached(q))
       /\ ~ Popped(n)
  <2>1. \A q : Listed(q) => q \in Ptrs /\ q # n /\ q # NoPtr
    BY ONLY <1>4, NoPtrAssumption DEF Listed
  <2>2. ~ Popped(n)
    BY ONLY <1>0, <1>3, <1>4 DEF PoppedInv, Passed, Known
  <2> QED BY ONLY <1>2, <1>5, <1>6, <1>7, <1>9, <2>1, <2>2, mNext[c] = NoPtr
          DEF Known, Passed, Queued, Reached
<1>11. LinksInv'
  <2>1. ASSUME NEW p \in Ptrs, Queued(p)', mNext'[p] # NoPtr PROVE Queued(mNext[p])'
    <3> PICK q : q = mNext'[p]
      OBVIOUS
    <3>1. Queued(q) \/ q = n
      BY ONLY <1>0, <1>4, <1>6, <1>10, <2>1, q = mNext'[p] DEF LinksInv
    <3>2. Queued(q)'
      BY ONLY <1>10, <3>1
    <3> QED BY ONLY <3>2, q = mNext'[p] DEF Queued, Listed, Popped, Popping
  <2>2. ASSUME NEW p \in Ptrs, NEW q \in Ptrs, Queued(p)', Queued(q)',
               mNext'[p] = mNext'[q], mNext'[p] # NoPtr
        PROVE  p = q
    <3>1. \A r \in Ptrs : Queued(r) => mNext[r] # n
      BY ONLY <1>0, <1>3, <1>4, NoPtrAssumption DEF LinksInv, Queued
    <3>2. (p = n => mNext'[p] = NoPtr) /\ (q = n => mNext'[q] = NoPtr)
      BY ONLY <1>4, <1>6
    <3>3. Queued(p) /\ Queued(q)
      BY ONLY <1>10, <2>2, <3>2
    <3> QED BY ONLY <1>0, <1>6, <2>2, <3>1, <3>3 DEF LinksInv
  <2>3. ASSUME NEW p \in Ptrs, Passed(p)' PROVE mNext'[p] # NoPtr /\ mData'[p] # NoValue
    BY ONLY <1>0, <1>2, <1>3, <1>6, <1>10, <2>3, n # NoPtr DEF LinksInv
  <2>4. Listed(mTail)' /\ mData'[mTail'] # NoValue /\ mNext'[mNext'[mTail']] = NoPtr
    BY ONLY <1>2, <1>3, <1>4, <1>5, <1>6, <1>7, mData[c] # NoValue
  <2>5. Known(mHead)' /\ ~ Popped(mHead)'
    BY ONLY <1>0, <1>2, <1>9, <1>10 DEF LinksInv
  <2>6. ASSUME NEW p \in Ptrs, Queued(p)' PROVE mNext'[p] # mHead'
    <3>1. mHead # n /\ mHead # NoPtr
      BY ONLY <1>0, <1>4, <1>10 DEF LinksInv, Known
    <3>2. \A r \in Ptrs : Queued(r) => mNext[r] # mHead
      BY ONLY <1>0 DEF LinksInv
    <3> QED BY ONLY <1>2, <1>4, <1>6, <1>10, <2>6, <3>1, <3>2
  <2> QED BY ONLY <2>1, <2>2, <2>3, <2>4, <2>5, <2>6 DEF LinksInv
<1>12. PoppedInv'
  BY ONLY <1>0, <1>2, <1>8, <1>9, <1>10 DEF PoppedInv
<1>13. NodesInv'
  <2> PICK k : k = Len(nodes)
    OBVIOUS
  <2>1. /\ k \in Nat /\ k > 0 /\ mHead = nodes[1]
        /\ \A i \in 1 .. k : nodes[i] \in Ptrs /\ Queued(nodes[i])
        /\ \A i \in 1 .. k : mNext[nodes[i]] = IF i = k THEN NoPtr ELSE nodes[i + 1]
    BY ONLY <1>0, <1>3, k = Len(nodes), EmptySeq DEF NodesInv
  <2>2. PICK i \in 1 .. k : mTail = nodes[i]
    BY ONLY <1>0, k = Len(nodes) DEF NodesInv
  <2>3. mTail = nodes[k]
    <3>1. i # k => i + 1 \in 1 .. k
      BY ONLY <2>1
    <3> QED BY ONLY <1>5, <2>1, <2>2, <3>1, mNext[c] = NoPtr, NoPtrAssumption
  <2>4. /\ nodes' # <<>> /\ Len(nodes') = k + 1 /\ nodes'[k + 1] = n
        /\ \A j \in 1 .. k : nodes'[j] = nodes[j]
    BY ONLY <1>1, <1>3, <2>1, k = Len(nodes), AppendProperties
  <2>5. ASSUME NEW j \in 1 .. k + 1
        PROVE  mNext'[nodes'[j]] = IF j = k + 1 THEN NoPtr ELSE nodes'[j + 1]
    <3>1. CASE j = k + 1
      BY ONLY <1>3, <1>4, <1>6, <2>4, <3>1
    <3>2. CASE j = k
      BY ONLY <1>5, <1>6, <2>1, <2>3, <2>4, <3>2
    <3>3. CASE j < k
      <4>1. j \in 1 .. k /\ j + 1 \in 1 .. k /\ j # k /\ j # k + 1
        BY ONLY <2>1, <3>3, j \in 1 .. k + 1
      <4>2. mNext[nodes[j]] = nodes[j + 1] /\ nodes[j] \in Ptrs /\ nodes[j + 1] \in Ptrs
        BY ONLY <2>1, <4>1
      <4>3. nodes[j] # c
        BY ONLY <4>2, mNext[c] = NoPtr, NoPtrAssumption
      <4> QED BY ONLY <1>6, <2>4, <4>1, <4>2, <4>3
    <3> QED BY ONLY <2>1, <3>1, <3>2, <3>3, j \in 1 .. k + 1
  <2>6. 1 \in 1 .. k /\ k \in 1 .. k + 1
    BY ONLY <2>1
  <2>7. mHead' = nodes'[1] /\ mTail' = nodes'[k]
    BY ONLY <1>2, <2>1, <2>3, <2>4, <2>6
  <2>8. ASSUME NEW j \in 1 .. k + 1 PROVE Queued(nodes[j])'
    <3> PICK q : q = nodes'[j]
      OBVIOUS
    <3>1. j \in 1 .. k \/ j = k + 1
      BY ONLY <2>1, j \in 1 .. k + 1
    <3>2. Queued(q)'
      BY ONLY <1>10, <2>1, <2>4, <3>1, q = nodes'[j]
    <3> QED BY ONLY <3>2, q = nodes'[j] DEF Queued, Listed, Popped, Popping
  <2> QED BY ONLY <2>4, <2>5, <2>6, <2>7, <2>8 DEF NodesInv
<1>14. ASSUME NEW u \in Owners PROVE Private(u)'
  <2>1. CASE u = t
    BY ONLY <1>6, <2>1 DEF Private
  <2>2. CASE u # t
    <3>1. node'[u] = node[u] /\ node[u] \in Ptrs \cup {NoPtr} /\ node[u] # c /\ Private(u)
      BY ONLY <1>0, <1>3, <1>4, <1>6, <2>2, u \in Owners DEF Listed
    <3>2. node[u] # NoPtr => node'[t] # node[u]
      BY ONLY <1>6
    <3> QED BY ONLY <1>2, <1>6, <2>2, <3>1, <3>2 DEF Private
  <2> QED BY ONLY <2>1, <2>2
<1>15. Keeps({t})
  <2>1. ASSUME NEW q \in Ptrs, Known(q)
        PROVE  Stays(q)
    <3>1. \A u : Held(u, q) => Held(u, q)'
      BY ONLY <1>2 DEF Held
    <3> QED BY ONLY <1>2, <1>6, <1>10, <2>1, <3>1, mNext[c] = NoPtr DEF Stays
  <2> QED BY ONLY <1>2, <1>11, <2>1, Moves(t) DEF Keeps, Moves, LinksInv
<1> QED BY ONLY <1>11, <1>12, <1>13, <1>14, <1>15 DEF SharedInv

(* Thread t advances the tail to the node n behind it.                     *)
LEMMA SwingKeeps ==
  ASSUME TypeOK, SharedInv, NEW t \in Owners, mTail' = mNext[mTail], mNext[mTail] # NoPtr,
         UNCHANGED <<rvars, mHead, mNext, mData, nodes, cur, node, reused>>, Moves(t),
         ~ Popping(t), ~ Popping(t)'
  PROVE  SharedInv' /\ Keeps({t})
<1>0. LinksInv /\ PoppedInv /\ NodesInv /\ \A u \in Owners : Private(u)
  BY ONLY SharedInv DEF SharedInv
<1>2. /\ status' = status /\ slot' = slot /\ holders' = holders /\ mHead' = mHead
      /\ mNext' = mNext /\ mData' = mData /\ cur' = cur /\ reused' = reused /\ node' = node
      /\ nodes' = nodes
  BY ONLY UNCHANGED <<rvars, mHead, mNext, mData, nodes, cur, node, reused>> DEF rvars
<1>3. /\ Listed(mTail) /\ mTail \in Ptrs /\ Queued(mNext[mTail]) /\ mNext[mTail] \in Ptrs
      /\ mData[mTail] # NoValue /\ mNext[mNext[mTail]] = NoPtr /\ mTail # mNext[mTail]
      /\ Listed(mNext[mTail])
  <2>1. Queued(mTail)
    BY ONLY <1>0 DEF LinksInv, PoppedInv, Passed, Queued, Listed
  <2> QED BY ONLY <1>0, <2>1, mNext[mTail] # NoPtr DEF LinksInv, Listed, Queued
<1>4. /\ \A q : Listed(q)' <=> Listed(q)
      /\ \A q : Listed(q) => q \in Ptrs /\ q # NoPtr
  BY ONLY <1>2, NoPtrAssumption DEF Listed
<1>5. \A u \in Owners : (Popping(u)' <=> Popping(u)) /\ cur'[u] = cur[u]
  BY ONLY <1>2, Moves(t), ~ Popping(t), ~ Popping(t)' DEF Moves, Popping
<1>6. \A q : /\ Popped(q)' <=> Popped(q)
             /\ Queued(q)' <=> Queued(q)
             /\ Reached(q)' <=> Reached(q)
  <2>1. \A q : Popped(q)' <=> Popped(q)
    BY ONLY <1>2, <1>5 DEF Popped
  <2> QED BY ONLY <1>2, <1>4, <2>1 DEF Queued, Reached
<1>7. mNext'[mTail'] = NoPtr
  BY ONLY <1>2, <1>3, mTail' = mNext[mTail]
<1>8. \A q : /\ Known(q) => Known(q)'
             /\ Passed(q) => Passed(q)'
             /\ Passed(q)' => Passed(q) \/ q = mTail
             /\ Known(q)' => Listed(q)
  BY ONLY <1>2, <1>3, <1>4, <1>7, mTail' = mNext[mTail] DEF Known, Passed
<1>9. LinksInv'
  <2>1. ASSUME NEW p \in Ptrs, Passed(p)' PROVE mNext'[p] # NoPtr /\ mData'[p] # NoValue
    BY ONLY <1>0, <1>2, <1>3, <1>8, <2>1, mNext[mTail] # NoPtr DEF LinksInv
  <2>2. Listed(mTail)'
    BY ONLY <1>3, <1>4, mTail' = mNext[mTail]
  <2>3. Known(mHead)' /\ ~ Popped(mHead)'
    BY ONLY <1>0, <1>2, <1>6, <1>8 DEF LinksInv
  <2> QED BY ONLY <1>0, <1>2, <1>4, <1>6, <1>7, <2>1, <2>2, <2>3 DEF LinksInv
<1>10. PoppedInv'
  BY ONLY <1>0, <1>2, <1>5, <1>6, <1>8 DEF PoppedInv
<1>11. NodesInv'
  <2>1. PICK i \in 1 .. Len(nodes) : mTail = nodes[i]
    BY ONLY <1>0 DEF NodesInv
  <2>2. i # Len(nodes) /\ mTail' = nodes[i + 1]
    BY ONLY <1>0, <2>1, mTail' = mNext[mTail], mNext[mTail] # NoPtr DEF NodesInv
  <2>3. i + 1 \in 1 .. Len(nodes)
    <3>1. Len(nodes) \in Nat
      BY ONLY TypeOK, LenProperties DEF TypeOK
    <3> QED BY ONLY <2>1, <2>2, <3>1
  <2> QED BY ONLY <1>0, <1>2, <1>6, <2>2, <2>3 DEF NodesInv
<1>12. \A u \in Owners : Private(u)'
  BY ONLY <1>0, <1>2 DEF Private
<1>13. Keeps({t})
  <2>1. ASSUME NEW q \in Ptrs, Known(q)
        PROVE  Stays(q)
    <3>1. \A u : Held(u, q) => Held(u, q)'
      BY ONLY <1>2 DEF Held
    <3>2. q # mTail'
      BY ONLY <2>1, mTail' = mNext[mTail] DEF Known
    <3> QED BY ONLY <1>2, <1>6, <1>8, <2>1, <3>1, <3>2 DEF Stays
  <2> QED BY ONLY <1>2, <1>9, <2>1, Moves(t) DEF Keeps, Moves, LinksInv
<1> QED BY ONLY <1>9, <1>10, <1>11, <1>12, <1>13 DEF SharedInv

(* Thread t takes the first node h off the list.                           *)
LEMMA PopKeeps ==
  ASSUME TypeOK, SharedInv, NEW t \in Owners, NEW h, h = mHead, cur[t] = h, h # mTail,
         mHead' = mNext[h], nodes' = SubSeq(nodes, 2, Len(nodes)),
         UNCHANGED <<rvars, mTail, mNext, mData, cur, node, reused>>, Moves(t),
         ~ Popping(t), pc'[t] = "take"
  PROVE  SharedInv' /\ Keeps({t})
<1>0. LinksInv /\ PoppedInv /\ NodesInv /\ \A u \in Owners : Private(u)
  BY ONLY SharedInv DEF SharedInv
<1>2. /\ status' = status /\ slot' = slot /\ holders' = holders /\ mTail' = mTail
      /\ mNext' = mNext /\ mData' = mData /\ cur' = cur /\ reused' = reused /\ node' = node
  BY ONLY UNCHANGED <<rvars, mTail, mNext, mData, cur, node, reused>> DEF rvars
<1> PICK n : n = mNext[h]
  OBVIOUS
<1>3. /\ Passed(h) /\ h \in Ptrs /\ Queued(h) /\ ~ Popped(h) /\ n # NoPtr /\ Queued(n)
      /\ Listed(n) /\ n # mNext[mTail] /\ n \in Ptrs /\ Queued(mTail) /\ mTail \in Ptrs
  <2>1. Passed(h) /\ h \in Ptrs /\ Queued(h) /\ ~ Popped(h)
    BY ONLY <1>0, h = mHead, h # mTail DEF LinksInv, Passed, Known, Listed, Queued
  <2>2. n # NoPtr /\ Queued(n) /\ Listed(n) /\ n \in Ptrs
    BY ONLY <1>0, <2>1, n = mNext[h] DEF LinksInv, Listed, Queued
  <2>3. Queued(mTail) /\ mTail \in Ptrs
    BY ONLY <1>0 DEF LinksInv, PoppedInv, Passed, Queued, Listed
  <2>4. n # mNext[mTail]
    BY ONLY <1>0, <2>1, <2>2, <2>3, n = mNext[h], h # mTail DEF LinksInv
  <2> QED BY ONLY <2>1, <2>2, <2>3, <2>4
<1>4. ~ Popped(n) /\ n # h
  BY ONLY <1>0, <1>3, n = mNext[h], h = mHead DEF LinksInv, Queued
<1>5. /\ \A u \in Owners \ {t} : (Popping(u)' <=> Popping(u))
      /\ Popping(t)' /\ \A u \in Owners : cur'[u] = cur[u]
  BY ONLY <1>2, Moves(t), pc'[t] = "take" DEF Moves, Popping
<1>6. \A q : Popped(q)' <=> (Popped(q) \/ q = h)
  BY ONLY <1>2, <1>3, <1>5, cur[t] = h, ~ Popping(t), t \in Owners DEF Popped
<1>7. \A q : /\ Listed(q)' <=> Listed(q)
             /\ Known(q)' <=> Known(q)
             /\ Passed(q)' <=> Passed(q)
             /\ Queued(q)' <=> (Queued(q) /\ q # h)
             /\ Reached(q) => Reached(q)'
  <2>1. \A q : /\ Listed(q)' <=> Listed(q)
               /\ Known(q)' <=> Known(q)
               /\ Passed(q)' <=> Passed(q)
    BY ONLY <1>2 DEF Listed, Known, Passed
  <2> QED BY ONLY <1>6, <2>1, h = mHead DEF Queued, Reached
<1>8. LinksInv'
  <2>1. Known(n) /\ n = mHead'
    BY ONLY <1>3, n = mNext[h], mHead' = mNext[h] DEF Known
  <2>2. Known(mHead)' /\ ~ Popped(mHead)'
    <3>1. Known(n)' /\ ~ Popped(n)'
      BY ONLY <1>4, <1>6, <1>7, <2>1
    <3> QED BY ONLY <2>1, <3>1 DEF Known, Listed, Popped, Popping
  <2>3. ASSUME NEW p \in Ptrs, Queued(p)' PROVE mNext'[p] # mHead'
    <3>1. Queued(p) /\ p # h
      BY ONLY <1>7, <2>3
    <3>2. mNext[p] # n
      BY ONLY <1>0, <1>3, <3>1, n = mNext[h] DEF LinksInv
    <3> QED BY ONLY <1>2, <2>1, <3>2
  <2>4. /\ \A p, q \in Ptrs :
             Queued(p)' /\ Queued(q)' /\ mNext'[p] = mNext'[q] /\ mNext'[p] # NoPtr => p = q
        /\ Listed(mTail)'
    <3>1. Listed(mTail)'
      BY ONLY <1>0, <1>2, <1>7 DEF LinksInv, Listed
    <3> QED BY ONLY <1>0, <1>2, <1>7, <3>1 DEF LinksInv
  <2>7. ASSUME NEW p \in Ptrs, Queued(p)', mNext'[p] # NoPtr PROVE Queued(mNext[p])'
    <3> PICK q : q = mNext[p]
      OBVIOUS
    <3>1. Queued(q) /\ q # h
      BY ONLY <1>0, <1>2, <1>7, <2>7, q = mNext[p], h = mHead DEF LinksInv
    <3>2. Queued(q)'
      BY ONLY <1>7, <3>1
    <3> QED BY ONLY <1>2, <3>2, q = mNext[p] DEF Queued, Listed, Popped, Popping
  <2>5. \A p \in Ptrs : Passed(p)' => mNext'[p] # NoPtr /\ mData'[p] # NoValue
    BY ONLY <1>0, <1>2, <1>7 DEF LinksInv
  <2>6. mNext'[mTail'] # NoPtr => mData'[mTail'] # NoValue /\ mNext'[mNext'[mTail']] = NoPtr
    BY ONLY <1>0, <1>2 DEF LinksInv
  <2> QED BY ONLY <2>2, <2>3, <2>4, <2>5, <2>6, <2>7 DEF LinksInv
<1>9. PoppedInv'
  <2>1. \A p \in Ptrs : Popped(p)' => Passed(p)'
    BY ONLY <1>0, <1>3, <1>6, <1>7 DEF PoppedInv
  <2>3. status[h] = "live"
    BY ONLY <1>3, TypeOK DEF Passed, Known, Listed, Popped, TypeOK, ReclamationTypeOK
  <2>4. ASSUME NEW u \in Owners, Popping(u)'
        PROVE  /\ cur'[u] \in Ptrs /\ status'[cur'[u]] = "live"
               /\ \A w \in Owners \ {u} : Popping(w)' => cur'[w] # cur'[u]
    <3>1. \A w \in Owners : Popping(w) => cur[w] # h
      BY ONLY <1>3 DEF Popped
    <3>2. /\ u # t => Popping(u)
          /\ \A w \in Owners : Popping(w)' /\ w # t => Popping(w)
      BY ONLY <1>5, <2>4
    <3>3. CASE u = t
      BY ONLY <1>2, <1>3, <2>3, <3>1, <3>2, <3>3, cur[t] = h
    <3>4. CASE u # t
      <4>1. /\ cur[u] \in Ptrs /\ status[cur[u]] = "live" /\ cur[u] # h
            /\ \A w \in Owners \ {u} : Popping(w) => cur[w] # cur[u]
        BY ONLY <1>0, <3>1, <3>2, <3>4, u \in Owners DEF PoppedInv
      <4> QED BY ONLY <1>2, <3>2, <4>1, cur[t] = h
    <3> QED BY ONLY <3>3, <3>4
  <2> QED BY ONLY <2>1, <2>4 DEF PoppedInv
<1>10. NodesInv'
  <2> PICK k : k = Len(nodes)
    OBVIOUS
  <2>1. /\ nodes \in Seq(Ptrs) /\ nodes # <<>> /\ k \in Nat /\ k > 0 /\ mHead = nodes[1]
        /\ \A j \in 1 .. k : mNext[nodes[j]] = IF j = k THEN NoPtr ELSE nodes[j + 1]
        /\ \A j \in 1 .. k : Queued(nodes[j])
    BY ONLY <1>0, TypeOK, k = Len(nodes), EmptySeq, LenProperties DEF NodesInv, TypeOK
  <2>2. PICK i \in 1 .. k : mTail = nodes[i]
    BY ONLY <1>0, k = Len(nodes) DEF NodesInv
  <2>3. i \in 2 .. k /\ k >= 2 /\ i - 1 \in 1 .. k - 1
    <3>1. i # 1
      BY ONLY <2>1, <2>2, h = mHead, h # mTail
    <3> QED BY ONLY <2>1, <2>2, <3>1
  <2>4. Len(nodes') = k - 1 /\ \A j \in 1 .. k - 1 : nodes'[j] = nodes[j + 1]
    BY ONLY <2>1, <2>3, k = Len(nodes), nodes' = SubSeq(nodes, 2, Len(nodes))
  <2>5. nodes' # <<>>
    BY ONLY <2>3, <2>4
  <2>6. mHead' = nodes'[1]
    <3>1. 1 \in 1 .. k - 1 /\ 1 \in 1 .. k /\ 1 # k
      BY ONLY <2>1, <2>3
    <3>2. mNext[nodes[1]] = nodes[2] /\ nodes'[1] = nodes[2]
      BY ONLY <2>1, <2>4, <3>1
    <3> QED BY ONLY <2>1, <3>2, h = mHead, mHead' = mNext[h]
  <2>7. mTail' = nodes'[i - 1]
    BY ONLY <1>2, <2>1, <2>2, <2>3, <2>4
  <2>8. ASSUME NEW j \in 1 .. k - 1
        PROVE  mNext'[nodes'[j]] = IF j = k - 1 THEN NoPtr ELSE nodes'[j + 1]
    <3>1. j + 1 \in 1 .. k /\ (j + 1 = k <=> j = k - 1) /\ (j # k - 1 => j + 1 \in 1 .. k - 1)
      BY ONLY <2>1, j \in 1 .. k - 1
    <3>2. mNext[nodes[j + 1]] = IF j + 1 = k THEN NoPtr ELSE nodes[j + 1 + 1]
      BY ONLY <2>1, <3>1
    <3> QED BY ONLY <1>2, <2>4, <3>1, <3>2
  <2>9. ASSUME NEW j \in 1 .. k - 1 PROVE Queued(nodes[j])'
    <3> PICK q : q = nodes[j + 1]
      OBVIOUS
    <3>1. j \in 1 .. k /\ j + 1 \in 1 .. k /\ j # k
      BY ONLY <2>1, j \in 1 .. k - 1
    <3>2. Queued(q) /\ nodes[j] \in Ptrs /\ Queued(nodes[j]) /\ mNext[nodes[j]] = q
      BY ONLY <2>1, <3>1, q = nodes[j + 1] DEF Queued, Listed
    <3>3. Queued(q)'
      BY ONLY <1>0, <1>7, <3>2, h = mHead DEF LinksInv
    <3> QED BY ONLY <2>4, <3>3, q = nodes[j + 1] DEF Queued, Listed, Popped, Popping
  <2> QED BY ONLY <2>3, <2>4, <2>5, <2>6, <2>7, <2>8, <2>9 DEF NodesInv
<1>11. \A u \in Owners : Private(u)'
  BY ONLY <1>0, <1>2 DEF Private
<1>12. Keeps({t})
  <2>1. ASSUME NEW q \in Ptrs, Known(q)
        PROVE  Stays(q)
    <3>1. \A u : Held(u, q) => Held(u, q)'
      BY ONLY <1>2 DEF Held
    <3> QED BY ONLY <1>2, <1>7, <2>1, <3>1 DEF Stays
  <2> QED BY ONLY <1>2, <1>8, <2>1, Moves(t) DEF Keeps, Moves, LinksInv
<1> QED BY ONLY <1>8, <1>9, <1>10, <1>11, <1>12 DEF SharedInv

(* Thread t hands the node it has taken off the list over to the domain.   *)
LEMMA RetireKeeps ==
  ASSUME TypeOK, SharedInv, NEW t \in Owners, PopRetire(t)
  PROVE  SharedInv' /\ Keeps({t})
<1>0. LinksInv /\ PoppedInv /\ NodesInv /\ \A u \in Owners : Private(u)
  BY ONLY SharedInv DEF SharedInv
<1> PICK c : c = cur[t]
  OBVIOUS
<1>1. /\ pc[t] = "retire" /\ pc' = [pc EXCEPT ![t] = "delete"]
      /\ status' = [status EXCEPT ![c] = IF @ = "live" THEN "retired" ELSE "broken"]
      /\ holders' = [holders EXCEPT ![c] = {o \in Owners : slot[o] = c}]
      /\ slot' = slot /\ mHead' = mHead /\ mTail' = mTail /\ mNext' = mNext /\ mData' = mData
      /\ nodes' = nodes /\ reused' = reused /\ cur' = cur /\ node' = node /\ next' = next
      /\ stored' = stored /\ result' = result
  BY ONLY PopRetire(t), c = cur[t] DEF PopRetire, Retire, Goto, sharedVars, localVars
<1>2. /\ status \in [Ptrs -> {"free", "live", "retired"}] /\ holders \in [Ptrs -> SUBSET Owners]
      /\ pc[t] = "retire" /\ \A u \in Owners \ {t} : pc'[u] = pc[u]
      /\ pc'[t] = "delete"
  BY ONLY <1>1, TypeOK, t \in Owners DEF TypeOK, ReclamationTypeOK
<1>3. /\ Popping(t) /\ ~ Popping(t)' /\ \A u \in Owners \ {t} : Popping(u)' <=> Popping(u)
  BY ONLY <1>2 DEF Popping
<1>4. c \in Ptrs /\ status[c] = "live" /\ \A u \in Owners \ {t} : Popping(u) => cur[u] # c
  BY ONLY <1>0, <1>3, c = cur[t], t \in Owners DEF PoppedInv
<1>5. Popped(c) /\ Listed(c)
  <2>1. Popped(c)
    BY ONLY <1>3, <1>4, c = cur[t], t \in Owners DEF Popped
  <2> QED BY ONLY <1>0, <1>4, <2>1 DEF PoppedInv, Passed, Known
<1>6. /\ status'[c] = "retired" /\ holders'[c] = {o \in Owners : slot[o] = c}
      /\ \A p \in Ptrs : p # c => status'[p] = status[p] /\ holders'[p] = holders[p]
  BY ONLY <1>1, <1>2, <1>4
<1>7. \A q : Popped(q)' <=> Popped(q)
  BY ONLY <1>1, <1>3, <1>4, <1>5, <1>6, c = cur[t] DEF Popped
<1>8. \A q : Listed(q)' <=> Listed(q)
  BY ONLY <1>1, <1>4, <1>6 DEF Listed
<1>9. \A q : /\ (Known(q)' <=> Known(q)) /\ (Passed(q)' <=> Passed(q))
             /\ (Queued(q)' <=> Queued(q)) /\ (Reached(q)' <=> Reached(q))
  BY ONLY <1>1, <1>7, <1>8 DEF Known, Passed, Queued, Reached
<1>10. LinksInv'
  BY ONLY <1>0, <1>1, <1>7, <1>8, <1>9 DEF LinksInv
<1>11. PoppedInv'
  <2>1. ASSUME NEW u \in Owners, Popping(u)'
        PROVE  /\ cur'[u] \in Ptrs /\ status'[cur'[u]] = "live"
               /\ \A w \in Owners \ {u} : Popping(w)' => cur'[w] # cur'[u]
    BY ONLY <1>0, <1>1, <1>3, <1>4, <1>6, <2>1 DEF PoppedInv
  <2> QED BY ONLY <1>0, <1>7, <1>9, <2>1 DEF PoppedInv
<1>12. NodesInv'
  BY ONLY <1>0, <1>1, <1>9 DEF NodesInv
<1>13. ASSUME NEW u \in Owners PROVE Private(u)'
  <2>1. node[u] # c /\ node[u] \in Ptrs \cup {NoPtr}
    BY ONLY <1>5, TypeOK, u \in Owners DEF Listed, TypeOK
  <2> QED BY ONLY <1>0, <1>1, <1>6, <2>1 DEF Private
<1>14. Keeps({t})
  <2>1. ASSUME NEW q \in Ptrs, NEW u \in Owners, slot[u] = q, Held(u, q) PROVE Held(u, q)'
    BY ONLY <1>6, <2>1, u \in Owners DEF Held
  <2>2. \A q \in Ptrs : Known(q) => Stays(q)
    BY ONLY <1>1, <1>9, <2>1 DEF Stays
  <2>3. \A q \in Ptrs : status[q] = "free" => status'[q] = "free"
    BY ONLY <1>4, <1>6
  <2> QED BY ONLY <1>1, <1>2, <1>10, <2>2, <2>3 DEF Keeps, LinksInv
<1> QED BY ONLY <1>10, <1>11, <1>12, <1>13, <1>14 DEF SharedInv

(* The end of an operation deletes a node that was not appended.           *)
LEMMA DeleteUnusedKeeps ==
  ASSUME TypeOK, SharedInv, NEW t \in Owners, DeleteUnused(t)
  PROVE  SharedInv' /\ Keeps({t})
<1>0. LinksInv /\ PoppedInv /\ NodesInv /\ \A u \in Owners : Private(u)
  BY ONLY SharedInv DEF SharedInv
<1> PICK n : n = node[t]
  OBVIOUS
<1>1. /\ pc[t] = "delete" /\ pc' = [pc EXCEPT ![t] = "release"]
      /\ status' = [p \in Ptrs |-> IF p = n THEN "free" ELSE status[p]]
      /\ slot' = slot /\ holders' = holders
      /\ mHead' = mHead /\ mTail' = mTail /\ mNext' = mNext /\ mData' = mData
      /\ nodes' = nodes /\ reused' = reused /\ node' = [node EXCEPT ![t] = NoPtr]
      /\ cur' = [cur EXCEPT ![t] = NoPtr] /\ next' = next
      /\ stored' = [stored EXCEPT ![t] = FALSE] /\ result' = result
  BY ONLY DeleteUnused(t), n = node[t] DEF DeleteUnused, Goto, sharedVars
<1>2. /\ pc'[t] = "release" /\ node'[t] = NoPtr
      /\ \A u \in Owners \ {t} : /\ pc'[u] = pc[u] /\ node'[u] = node[u] /\ cur'[u] = cur[u]
                                 /\ stored'[u] = stored[u]
      /\ \A p \in Ptrs : p # n => status'[p] = status[p]
      /\ n \in Ptrs => status'[n] = "free"
  BY ONLY <1>1, TypeOK, t \in Owners DEF TypeOK
<1>3. ~ Popping(t) /\ ~ Popping(t)' /\ \A u \in Owners \ {t} : Popping(u)' <=> Popping(u)
  BY ONLY <1>1, <1>2 DEF Popping
<1>4. /\ n \in Ptrs \cup {NoPtr} /\ ~ Listed(n)
      /\ n # NoPtr => \A u \in Owners \ {t} : node[u] # n
  BY ONLY <1>0, TypeOK, n = node[t], t \in Owners, NoPtrAssumption
     DEF Private, TypeOK, Listed
<1>5. ~ Popped(n)
  BY ONLY <1>0, <1>4 DEF PoppedInv, Passed, Known, Popped
<1>6. \A q : Listed(q)' <=> Listed(q)
  BY ONLY <1>1, <1>2, <1>4, n = node[t], t \in Owners, NoPtrAssumption DEF Listed
<1>7. \A q : Popped(q)' <=> Popped(q)
  BY ONLY <1>1, <1>2, <1>3, <1>4, <1>5 DEF Popped
<1>8. \A q : /\ (Known(q)' <=> Known(q)) /\ (Passed(q)' <=> Passed(q))
             /\ (Queued(q)' <=> Queued(q)) /\ (Reached(q)' <=> Reached(q))
  BY ONLY <1>1, <1>6, <1>7 DEF Known, Passed, Queued, Reached
<1>9. LinksInv'
  BY ONLY <1>0, <1>1, <1>6, <1>7, <1>8 DEF LinksInv
<1>10. PoppedInv'
  <2>2. ASSUME NEW u \in Owners, Popping(u)'
        PROVE  /\ cur'[u] \in Ptrs /\ status'[cur'[u]] = "live"
               /\ \A w \in Owners \ {u} : Popping(w)' => cur'[w] # cur'[u]
    <3>1. u # t /\ Popping(u)
      BY ONLY <1>3, <2>2
    <3>2. cur[u] \in Ptrs /\ status[cur[u]] = "live"
          /\ \A w \in Owners \ {u} : Popping(w) => cur[w] # cur[u]
      BY ONLY <1>0, <3>1, u \in Owners DEF PoppedInv
    <3>3. cur[u] # n
      BY ONLY <1>5, <3>1, <3>2, u \in Owners DEF Popped
    <3> QED BY ONLY <1>2, <1>3, <3>1, <3>2, <3>3
  <2> QED BY ONLY <1>0, <1>7, <1>8, <2>2 DEF PoppedInv
<1>11. NodesInv'
  BY ONLY <1>0, <1>1, <1>8 DEF NodesInv
<1>12. ASSUME NEW u \in Owners PROVE Private(u)'
  <2>1. CASE u = t
    BY ONLY <1>2, <2>1 DEF Private
  <2>2. CASE u # t
    <3>1. node'[u] = node[u] /\ node[u] \in Ptrs \cup {NoPtr} /\ (node[u] # NoPtr => node[u] # n)
      BY ONLY <1>2, <1>4, <2>2, TypeOK, u \in Owners DEF TypeOK
    <3>2. \A w \in Owners : node'[w] = NoPtr \/ node'[w] = node[w]
      BY ONLY <1>2
    <3> QED BY ONLY <1>0, <1>1, <1>2, <3>1, <3>2 DEF Private
  <2> QED BY ONLY <2>1, <2>2
<1>13. Keeps({t})
  <2>1. ASSUME NEW q \in Ptrs, Known(q), NEW u \in Owners, Held(u, q) PROVE Held(u, q)'
    BY ONLY <1>1, <1>2, <1>4, <2>1 DEF Held, Known
  <2>2. \A q \in Ptrs : Known(q) => Stays(q)
    BY ONLY <1>1, <1>8, <2>1 DEF Stays
  <2>3. \A q \in Ptrs : status[q] = "free" => status'[q] = "free"
    BY ONLY <1>2
  <2> QED BY ONLY <1>1, <1>2, <1>9, <2>2, <2>3 DEF Keeps, LinksInv
<1> QED BY ONLY <1>9, <1>10, <1>11, <1>12, <1>13 DEF SharedInv

(* The domain deletes a node, which nobody holds.                          *)
LEMMA ReclaimKeeps ==
  ASSUME TypeOK, SharedInv, NEW p \in Ptrs, Reclaim(p)
  PROVE  SharedInv' /\ Keeps({}) /\ UNCHANGED <<pc, localVars>>
<1>0. LinksInv /\ PoppedInv /\ NodesInv /\ \A u \in Owners : Private(u)
  BY ONLY SharedInv DEF SharedInv
<1>1. /\ status[p] = "retired" /\ holders[p] = {} /\ status' = [status EXCEPT ![p] = "free"]
      /\ slot' = slot /\ holders' = holders
      /\ mHead' = mHead /\ mTail' = mTail /\ mNext' = mNext /\ mData' = mData
      /\ nodes' = nodes /\ cur' = cur /\ node' = node /\ next' = next
      /\ stored' = stored /\ result' = result /\ pc' = pc
  BY ONLY Reclaim(p) DEF Reclaim, Free, sharedVars, localVars
<1>2. status'[p] = "free" /\ \A q \in Ptrs : q # p => status'[q] = status[q]
  BY ONLY <1>1, TypeOK DEF TypeOK, ReclamationTypeOK
<1>3. Popped(p) /\ Listed(p) /\ p # mTail /\ p # mHead
  <2>1. Popped(p)
    BY ONLY <1>1, p \in Ptrs DEF Popped
  <2> QED BY ONLY <1>0, <2>1, p \in Ptrs DEF PoppedInv, Passed, Known, LinksInv
<1>4. /\ \A u \in Owners : (Popping(u)' <=> Popping(u))
      /\ \A u \in Owners : Popping(u) => cur[u] # p
  BY ONLY <1>0, <1>1 DEF Popping, PoppedInv
<1>5. /\ ~ Popped(p)' /\ ~ Listed(p)'
      /\ \A q : q # p => (Popped(q)' <=> Popped(q)) /\ (Listed(q)' <=> Listed(q))
  BY ONLY <1>1, <1>2, <1>4 DEF Popped, Listed
<1>6. /\ \A q : Queued(q)' <=> Queued(q)
      /\ \A q : q # p => /\ (Known(q)' <=> Known(q)) /\ (Passed(q)' <=> Passed(q))
                         /\ (Reached(q)' <=> Reached(q))
      /\ ~ Passed(p)'
  BY ONLY <1>1, <1>3, <1>5 DEF Known, Passed, Queued, Reached
<1>7. LinksInv'
  <2>1. /\ \A q \in Ptrs : Queued(q)' /\ mNext'[q] # NoPtr => Queued(mNext[q])'
        /\ \A q, r \in Ptrs :
             Queued(q)' /\ Queued(r)' /\ mNext'[q] = mNext'[r] /\ mNext'[q] # NoPtr => q = r
        /\ \A q \in Ptrs : Queued(q)' => mNext'[q] # mHead'
    <3>1. ASSUME NEW q \in Ptrs, Queued(q)', mNext'[q] # NoPtr PROVE Queued(mNext[q])'
      <4> PICK r : r = mNext[q]
        OBVIOUS
      <4>1. Queued(r)'
        BY ONLY <1>0, <1>1, <1>6, <3>1, r = mNext[q] DEF LinksInv
      <4> QED BY ONLY <1>1, <4>1, r = mNext[q] DEF Queued, Listed, Popped, Popping
    <3> QED BY ONLY <1>0, <1>1, <1>6, <3>1 DEF LinksInv
  <2>2. \A q \in Ptrs : Passed(q)' => mNext'[q] # NoPtr /\ mData'[q] # NoValue
    BY ONLY <1>0, <1>1, <1>6 DEF LinksInv
  <2>3. Listed(mTail)' /\ Known(mHead)' /\ ~ Popped(mHead)'
    <3>1. PICK h, m : h = mHead /\ m = mTail
      OBVIOUS
    <3>2. Listed(m)' /\ Known(h)' /\ ~ Popped(h)'
      BY ONLY <1>0, <1>3, <1>5, <1>6, <3>1 DEF LinksInv
    <3> QED BY ONLY <1>1, <3>1, <3>2 DEF Listed, Known, Popped, Popping
  <2>4. mNext'[mTail'] # NoPtr => mData'[mTail'] # NoValue /\ mNext'[mNext'[mTail']] = NoPtr
    BY ONLY <1>0, <1>1 DEF LinksInv
  <2> QED BY ONLY <2>1, <2>2, <2>3, <2>4 DEF LinksInv
<1>8. PoppedInv'
  BY ONLY <1>0, <1>1, <1>2, <1>4, <1>5, <1>6 DEF PoppedInv
<1>9. NodesInv'
  <2>1. \A i \in 1 .. Len(nodes) : Queued(nodes[i])'
    <3>1. ASSUME NEW i \in 1 .. Len(nodes) PROVE Queued(nodes[i])'
      <4> PICK q : q = nodes[i]
        OBVIOUS
      <4>1. Queued(q)'
        BY ONLY <1>0, <1>6, q = nodes[i], i \in 1 .. Len(nodes) DEF NodesInv
      <4> QED BY ONLY <1>1, <4>1, q = nodes[i] DEF Queued, Listed, Popped, Popping
    <3> QED BY ONLY <3>1
  <2> QED BY ONLY <1>0, <1>1, <2>1 DEF NodesInv
<1>10. ASSUME NEW u \in Owners PROVE Private(u)'
  <2>1. node[u] # p /\ node[u] \in Ptrs \cup {NoPtr}
    BY ONLY <1>3, TypeOK, u \in Owners DEF Listed, TypeOK
  <2> QED BY ONLY <1>0, <1>1, <1>2, <2>1 DEF Private
<1>11. Keeps({})
  <2>1. Deleted(p)
    BY ONLY <1>1, <1>2 DEF Deleted, Held
  <2>2. ASSUME NEW q \in Ptrs, Known(q), q # p PROVE Stays(q)
    <3>1. \A u \in Owners : Held(u, q) => Held(u, q)'
      BY ONLY <1>1, <1>2, <2>2 DEF Held
    <3> QED BY ONLY <1>1, <1>6, <2>2, <3>1 DEF Stays
  <2>3. \A q \in Ptrs : status[q] = "free" => status'[q] = "free"
    BY ONLY <1>2
  <2> QED BY ONLY <1>1, <1>7, <2>1, <2>2, <2>3 DEF Keeps, LinksInv
<1> QED BY ONLY <1>1, <1>7, <1>8, <1>9, <1>10, <1>11 DEF SharedInv, localVars

-----------------------------------------------------------------------------
(* The invariant is inductive.                                             *)

Labels == {"idle"} \cup PushPcs \cup AfterPushPcs \cup PopPcs \cup EndPcs

Types ==
  /\ ReclamationTypeOK
  /\ {mHead, mTail} \subseteq Ptrs \cup {NoPtr}
  /\ mNext \in [Ptrs -> Ptrs \cup {NoPtr}]
  /\ mData \in [Ptrs -> Values \cup {NoValue}]
  /\ pc \in [Owners -> Labels]
  /\ cur \in [Owners -> Ptrs \cup {NoPtr}]
  /\ node \in [Owners -> Ptrs \cup {NoPtr}]
  /\ next \in [Owners -> Ptrs \cup {NoPtr}]
  /\ stored \in [Owners -> BOOLEAN]
  /\ result \in [Owners -> Values \cup {NoValue}]
  /\ owed \subseteq Values /\ nodes \in Seq(Ptrs) /\ reused \in BOOLEAN

TypesAndLocals == Types /\ \A t \in Owners : LocalInv(t)

LEMMA TypesOK == TypesAndLocals => TypeOK
<1> SUFFICES ASSUME Types, \A t \in Owners : LocalInv(t) PROVE TypeOK
  BY DEF TypesAndLocals
<1>1. ASSUME NEW t \in Owners
      PROVE  /\ pc[t] \in {"p-data", "p-link", "p-tail", "next", "cas"} => cur[t] # NoPtr
             /\ pc[t] \in {"p-tail", "cas", "e-tail"} => next[t] # NoPtr
  <2>1. pc[t] \in Safe => cur[t] # NoPtr
    BY ONLY \A u \in Owners : LocalInv(u), t \in Owners, NoPtrAssumption
       DEF LocalInv, Known, Listed
  <2>2. pc[t] \in Linked => next[t] # NoPtr
    BY ONLY \A u \in Owners : LocalInv(u), t \in Owners DEF LocalInv
  <2> QED BY ONLY <2>1, <2>2 DEF Safe, Linked
<1> QED BY ONLY <1>1, Types DEF Types, TypeOK, Labels

LEMMA Finish ==
  ASSUME IInv, NEW t \in Owners, SharedInv', Keeps({t}), Types',
         LocalInv(t)', NodeInv(t)', ResultInv(t)'
  PROVE  IInv'
<1>1. ASSUME NEW u \in Owners PROVE LocalInv(u)' /\ NodeInv(u)' /\ ResultInv(u)'
  <2>1. CASE u = t
    <3>1. \A x : x = t => LocalInv(x)' /\ NodeInv(x)' /\ ResultInv(x)'
      BY ONLY LocalInv(t)', NodeInv(t)', ResultInv(t)'
    <3> QED BY ONLY <2>1, <3>1
  <2>2. CASE u # t
    <3>1. u \in Owners \ {t} /\ LocalInv(u) /\ NodeInv(u) /\ ResultInv(u)
      BY ONLY <2>2, u \in Owners, IInv DEF IInv
    <3> QED BY ONLY <3>1, Keeps({t}), OthersKeep
  <2> QED BY ONLY <2>1, <2>2
<1>2. TypeOK'
  <2>1. TypesAndLocals'
    BY ONLY <1>1, Types' DEF TypesAndLocals
  <2> QED BY ONLY <2>1, TypesOK, PTL
<1> QED BY ONLY <1>1, <1>2, SharedInv' DEF IInv

(* The function g is f but for the value x at t.                           *)
Becomes(f, t, x, g) == g = [f EXCEPT ![t] = x] \/ (g = f /\ x = f[t])

(* What thread t may find when it goes to label l with local variables c,  *)
(* n, s and v, and the address a in its hazard pointer.                    *)
Fits(t, l, c, n, s, v, a) ==
  /\ l \in Labels /\ {c, n} \subseteq Ptrs \cup {NoPtr}
  /\ s \in BOOLEAN /\ v \in Values \cup {NoValue}
  /\ l \in {"take", "retire"} <=> Popping(t)
  /\ Popping(t) => c = cur[t]
  /\ l \in Loaded => c \in Ptrs
  /\ l \in {"store", "tail", "check"} => status[c] = "free" \/ (Known(c) /\ Reached(c))
  /\ l \in {"check", "next", "cas"} => c # mTail
  /\ l \in Announced => a = c
  /\ l \in Safe => Known(c) /\ Held(t, c) /\ slot[t] = c
  /\ l \in Linked => n = mNext[c] /\ n # NoPtr
  /\ l \in Headed => Reached(c)
  /\ l \in PushPcs \cup {"p-link", "e-link"} => node[t] # NoPtr
  /\ l = "p-tail" => s \/ node[t] # NoPtr
  /\ l \in {"idle", "p-alloc", "e-alloc", "release", "done"} => node[t] = NoPtr
  /\ l \in {"idle", "empty", "take"} \cup PopPcs => v = NoValue
  /\ l \in PushPcs \cup AfterPushPcs => IF s THEN v = NoValue ELSE v \in Values
  /\ s => l \in {"p-link", "p-tail", "delete"} /\ v = NoValue

(* A step of thread t that changes no link.                                *)
OwnStep(t, l, c, n, s, v, a) ==
  /\ UNCHANGED <<status, mHead, mTail, mNext, node, nodes, reused>>
  /\ \/ UNCHANGED <<slot, holders>> /\ a = slot[t]
     \/ a \in Ptrs \cup {NoPtr} /\ Announce(t, a)
  /\ Goto(t, l)
  /\ Becomes(cur, t, c, cur') /\ Becomes(next, t, n, next')
  /\ Becomes(stored, t, s, stored') /\ Becomes(result, t, v, result')
  /\ l \in Full => mData'[c] # NoValue

LEMMA OwnStepKeeps ==
  ASSUME IInv, NEW t \in Owners, NEW l, NEW c, NEW n, NEW s, NEW v, NEW a,
         OwnStep(t, l, c, n, s, v, a), Fits(t, l, c, n, s, v, a),
         mData' \in [Ptrs -> Values \cup {NoValue}], owed' \subseteq Values,
         \A p \in Ptrs :
           mData'[p] = mData[p] \/ (Listed(p) /\ mData[p] = NoValue /\ mData'[p] # NoValue)
  PROVE  IInv' /\ pc'[t] = l /\ cur'[t] = c /\ next'[t] = n /\ stored'[t] = s /\ result'[t] = v
<1>0. TypeOK /\ SharedInv
  BY ONLY IInv DEF IInv
<1>1. /\ status' = status /\ mHead' = mHead /\ mTail' = mTail /\ mNext' = mNext
      /\ node' = node /\ nodes' = nodes /\ reused' = reused
  BY ONLY OwnStep(t, l, c, n, s, v, a) DEF OwnStep
<1>2. /\ pc' \in [Owners -> Labels] /\ pc'[t] = l /\ \A u \in Owners \ {t} : pc'[u] = pc[u]
  BY ONLY <1>0, t \in Owners, OwnStep(t, l, c, n, s, v, a), Fits(t, l, c, n, s, v, a)
     DEF OwnStep, Fits, Goto, TypeOK, Labels
<1>3. /\ cur' \in [Owners -> Ptrs \cup {NoPtr}] /\ cur'[t] = c
      /\ \A u \in Owners \ {t} : cur'[u] = cur[u]
  BY ONLY <1>0, t \in Owners, OwnStep(t, l, c, n, s, v, a), Fits(t, l, c, n, s, v, a)
     DEF OwnStep, Fits, TypeOK, Becomes
<1>4. /\ next' \in [Owners -> Ptrs \cup {NoPtr}] /\ next'[t] = n
      /\ \A u \in Owners \ {t} : next'[u] = next[u]
  BY ONLY <1>0, t \in Owners, OwnStep(t, l, c, n, s, v, a), Fits(t, l, c, n, s, v, a)
     DEF OwnStep, Fits, TypeOK, Becomes
<1>5. /\ stored' \in [Owners -> BOOLEAN] /\ stored'[t] = s
      /\ \A u \in Owners \ {t} : stored'[u] = stored[u]
  BY ONLY <1>0, t \in Owners, OwnStep(t, l, c, n, s, v, a), Fits(t, l, c, n, s, v, a)
     DEF OwnStep, Fits, TypeOK, Becomes
<1>6. /\ result' \in [Owners -> Values \cup {NoValue}] /\ result'[t] = v
      /\ \A u \in Owners \ {t} : result'[u] = result[u]
  BY ONLY <1>0, t \in Owners, OwnStep(t, l, c, n, s, v, a), Fits(t, l, c, n, s, v, a)
     DEF OwnStep, Fits, TypeOK, Becomes
<1>7. /\ slot' \in [Owners -> Ptrs \cup {NoPtr}] /\ holders' \in [Ptrs -> SUBSET Owners]
      /\ slot'[t] = a /\ \A u \in Owners \ {t} : slot'[u] = slot[u]
      /\ \A q \in Ptrs, u \in Owners :
           slot[u] = q /\ slot'[u] = q /\ u \in holders[q] => u \in holders'[q]
  <2>1. slot \in [Owners -> Ptrs \cup {NoPtr}] /\ holders \in [Ptrs -> SUBSET Owners]
    BY ONLY <1>0 DEF TypeOK, ReclamationTypeOK
  <2>2. CASE UNCHANGED <<slot, holders>> /\ a = slot[t]
    BY ONLY <2>1, <2>2
  <2>3. CASE a \in Ptrs \cup {NoPtr} /\ Announce(t, a)
    BY ONLY <2>1, <2>3, t \in Owners DEF Announce
  <2> QED BY ONLY <2>2, <2>3, OwnStep(t, l, c, n, s, v, a) DEF OwnStep
<1>8. Quiet(t)
  BY ONLY <1>2, <1>3, <1>4, <1>5, <1>6, <1>7 DEF Quiet
<1>9. Same
  <2>1. ASSUME NEW u \in Owners
        PROVE  (Popping(u)' <=> Popping(u)) /\ (Popping(u) => cur'[u] = cur[u])
    <3>1. CASE u = t
      <4>1. (pc'[u] \in {"take", "retire"} <=> Popping(u)) /\ (Popping(u) => cur'[u] = cur[u])
        BY ONLY <1>2, <1>3, <3>1, Fits(t, l, c, n, s, v, a) DEF Fits
      <4> QED BY ONLY <4>1 DEF Popping
    <3>2. CASE u # t
      BY ONLY <1>2, <1>3, <3>2, u \in Owners DEF Popping
    <3> QED BY ONLY <3>1, <3>2
  <2>2. UNCHANGED <<status, mHead, mTail, mNext, node, nodes, reused>>
    BY ONLY <1>1
  <2> QED BY ONLY <2>1, <2>2,
          \A p \in Ptrs :
            mData'[p] = mData[p] \/ (Listed(p) /\ mData[p] = NoValue /\ mData'[p] # NoValue)
          DEF Same
<1>10. SharedInv' /\ Keeps({t})
  <2>1. SharedInv'
    BY ONLY <1>0, <1>9, SameShared
  <2>2. Keeps({t})
    BY ONLY <1>0, <1>8, <1>9, t \in Owners, QuietKeeps
  <2> QED BY ONLY <2>1, <2>2
<1>11. Types'
  <2>1. ReclamationTypeOK' /\ mHead' \in Ptrs \cup {NoPtr} /\ mTail' \in Ptrs \cup {NoPtr}
        /\ mNext' \in [Ptrs -> Ptrs \cup {NoPtr}] /\ node' \in [Owners -> Ptrs \cup {NoPtr}]
        /\ nodes' \in Seq(Ptrs) /\ reused' \in BOOLEAN
    BY ONLY <1>0, <1>1, <1>7 DEF TypeOK, ReclamationTypeOK
  <2> QED BY ONLY <1>2, <1>3, <1>4, <1>5, <1>6, <2>1, owed' \subseteq Values,
          mData' \in [Ptrs -> Values \cup {NoValue}] DEF Types
<1>12. LocalInv(t)'
  <2>1. \A q : (Reached(q)' <=> Reached(q)) /\ (Known(q)' <=> Known(q))
    BY ONLY <1>9, SameNodes
  <2>2. /\ Known(c) => Known(cur[t])'
        /\ Reached(c) => Reached(cur[t])'
    <3>1. (Known(c) => Known(c)') /\ (Reached(c) => Reached(c)')
      BY ONLY <2>1
    <3> QED BY ONLY <1>3, <3>1 DEF Known, Listed, Reached, Popped, Popping
  <2>3. l \in Safe => Known(c) /\ c \in Ptrs /\ Held(t, c) /\ slot[t] = c /\ slot'[t] = c
    BY ONLY <1>7, Fits(t, l, c, n, s, v, a) DEF Fits, Safe, Announced, Known, Listed
  <2>4. l \in Safe => Known(cur[t])' /\ Held(t, cur[t])'
    <3>1. l \in Safe => Held(t, c)'
      BY ONLY <1>1, <1>7, <2>3, t \in Owners DEF Held
    <3> QED BY ONLY <1>3, <2>2, <2>3, <3>1 DEF Held
  <2>5. Unvalidated(t)' => status'[cur'[t]] = "free" \/ (Known(cur[t])' /\ Reached(cur[t])')
    BY ONLY <1>1, <1>2, <1>3, <2>2, Fits(t, l, c, n, s, v, a) DEF Fits, Unvalidated
  <2> QED BY ONLY <1>1, <1>2, <1>3, <1>4, <1>7, <2>2, <2>4, <2>5,
          OwnStep(t, l, c, n, s, v, a), Fits(t, l, c, n, s, v, a) DEF OwnStep, Fits, LocalInv
<1>13. NodeInv(t)'
  BY ONLY <1>1, <1>2, <1>5, Fits(t, l, c, n, s, v, a) DEF Fits, NodeInv
<1>14. ResultInv(t)'
  BY ONLY <1>2, <1>5, <1>6, Fits(t, l, c, n, s, v, a) DEF Fits, ResultInv
<1> QED BY ONLY IInv, t \in Owners, <1>2, <1>3, <1>4, <1>5, <1>6, <1>10, <1>11, <1>12, <1>13, <1>14,
          Finish

(* A node of the queue, which mHead and mTail are, is not retired.         *)
LEMMA UnpoppedLive ==
  ASSUME TypeOK, NEW p, Listed(p), ~ Popped(p)
  PROVE  status[p] = "live"
BY ONLY TypeOK, Listed(p), ~ Popped(p) DEF TypeOK, ReclamationTypeOK, Listed, Popped

(* What the steps of thread t start from.                                  *)
LEMMA Before ==
  ASSUME IInv, NEW t \in Owners
  PROVE  /\ TypeOK /\ LinksInv /\ PoppedInv /\ NodesInv /\ Private(t)
         /\ NodeInv(t) /\ LocalInv(t) /\ ResultInv(t)
         /\ pc[t] \in Labels /\ {cur[t], next[t], node[t], slot[t]} \subseteq Ptrs \cup {NoPtr}
         /\ stored[t] \in BOOLEAN /\ result[t] \in Values \cup {NoValue}
         /\ Known(mHead) /\ mHead \in Ptrs /\ status[mHead] = "live"
         /\ Known(mTail) /\ mTail \in Ptrs /\ status[mTail] = "live"
         /\ \A p : Known(p) => p \in Ptrs
         /\ \A p \in Ptrs : mNext[p] \in Ptrs \cup {NoPtr}
<1>1. /\ TypeOK /\ LinksInv /\ PoppedInv /\ NodesInv /\ Private(t)
      /\ NodeInv(t) /\ LocalInv(t) /\ ResultInv(t)
  BY ONLY IInv, t \in Owners DEF IInv, SharedInv
<1>2. /\ pc[t] \in Labels /\ {cur[t], next[t], node[t], slot[t]} \subseteq Ptrs \cup {NoPtr}
      /\ stored[t] \in BOOLEAN /\ result[t] \in Values \cup {NoValue}
      /\ \A p \in Ptrs : mNext[p] \in Ptrs \cup {NoPtr}
  BY ONLY <1>1, t \in Owners DEF TypeOK, ReclamationTypeOK, Labels
<1>3. \A p : Known(p) => p \in Ptrs
  BY ONLY DEF Known, Listed
<1>4. Known(mHead) /\ ~ Popped(mHead) /\ Listed(mTail) /\ mTail \in Ptrs
  BY ONLY <1>1 DEF LinksInv, Listed
<1>5. Known(mTail)
  <2>1. mNext[mTail] # mTail
    <3>1. mNext[mTail] = mTail => mNext[mTail] # NoPtr /\ mNext[mNext[mTail]] = mTail
      BY ONLY <1>4, NoPtrAssumption
    <3>2. mNext[mTail] # NoPtr => mNext[mNext[mTail]] = NoPtr
      BY ONLY <1>1 DEF LinksInv
    <3> QED BY ONLY <3>1, <3>2, <1>4, NoPtrAssumption
  <2> QED BY ONLY <1>4, <2>1 DEF Known
<1>6. ~ Popped(mTail)
  BY ONLY <1>1, <1>4 DEF PoppedInv, Passed
<1>7. status[mHead] = "live" /\ status[mTail] = "live"
  BY ONLY <1>1, <1>4, <1>6, UnpoppedLive DEF Known
<1> QED BY ONLY <1>1, <1>2, <1>3, <1>4, <1>5, <1>7

LEMMA PcStep ==
  ASSUME IInv, NEW t \in Owners, NEW l, Goto(t, l), UNCHANGED <<rvars, sharedVars, localVars>>,
         Fits(t, l, cur[t], next[t], stored[t], result[t], slot[t]),
         l \in Full => mData[cur[t]] # NoValue
  PROVE  IInv' /\ pc'[t] = l
<1>1. /\ slot' = slot /\ status' = status /\ holders' = holders /\ mHead' = mHead
      /\ mTail' = mTail /\ mNext' = mNext /\ mData' = mData /\ owed' = owed /\ nodes' = nodes
      /\ reused' = reused /\ cur' = cur /\ node' = node /\ next' = next
      /\ stored' = stored /\ result' = result
  BY ONLY UNCHANGED <<rvars, sharedVars, localVars>> DEF rvars, sharedVars, localVars
<1>2. OwnStep(t, l, cur[t], next[t], stored[t], result[t], slot[t])
  BY ONLY <1>1, Goto(t, l), l \in Full => mData[cur[t]] # NoValue DEF OwnStep, Becomes
<1>3. mData' \in [Ptrs -> Values \cup {NoValue}] /\ owed' \subseteq Values
      /\ \A p \in Ptrs :
           mData'[p] = mData[p] \/ (Listed(p) /\ mData[p] = NoValue /\ mData'[p] # NoValue)
  BY ONLY <1>1, IInv DEF IInv, TypeOK
<1> QED BY ONLY IInv, t \in Owners, <1>2, <1>3, OwnStepKeeps,
        Fits(t, l, cur[t], next[t], stored[t], result[t], slot[t])

(* The checks, and the calls and loads that only move the thread on.        *)
LEMMA CheckSteps ==
  ASSUME IInv, NEW t \in Owners,
         PushCheck(t) \/ CallPop(t) \/ PopTail(t) \/ PopCheck(t) \/ EmptyCheck(t) \/ EmptyData(t)
  PROVE  IInv'
<1> USE DEF Labels, PushPcs, AfterPushPcs, PopPcs, EndPcs, Loaded, Safe, Announced, Full,
            Linked, Headed
<1>0. /\ TypeOK /\ LinksInv /\ PoppedInv /\ NodeInv(t) /\ LocalInv(t) /\ ResultInv(t)
      /\ {cur[t], next[t]} \subseteq Ptrs \cup {NoPtr}
      /\ stored[t] \in BOOLEAN /\ result[t] \in Values \cup {NoValue}
      /\ status[mHead] = "live" /\ status[mTail] = "live" /\ Known(mTail) /\ Known(mHead)
  BY ONLY IInv, t \in Owners, Before
<1>1. CASE PushCheck(t)
  <2> DEFINE l == IF mTail = cur[t] THEN "p-data" ELSE "p-load"
  <2>1. pc[t] = "p-check" /\ Goto(t, l) /\ UNCHANGED <<rvars, sharedVars, localVars>>
    BY ONLY <1>1 DEF PushCheck
  <2>2. Fits(t, l, cur[t], next[t], stored[t], result[t], slot[t])
    BY ONLY <1>0, <2>1 DEF Fits, LocalInv, NodeInv, ResultInv, Popping, Held, Unvalidated
  <2> QED BY ONLY IInv, t \in Owners, <2>1, <2>2, PcStep
<1>2. CASE CallPop(t)
  <2>1. pc[t] = "idle" /\ Goto(t, "load") /\ UNCHANGED <<rvars, sharedVars, localVars>>
    BY ONLY <1>2 DEF CallPop
  <2>2. Fits(t, "load", cur[t], next[t], stored[t], result[t], slot[t])
    BY ONLY <1>0, <2>1 DEF Fits, NodeInv, ResultInv, Popping
  <2> QED BY ONLY IInv, t \in Owners, <2>1, <2>2, PcStep
<1>3. CASE PopTail(t)
  <2> DEFINE l == IF mTail = cur[t] THEN "e-check" ELSE "check"
  <2>1. pc[t] = "tail" /\ Goto(t, l) /\ UNCHANGED <<rvars, sharedVars, localVars>>
    BY ONLY <1>3 DEF PopTail
  <2>2. Fits(t, l, cur[t], next[t], stored[t], result[t], slot[t])
    BY ONLY <1>0, <2>1 DEF Fits, LocalInv, ResultInv, Popping, Held, Unvalidated
  <2> QED BY ONLY IInv, t \in Owners, <2>1, <2>2, PcStep
<1>4. CASE PopCheck(t)
  <2> DEFINE l == IF mHead = cur[t] THEN "next" ELSE "load"
  <2>1. pc[t] = "check" /\ Goto(t, l) /\ UNCHANGED <<rvars, sharedVars, localVars>>
    BY ONLY <1>4 DEF PopCheck
  <2>2. Fits(t, l, cur[t], next[t], stored[t], result[t], slot[t])
    BY ONLY <1>0, <2>1 DEF Fits, LocalInv, ResultInv, Popping, Held, Reached, Unvalidated
  <2> QED BY ONLY IInv, t \in Owners, <2>1, <2>2, PcStep
<1>5. CASE EmptyCheck(t)
  <2> DEFINE l == IF mTail = cur[t] THEN "e-data" ELSE "e-release"
  <2>1. pc[t] = "e-check" /\ Goto(t, l) /\ UNCHANGED <<rvars, sharedVars, localVars>>
    BY ONLY <1>5 DEF EmptyCheck
  <2>2. Fits(t, l, cur[t], next[t], stored[t], result[t], slot[t])
    BY ONLY <1>0, <2>1 DEF Fits, LocalInv, ResultInv, Popping, Held, Reached, Unvalidated
  <2> QED BY ONLY IInv, t \in Owners, <2>1, <2>2, PcStep
<1>6. CASE EmptyData(t)
  <2> DEFINE l == IF mData[cur[t]] = NoValue THEN "empty" ELSE "e-next"
  <2>1. pc[t] = "e-data" /\ Goto(t, l) /\ UNCHANGED <<rvars, sharedVars, localVars>>
    BY ONLY <1>6 DEF EmptyData
  <2>2. Fits(t, l, cur[t], next[t], stored[t], result[t], slot[t])
    BY ONLY <1>0, <2>1 DEF Fits, LocalInv, ResultInv, Popping
  <2>3. l \in Full => mData[cur[t]] # NoValue
    BY ONLY <2>1
  <2> QED BY ONLY IInv, t \in Owners, <2>1, <2>2, <2>3, PcStep
<1> QED BY ONLY <1>1, <1>2, <1>3, <1>4, <1>5, <1>6,
        PushCheck(t) \/ CallPop(t) \/ PopTail(t) \/ PopCheck(t) \/ EmptyCheck(t) \/ EmptyData(t)

LEMMA FieldStep ==
  ASSUME IInv, NEW t \in Owners, NEW l, NEW c, NEW n, NEW s, NEW v, NEW a,
         OwnStep(t, l, c, n, s, v, a), Fits(t, l, c, n, s, v, a), UNCHANGED <<mData, owed>>
  PROVE  IInv'
<1>1. mData' \in [Ptrs -> Values \cup {NoValue}] /\ owed' \subseteq Values
      /\ \A p \in Ptrs :
           mData'[p] = mData[p] \/ (Listed(p) /\ mData[p] = NoValue /\ mData'[p] # NoValue)
  BY ONLY IInv, UNCHANGED <<mData, owed>> DEF IInv, TypeOK
<1> QED BY ONLY IInv, t \in Owners, OwnStep(t, l, c, n, s, v, a), Fits(t, l, c, n, s, v, a),
        <1>1, OwnStepKeeps

(* The stores to the hazard pointer.                                       *)
LEMMA AnnounceSteps ==
  ASSUME IInv, NEW t \in Owners,
         PushStore(t) \/ PopStore(t) \/ PopTake(t) \/ EmptyRelease(t) \/ ReleaseHazard(t)
  PROVE  IInv'
<1> USE DEF Labels, PushPcs, AfterPushPcs, PopPcs, EndPcs, Loaded, Safe, Announced, Full,
            Linked, Headed
<1>0. /\ TypeOK /\ NodeInv(t) /\ LocalInv(t) /\ ResultInv(t)
      /\ {cur[t], next[t]} \subseteq Ptrs \cup {NoPtr}
      /\ stored[t] \in BOOLEAN /\ result[t] \in Values \cup {NoValue}
      /\ \A p : Known(p) => p \in Ptrs
  BY ONLY IInv, t \in Owners, Before
<1> DEFINE New(l, v, a) ==
      /\ OwnStep(t, l, cur[t], next[t], stored[t], v, a) /\ UNCHANGED <<mData, owed>>
      /\ Fits(t, l, cur[t], next[t], stored[t], v, a)
<1>a. ASSUME NEW l, NEW v, NEW a, New(l, v, a) PROVE IInv'
  BY ONLY IInv, t \in Owners, <1>a, FieldStep
<1>1. CASE PushStore(t)
  <2>1. pc[t] = "p-store" /\ cur[t] \in Ptrs /\ Goto(t, "p-check") /\ Announce(t, cur[t])
        /\ UNCHANGED <<status, sharedVars, localVars>>
    BY ONLY <1>0, <1>1 DEF PushStore, Announce, LocalInv
  <2>2. OwnStep(t, "p-check", cur[t], next[t], stored[t], result[t], cur[t])
    BY ONLY <1>0, <2>1 DEF OwnStep, Becomes, sharedVars, localVars
  <2>3. Fits(t, "p-check", cur[t], next[t], stored[t], result[t], cur[t])
    BY ONLY <1>0, <2>1 DEF Fits, LocalInv, NodeInv, ResultInv, Popping, Unvalidated
  <2> QED BY ONLY <1>a, <2>1, <2>2, <2>3 DEF sharedVars
<1>2. CASE PopStore(t)
  <2>1. pc[t] = "store" /\ cur[t] \in Ptrs /\ Goto(t, "tail") /\ Announce(t, cur[t])
        /\ UNCHANGED <<status, sharedVars, localVars>>
    BY ONLY <1>0, <1>2 DEF PopStore, Announce, LocalInv
  <2>2. OwnStep(t, "tail", cur[t], next[t], stored[t], result[t], cur[t])
    BY ONLY <1>0, <2>1 DEF OwnStep, Becomes, sharedVars, localVars
  <2>3. Fits(t, "tail", cur[t], next[t], stored[t], result[t], cur[t])
    BY ONLY <1>0, <2>1 DEF Fits, LocalInv, NodeInv, ResultInv, Popping, Unvalidated
  <2> QED BY ONLY <1>a, <2>1, <2>2, <2>3 DEF sharedVars
<1>3. CASE PopTake(t)
  <2> DEFINE v == mData[cur[t]]
  <2>1. /\ pc[t] = "take" /\ Goto(t, "retire") /\ Announce(t, NoPtr)
        /\ result' = [result EXCEPT ![t] = v] /\ UNCHANGED <<status, sharedVars>>
        /\ cur' = cur /\ node' = node /\ next' = next /\ stored' = stored
    BY ONLY <1>3 DEF PopTake, Announce
  <2>2. v \in Values \cup {NoValue}
    <3>1. cur[t] \in Ptrs
      BY ONLY IInv, t \in Owners, <2>1 DEF IInv, SharedInv, PoppedInv, Popping
    <3> QED BY ONLY <1>0, <3>1 DEF TypeOK
  <2> HIDE DEF v
  <2>3. OwnStep(t, "retire", cur[t], next[t], stored[t], v, NoPtr)
    BY ONLY <1>0, <2>1 DEF OwnStep, Becomes, sharedVars
  <2>4. Fits(t, "retire", cur[t], next[t], stored[t], v, NoPtr)
    BY ONLY <1>0, <2>1, <2>2 DEF Fits, ResultInv, Popping
  <2> QED BY ONLY <1>a, <2>1, <2>3, <2>4 DEF sharedVars
<1>4. CASE EmptyRelease(t)
  <2> DEFINE l == IF pc[t] = "empty" THEN "delete" ELSE "load"
  <2>1. pc[t] \in {"e-release", "empty"} /\ Goto(t, l) /\ Announce(t, NoPtr)
        /\ UNCHANGED <<status, sharedVars, localVars>>
    BY ONLY <1>4 DEF EmptyRelease, Announce
  <2>2. l \in {"delete", "load"}
    BY ONLY DEF l
  <2> HIDE DEF l
  <2>3. OwnStep(t, l, cur[t], next[t], stored[t], result[t], NoPtr)
    BY ONLY <1>0, <2>1, <2>2 DEF OwnStep, Becomes, sharedVars, localVars
  <2>4. Fits(t, l, cur[t], next[t], stored[t], result[t], NoPtr)
    BY ONLY <1>0, <2>1, <2>2 DEF Fits, ResultInv, Popping
  <2> QED BY ONLY <1>a, <2>1, <2>3, <2>4 DEF sharedVars
<1>5. CASE ReleaseHazard(t)
  <2>1. pc[t] = "release" /\ Goto(t, "done") /\ Announce(t, NoPtr)
        /\ UNCHANGED <<status, sharedVars, localVars>>
    BY ONLY <1>5 DEF ReleaseHazard, Announce
  <2>2. OwnStep(t, "done", cur[t], next[t], stored[t], result[t], NoPtr)
    BY ONLY <1>0, <2>1 DEF OwnStep, Becomes, sharedVars, localVars
  <2>3. Fits(t, "done", cur[t], next[t], stored[t], result[t], NoPtr)
    BY ONLY <1>0, <2>1 DEF Fits, NodeInv, ResultInv, Popping
  <2> QED BY ONLY <1>a, <2>1, <2>2, <2>3 DEF sharedVars
<1> QED BY ONLY <1>1, <1>2, <1>3, <1>4, <1>5,
        PushStore(t) \/ PopStore(t) \/ PopTake(t) \/ EmptyRelease(t) \/ ReleaseHazard(t)

(* The loads, and the compare-and-swaps that fail.                         *)
LEMMA LoadSteps ==
  ASSUME IInv, NEW t \in Owners,
         \/ PushLoad(t) \/ PopLoad(t) \/ PopNext(t) \/ EmptyNext(t) \/ Return(t)
         \/ PopCAS(t) /\ mHead # cur[t]
         \/ (PushLink(t) \/ EmptyLink(t)) /\ mNext[cur[t]] # NoPtr
         \/ (PushTail(t) \/ EmptyTail(t)) /\ mTail # cur[t]
  PROVE  IInv'
<1> USE DEF Labels, PushPcs, AfterPushPcs, PopPcs, EndPcs, Loaded, Safe, Announced, Full,
            Linked, Headed
<1>0. /\ TypeOK /\ LinksInv /\ NodeInv(t) /\ LocalInv(t) /\ ResultInv(t)
      /\ {cur[t], next[t]} \subseteq Ptrs \cup {NoPtr}
      /\ stored[t] \in BOOLEAN /\ result[t] \in Values \cup {NoValue}
      /\ Known(mHead) /\ mHead \in Ptrs /\ Known(mTail) /\ mTail \in Ptrs
      /\ \A p : Known(p) => p \in Ptrs
      /\ \A p \in Ptrs : mNext[p] \in Ptrs \cup {NoPtr}
  BY ONLY IInv, t \in Owners, Before
<1> DEFINE New(l, c, n, v) ==
      /\ OwnStep(t, l, c, n, stored[t], v, slot[t]) /\ UNCHANGED <<mData, owed>>
      /\ Fits(t, l, c, n, stored[t], v, slot[t])
<1>a. ASSUME NEW l, NEW c, NEW n, NEW v, New(l, c, n, v) PROVE IInv'
  BY ONLY IInv, t \in Owners, <1>a, FieldStep
<1>1. CASE PushLoad(t)
  <2>1. /\ pc[t] = "p-load" /\ Goto(t, "p-store") /\ cur' = [cur EXCEPT ![t] = mTail]
        /\ UNCHANGED <<rvars, sharedVars, node, next, stored, result>>
    BY ONLY <1>1 DEF PushLoad
  <2>2. OwnStep(t, "p-store", mTail, next[t], stored[t], result[t], slot[t])
    BY ONLY <2>1 DEF OwnStep, Becomes, rvars, sharedVars
  <2>3. Fits(t, "p-store", mTail, next[t], stored[t], result[t], slot[t])
    BY ONLY <1>0, <2>1 DEF Fits, NodeInv, ResultInv, Popping
  <2> QED BY ONLY <1>a, <2>1, <2>2, <2>3 DEF sharedVars
<1>2. CASE PopLoad(t)
  <2>1. /\ pc[t] = "load" /\ Goto(t, "store") /\ cur' = [cur EXCEPT ![t] = mHead]
        /\ UNCHANGED <<rvars, sharedVars, node, next, stored, result>>
    BY ONLY <1>2 DEF PopLoad
  <2>2. OwnStep(t, "store", mHead, next[t], stored[t], result[t], slot[t])
    BY ONLY <2>1 DEF OwnStep, Becomes, rvars, sharedVars
  <2>3. Fits(t, "store", mHead, next[t], stored[t], result[t], slot[t])
    BY ONLY <1>0, <2>1 DEF Fits, ResultInv, Popping, Reached
  <2> QED BY ONLY <1>a, <2>1, <2>2, <2>3 DEF sharedVars
<1>3. CASE PopNext(t)
  <2> DEFINE n == mNext[cur[t]]
  <2>1. /\ pc[t] = "next" /\ Goto(t, "cas") /\ next' = [next EXCEPT ![t] = n]
        /\ UNCHANGED <<rvars, sharedVars, cur, node, stored, result>>
    BY ONLY <1>3 DEF PopNext
  <2>2. Passed(cur[t]) /\ cur[t] \in Ptrs
    BY ONLY <1>0, <2>1 DEF LocalInv, Passed
  <2>3. n # NoPtr /\ n \in Ptrs
    BY ONLY <1>0, <2>2 DEF LinksInv
  <2>4. OwnStep(t, "cas", cur[t], n, stored[t], result[t], slot[t])
    BY ONLY <2>1 DEF OwnStep, Becomes, rvars, sharedVars
  <2>5. Fits(t, "cas", cur[t], n, stored[t], result[t], slot[t])
    BY ONLY <1>0, <2>1, <2>3 DEF Fits, LocalInv, ResultInv, Popping
  <2> QED BY ONLY <1>a, <2>1, <2>4, <2>5 DEF sharedVars
<1>4. CASE EmptyNext(t)
  <2> DEFINE n == mNext[cur[t]]
             l == IF n # NoPtr THEN "e-tail" ELSE IF node[t] = NoPtr THEN "e-alloc" ELSE "e-link"
  <2>1. /\ pc[t] = "e-next" /\ Goto(t, l) /\ next' = [next EXCEPT ![t] = n]
        /\ UNCHANGED <<rvars, sharedVars, cur, node, stored, result>>
    BY ONLY <1>4 DEF EmptyNext
  <2>2. cur[t] \in Ptrs /\ n \in Ptrs \cup {NoPtr} /\ mData[cur[t]] # NoValue
    BY ONLY <1>0, <2>1 DEF LocalInv
  <2>3. OwnStep(t, l, cur[t], n, stored[t], result[t], slot[t])
    BY ONLY <2>1, <2>2 DEF OwnStep, Becomes, rvars, sharedVars
  <2>4. Fits(t, l, cur[t], n, stored[t], result[t], slot[t])
    BY ONLY <1>0, <2>1, <2>2 DEF Fits, LocalInv, ResultInv, Popping
  <2> QED BY ONLY <1>a, <2>1, <2>3, <2>4 DEF sharedVars
<1>5. CASE Return(t)
  <2>1. /\ pc[t] = "done" /\ Goto(t, "idle") /\ result' = [result EXCEPT ![t] = NoValue]
        /\ UNCHANGED <<rvars, sharedVars, cur, node, next, stored>>
    BY ONLY <1>5 DEF Return
  <2>2. OwnStep(t, "idle", cur[t], next[t], stored[t], NoValue, slot[t])
    BY ONLY <2>1 DEF OwnStep, Becomes, rvars, sharedVars
  <2>3. Fits(t, "idle", cur[t], next[t], stored[t], NoValue, slot[t])
    BY ONLY <1>0, <2>1 DEF Fits, NodeInv, ResultInv, Popping
  <2> QED BY ONLY <1>a, <2>1, <2>2, <2>3 DEF sharedVars
<1>6. CASE PopCAS(t) /\ mHead # cur[t]
  <2>1. /\ pc[t] = "cas" /\ Goto(t, "load") /\ next' = [next EXCEPT ![t] = NoPtr]
        /\ UNCHANGED <<rvars, sharedVars, cur, node, stored, result>>
    BY ONLY <1>6 DEF PopCAS, sharedVars
  <2>2. OwnStep(t, "load", cur[t], NoPtr, stored[t], result[t], slot[t])
    BY ONLY <2>1 DEF OwnStep, Becomes, rvars, sharedVars
  <2>3. Fits(t, "load", cur[t], NoPtr, stored[t], result[t], slot[t])
    BY ONLY <1>0, <2>1 DEF Fits, ResultInv, Popping
  <2> QED BY ONLY <1>a, <2>1, <2>2, <2>3 DEF sharedVars
<1>7. CASE (PushLink(t) \/ EmptyLink(t)) /\ mNext[cur[t]] # NoPtr
  <2> DEFINE n == mNext[cur[t]]
  <2>1. PICK l \in {"p-tail", "e-tail"} :
           /\ l = "p-tail" => pc[t] = "p-link" /\ node[t] # NoPtr
           /\ l = "e-tail" => pc[t] = "e-link"
           /\ Goto(t, l) /\ next' = [next EXCEPT ![t] = n]
           /\ UNCHANGED <<rvars, sharedVars, cur, node, stored, result>>
    <3>1. CASE PushLink(t)
      <4>1. /\ pc[t] = "p-link" /\ next' = [next EXCEPT ![t] = n]
            /\ UNCHANGED <<rvars, sharedVars, cur, node, stored, result>>
        BY ONLY <1>7, <3>1 DEF PushLink, Link, sharedVars
      <4>2. node[t] # NoPtr
        BY ONLY <1>0, <4>1 DEF NodeInv
      <4>3. Goto(t, "p-tail")
        BY ONLY <3>1, <4>1, <4>2 DEF PushLink
      <4> QED BY ONLY <4>1, <4>2, <4>3
    <3>2. CASE EmptyLink(t)
      <4>1. /\ pc[t] = "e-link" /\ next' = [next EXCEPT ![t] = n] /\ Goto(t, "e-tail")
            /\ UNCHANGED <<rvars, sharedVars, cur, node, stored, result>>
        BY ONLY <1>7, <3>2 DEF EmptyLink, Link, sharedVars
      <4> QED BY ONLY <4>1
    <3> QED BY ONLY <1>7, <3>1, <3>2
  <2>2. cur[t] \in Ptrs /\ n \in Ptrs /\ n # NoPtr
    BY ONLY <1>0, <1>7, <2>1 DEF LocalInv
  <2>3. OwnStep(t, l, cur[t], n, stored[t], result[t], slot[t])
    BY ONLY <2>1, l \in {"p-tail", "e-tail"} DEF OwnStep, Becomes, rvars, sharedVars
  <2>4. Fits(t, l, cur[t], n, stored[t], result[t], slot[t])
    BY ONLY <1>0, <2>1, <2>2, l \in {"p-tail", "e-tail"}
       DEF Fits, LocalInv, ResultInv, Popping
  <2> QED BY ONLY <1>a, <2>1, <2>3, <2>4 DEF sharedVars
<1>8. CASE (PushTail(t) \/ EmptyTail(t)) /\ mTail # cur[t]
  <2>1. PICK l \in {"delete", "p-load", "e-release"} :
           /\ l \in {"delete", "p-load"} => pc[t] = "p-tail"
           /\ l = "delete" <=> (pc[t] = "p-tail" /\ stored[t])
           /\ l = "e-release" => pc[t] = "e-tail"
           /\ Goto(t, l) /\ next' = [next EXCEPT ![t] = NoPtr]
           /\ UNCHANGED <<rvars, sharedVars, cur, node, stored, result>>
    <3>1. CASE PushTail(t)
      BY ONLY <1>8, <3>1 DEF PushTail, SwingTail, sharedVars
    <3>2. CASE EmptyTail(t)
      BY ONLY <1>8, <3>2 DEF EmptyTail, SwingTail, sharedVars
    <3> QED BY ONLY <1>8, <3>1, <3>2
  <2>2. OwnStep(t, l, cur[t], NoPtr, stored[t], result[t], slot[t])
    BY ONLY <2>1, l \in {"delete", "p-load", "e-release"}
       DEF OwnStep, Becomes, rvars, sharedVars
  <2>3. Fits(t, l, cur[t], NoPtr, stored[t], result[t], slot[t])
    BY ONLY <1>0, <2>1, l \in {"delete", "p-load", "e-release"}
       DEF Fits, NodeInv, ResultInv, Popping
  <2> QED BY ONLY <1>a, <2>1, <2>2, <2>3 DEF sharedVars
<1> QED BY ONLY <1>1, <1>2, <1>3, <1>4, <1>5, <1>6, <1>7, <1>8,
        \/ PushLoad(t) \/ PopLoad(t) \/ PopNext(t) \/ EmptyNext(t) \/ Return(t)
        \/ PopCAS(t) /\ mHead # cur[t]
        \/ (PushLink(t) \/ EmptyLink(t)) /\ mNext[cur[t]] # NoPtr
        \/ (PushTail(t) \/ EmptyTail(t)) /\ mTail # cur[t]

(* The compare-and-swap of mData, whether it succeeds or not.              *)
LEMMA DataStep ==
  ASSUME IInv, NEW t \in Owners, PushData(t)
  PROVE  IInv'
<1> USE DEF Labels, PushPcs, AfterPushPcs, PopPcs, EndPcs, Loaded, Safe, Announced, Full,
            Linked, Headed
<1>0. /\ TypeOK /\ NodeInv(t) /\ LocalInv(t) /\ ResultInv(t)
      /\ {cur[t], next[t]} \subseteq Ptrs \cup {NoPtr}
      /\ stored[t] \in BOOLEAN /\ result[t] \in Values \cup {NoValue}
  BY ONLY IInv, t \in Owners, Before
<1>1. /\ pc[t] = "p-data" /\ Goto(t, "p-link")
      /\ UNCHANGED <<rvars, mHead, mTail, mNext, nodes, cur, node, next, reused>>
      /\ IF mData[cur[t]] = NoValue
           THEN /\ mData' = [mData EXCEPT ![cur[t]] = result[t]]
                /\ owed' = owed \cup {result[t]}
                /\ stored' = [stored EXCEPT ![t] = TRUE]
                /\ result' = [result EXCEPT ![t] = NoValue]
           ELSE UNCHANGED <<mData, owed, stored, result>>
  BY ONLY PushData(t) DEF PushData
<1>2. /\ Known(cur[t]) /\ Listed(cur[t]) /\ cur[t] \in Ptrs
      /\ ~ stored[t] /\ result[t] \in Values /\ result[t] # NoValue
  BY ONLY <1>0, <1>1, ValuesAssumption DEF LocalInv, ResultInv, Known, Listed
<1>3. mData \in [Ptrs -> Values \cup {NoValue}] /\ owed \subseteq Values
  BY ONLY <1>0 DEF TypeOK
<1>4. /\ mData' \in [Ptrs -> Values \cup {NoValue}] /\ owed' \subseteq Values
      /\ mData'[cur[t]] # NoValue
      /\ \A p \in Ptrs :
           mData'[p] = mData[p] \/ (Listed(p) /\ mData[p] = NoValue /\ mData'[p] # NoValue)
  BY ONLY <1>1, <1>2, <1>3
<1> DEFINE s == mData[cur[t]] = NoValue
           v == IF mData[cur[t]] = NoValue THEN NoValue ELSE result[t]
<1>5. OwnStep(t, "p-link", cur[t], next[t], s, v, slot[t])
  <2>1. Becomes(stored, t, s, stored') /\ Becomes(result, t, v, result')
    <3>1. CASE mData[cur[t]] = NoValue
      <4>1. s = TRUE /\ v = NoValue
        BY ONLY <3>1
      <4> QED BY ONLY <1>1, <3>1, <4>1 DEF Becomes
    <3>2. CASE mData[cur[t]] # NoValue
      <4>1. s = stored[t] /\ v = result[t]
        BY ONLY <1>0, <1>2, <3>2
      <4> QED BY ONLY <1>1, <3>2, <4>1 DEF Becomes
    <3> QED BY ONLY <3>1, <3>2
  <2> HIDE DEF s, v
  <2> QED BY ONLY <1>1, <1>4, <2>1 DEF OwnStep, Becomes, rvars
<1>6. Fits(t, "p-link", cur[t], next[t], s, v, slot[t])
  BY ONLY <1>0, <1>1, <1>2 DEF Fits, LocalInv, NodeInv, ResultInv, Popping
<1> HIDE DEF s, v
<1> QED BY ONLY IInv, t \in Owners, <1>4, <1>5, <1>6, OwnStepKeeps

(* The steps that change the list: what thread t knows afterwards.         *)
LEMMA KeptLocal ==
  ASSUME NEW S, Keeps(S), NEW t \in Owners, Known(cur[t]), Held(t, cur[t]),
         slot[t] = cur[t], slot'[t] = slot[t]
  PROVE  /\ cur'[t] = cur[t] => Known(cur[t])' /\ Held(t, cur[t])'
         /\ mData[cur[t]] # NoValue => mData'[cur[t]] = mData[cur[t]]
         /\ mNext[cur[t]] # NoPtr => mNext'[cur[t]] = mNext[cur[t]]
<1> PICK c : c = cur[t]
  OBVIOUS
<1>1. c \in Ptrs /\ Known(c) /\ Held(t, c) /\ slot[t] = c /\ slot'[t] = c
  BY ONLY Known(cur[t]), Held(t, cur[t]), slot[t] = cur[t], slot'[t] = slot[t], c = cur[t]
     DEF Known, Listed
<1>2. Stays(c)
  BY ONLY <1>1, Keeps(S), t \in Owners DEF Keeps, Deleted
<1>3. /\ Known(c)' /\ Held(t, c)'
      /\ (mData[c] # NoValue => mData'[c] = mData[c])
      /\ (mNext[c] # NoPtr => mNext'[c] = mNext[c])
  BY ONLY <1>1, <1>2, t \in Owners DEF Stays
<1>4. cur'[t] = cur[t] => Known(cur[t])' /\ Held(t, cur[t])'
  BY ONLY <1>3, c = cur[t] DEF Known, Listed, Held
<1> QED BY ONLY <1>3, <1>4, c = cur[t]

LEMMA AllocSteps ==
  ASSUME IInv, NEW t \in Owners, NEW p \in Ptrs,
         \/ \E v \in Values : CallPush(t, v, p)
         \/ PushAlloc(t, p) \/ EmptyAlloc(t, p),
         ~ reused'
  PROVE  IInv'
<1> USE DEF Labels, PushPcs, AfterPushPcs, PopPcs, EndPcs, Loaded, Safe, Announced, Full,
            Linked, Headed
<1>0. TypeOK /\ SharedInv /\ NodeInv(t) /\ LocalInv(t) /\ ResultInv(t)
  BY ONLY IInv, t \in Owners DEF IInv
<1>1. PICK l : /\ \/ pc[t] = "idle" /\ l = "p-load"
                  \/ pc[t] = "p-alloc" /\ l = "p-tail"
                  \/ pc[t] = "e-alloc" /\ l = "e-link"
               /\ NewNode(t, p) /\ Goto(t, l)
               /\ IF pc[t] = "idle"
                    THEN stored' = [stored EXCEPT ![t] = FALSE]
                         /\ \E v \in Values : result' = [result EXCEPT ![t] = v]
                    ELSE UNCHANGED <<stored, result>>
               /\ UNCHANGED <<mHead, mTail, nodes, cur, next, owed>>
  BY ONLY \/ \E v \in Values : CallPush(t, v, p)
          \/ PushAlloc(t, p) \/ EmptyAlloc(t, p)
     DEF CallPush, PushAlloc, EmptyAlloc
<1>2. /\ pc' \in [Owners -> Labels] /\ pc'[t] = l /\ \A u \in Owners \ {t} : pc'[u] = pc[u]
      /\ stored' \in [Owners -> BOOLEAN] /\ \A u \in Owners \ {t} : stored'[u] = stored[u]
      /\ result' \in [Owners -> Values \cup {NoValue}]
      /\ \A u \in Owners \ {t} : result'[u] = result[u]
      /\ IF pc[t] = "idle" THEN ~ stored'[t] /\ result'[t] \in Values
                           ELSE stored'[t] = stored[t] /\ result'[t] = result[t]
  BY ONLY <1>0, <1>1, t \in Owners DEF TypeOK, Goto
<1>3. /\ status' \in [Ptrs -> {"free", "live", "retired"}] /\ slot' = slot /\ holders' = holders
      /\ mData' \in [Ptrs -> Values \cup {NoValue}] /\ mNext' \in [Ptrs -> Ptrs \cup {NoPtr}]
      /\ node' \in [Owners -> Ptrs \cup {NoPtr}] /\ node'[t] = p
      /\ \A u \in Owners \ {t} : node'[u] = node[u]
      /\ cur' = cur /\ next' = next /\ reused' \in BOOLEAN
  BY ONLY <1>0, <1>1, t \in Owners, p \in Ptrs
     DEF TypeOK, ReclamationTypeOK, NewNode, Allocate
<1>4. Types'
  BY ONLY <1>0, <1>1, <1>2, <1>3 DEF TypeOK, ReclamationTypeOK, Types
<1>5. SharedInv' /\ Keeps({t})
  <2>1. node[t] = NoPtr
    BY ONLY <1>0, <1>1 DEF NodeInv
  <2>2. Moves(t)
    BY ONLY <1>2, <1>3 DEF Moves
  <2>3. ~ Popping(t) /\ ~ Popping(t)'
    BY ONLY <1>1, <1>2 DEF Popping
  <2>4. NewNode(t, p) /\ UNCHANGED <<mHead, mTail, nodes>>
    BY ONLY <1>1
  <2> QED BY ONLY <1>0, ~ reused', t \in Owners, p \in Ptrs, <2>1, <2>2, <2>3, <2>4, NewNodeKeeps
<1>6. NodeInv(t)'
  BY ONLY <1>1, <1>2, <1>3, p \in Ptrs, NoPtrAssumption DEF NodeInv
<1>7. ResultInv(t)'
  BY ONLY <1>0, <1>1, <1>2 DEF ResultInv
<1>8. LocalInv(t)'
  <2>1. CASE l = "p-load"
    BY ONLY <1>2, <2>1 DEF LocalInv, Unvalidated
  <2>2. CASE l # "p-load"
    <3>1. /\ Known(cur[t]) /\ Held(t, cur[t]) /\ slot[t] = cur[t]
          /\ cur'[t] = cur[t] /\ next'[t] = next[t] /\ slot'[t] = slot[t]
          /\ l = "p-tail" => next[t] = mNext[cur[t]] /\ next[t] # NoPtr
          /\ l = "e-link" => mData[cur[t]] # NoValue
      BY ONLY <1>0, <1>1, <1>3, <2>2 DEF LocalInv
    <3>2. /\ Known(cur[t])' /\ Held(t, cur[t])'
          /\ l = "p-tail" => mNext'[cur[t]] = mNext[cur[t]]
          /\ l = "e-link" => mData'[cur[t]] # NoValue
      BY ONLY <1>5, <3>1, t \in Owners, KeptLocal
    <3> QED BY ONLY <1>1, <1>2, <2>2, <3>1, <3>2 DEF LocalInv, Unvalidated
  <2> QED BY ONLY <2>1, <2>2
<1> QED BY ONLY IInv, t \in Owners, <1>4, <1>5, <1>6, <1>7, <1>8, Finish

LEMMA LinkStep ==
  ASSUME IInv, NEW t \in Owners, PushLink(t) \/ EmptyLink(t), mNext[cur[t]] = NoPtr
  PROVE  IInv'
<1> USE DEF Labels, PushPcs, AfterPushPcs, PopPcs, EndPcs, Loaded, Safe, Announced, Full,
            Linked, Headed
<1>0. TypeOK /\ SharedInv /\ NodeInv(t) /\ LocalInv(t) /\ ResultInv(t)
  BY ONLY IInv, t \in Owners DEF IInv
<1>1. PICK l : /\ \/ pc[t] = "p-link" /\ l = IF stored[t] THEN "p-tail" ELSE "p-alloc"
                  \/ pc[t] = "e-link" /\ l = "e-tail"
               /\ Link(t) /\ Goto(t, l)
               /\ UNCHANGED <<rvars, mHead, mTail, mData, cur, stored, result, owed, reused>>
  <2>1. Link(t) /\ node' = [node EXCEPT ![t] = NoPtr] /\ node'[t] = NoPtr
    BY ONLY <1>0, t \in Owners, PushLink(t) \/ EmptyLink(t), mNext[cur[t]] = NoPtr
       DEF PushLink, EmptyLink, Link, TypeOK
  <2> QED BY ONLY <2>1, PushLink(t) \/ EmptyLink(t) DEF PushLink, EmptyLink
<1>2. /\ mNext' = [mNext EXCEPT ![cur[t]] = node[t]] /\ nodes' = Append(nodes, node[t])
      /\ next' = [next EXCEPT ![t] = node[t]] /\ node' = [node EXCEPT ![t] = NoPtr]
      /\ slot' = slot /\ status' = status /\ holders' = holders /\ cur' = cur
      /\ stored' = stored /\ result' = result /\ mData' = mData /\ reused' = reused
      /\ mHead' = mHead /\ mTail' = mTail /\ owed' = owed
  BY ONLY <1>1, mNext[cur[t]] = NoPtr DEF Link, rvars
<1>3. /\ Known(cur[t]) /\ node[t] # NoPtr /\ mData[cur[t]] # NoValue /\ slot[t] = cur[t]
      /\ node[t] \in Ptrs /\ cur[t] \in Ptrs /\ Held(t, cur[t])
  BY ONLY <1>0, <1>1, t \in Owners DEF TypeOK, NodeInv, LocalInv, Known, Listed
<1>4. /\ pc' \in [Owners -> Labels] /\ pc'[t] = l /\ \A u \in Owners \ {t} : pc'[u] = pc[u]
      /\ node' \in [Owners -> Ptrs \cup {NoPtr}] /\ node'[t] = NoPtr
      /\ \A u \in Owners \ {t} : node'[u] = node[u]
      /\ next' \in [Owners -> Ptrs \cup {NoPtr}] /\ next'[t] = node[t]
      /\ \A u \in Owners \ {t} : next'[u] = next[u]
      /\ mNext' \in [Ptrs -> Ptrs \cup {NoPtr}] /\ mNext'[cur[t]] = node[t]
  BY ONLY <1>0, <1>1, <1>2, <1>3, t \in Owners DEF TypeOK, Goto
<1>5. Types'
  <2>1. nodes' \in Seq(Ptrs)
    BY ONLY <1>0, <1>2, <1>3, AppendProperties DEF TypeOK
  <2> QED BY ONLY <1>0, <1>2, <1>4, <2>1 DEF TypeOK, ReclamationTypeOK, Types
<1>6. SharedInv' /\ Keeps({t})
  <2>1. Moves(t)
    BY ONLY <1>2, <1>4 DEF Moves
  <2>2. ~ Popping(t) /\ ~ Popping(t)'
    BY ONLY <1>1, <1>4 DEF Popping
  <2>3. Link(t) /\ UNCHANGED <<rvars, mHead, mTail, mData, cur, reused>>
    BY ONLY <1>1
  <2> PICK c, n : c = cur[t] /\ n = node[t]
    OBVIOUS
  <2>4. /\ c = cur[t] /\ n = node[t] /\ Known(c) /\ mNext[c] = NoPtr /\ mData[c] # NoValue
        /\ n # NoPtr
    BY ONLY <1>3, c = cur[t] /\ n = node[t], mNext[cur[t]] = NoPtr
  <2> QED BY ONLY <1>0, t \in Owners, <2>1, <2>2, <2>3, <2>4, LinkKeeps
<1>7. NodeInv(t)'
  BY ONLY <1>0, <1>1, <1>2, <1>4 DEF NodeInv
<1>8. ResultInv(t)'
  BY ONLY <1>0, <1>1, <1>2, <1>4 DEF ResultInv
<1>9. LocalInv(t)'
  <2>1. Known(cur[t])' /\ Held(t, cur[t])'
    BY ONLY <1>2, <1>3, <1>6, t \in Owners, KeptLocal
  <2> QED BY ONLY <1>1, <1>2, <1>3, <1>4, <2>1 DEF LocalInv, Unvalidated
<1> QED BY ONLY IInv, t \in Owners, <1>5, <1>6, <1>7, <1>8, <1>9, Finish

LEMMA SwingStep ==
  ASSUME IInv, NEW t \in Owners, PushTail(t) \/ EmptyTail(t), mTail = cur[t]
  PROVE  IInv'
<1> USE DEF Labels, PushPcs, AfterPushPcs, PopPcs, EndPcs, Loaded, Safe, Announced, Full,
            Linked, Headed
<1>0. TypeOK /\ SharedInv /\ NodeInv(t) /\ LocalInv(t) /\ ResultInv(t)
  BY ONLY IInv, t \in Owners DEF IInv
<1>1. PICK l : /\ \/ pc[t] = "p-tail" /\ l = IF stored[t] THEN "delete" ELSE "p-load"
                  \/ pc[t] = "e-tail" /\ l = "e-release"
               /\ mTail' = next[t] /\ Goto(t, l) /\ next' = [next EXCEPT ![t] = NoPtr]
               /\ UNCHANGED <<rvars, mHead, mNext, mData, nodes, cur, node, stored, result,
                              owed, reused>>
  BY ONLY PushTail(t) \/ EmptyTail(t), mTail = cur[t] DEF PushTail, EmptyTail, SwingTail
<1>2. /\ slot' = slot /\ status' = status /\ holders' = holders /\ cur' = cur
      /\ node' = node /\ stored' = stored /\ result' = result /\ mData' = mData
      /\ mNext' = mNext /\ mHead' = mHead /\ nodes' = nodes /\ reused' = reused
      /\ owed' = owed
  BY ONLY <1>1 DEF rvars
<1>3. mTail' = mNext[mTail] /\ mNext[mTail] # NoPtr
  BY ONLY <1>0, <1>1, mTail = cur[t] DEF LocalInv
<1>4. /\ pc' \in [Owners -> Labels] /\ pc'[t] = l /\ \A u \in Owners \ {t} : pc'[u] = pc[u]
      /\ next' \in [Owners -> Ptrs \cup {NoPtr}] /\ next'[t] = NoPtr
      /\ \A u \in Owners \ {t} : next'[u] = next[u]
      /\ mTail' \in Ptrs \cup {NoPtr}
  BY ONLY <1>0, <1>1, t \in Owners DEF TypeOK, Goto
<1>5. Types'
  BY ONLY <1>0, <1>2, <1>4 DEF TypeOK, ReclamationTypeOK, Types
<1>6. SharedInv' /\ Keeps({t})
  <2>1. Moves(t)
    BY ONLY <1>2, <1>4 DEF Moves
  <2>2. ~ Popping(t) /\ ~ Popping(t)'
    BY ONLY <1>1, <1>4 DEF Popping
  <2>3. UNCHANGED <<rvars, mHead, mNext, mData, nodes, cur, node, reused>>
    BY ONLY <1>1
  <2> QED BY ONLY <1>0, t \in Owners, <1>3, <2>1, <2>2, <2>3, SwingKeeps
<1>7. NodeInv(t)'
  BY ONLY <1>0, <1>1, <1>2, <1>4 DEF NodeInv
<1>8. ResultInv(t)'
  BY ONLY <1>0, <1>1, <1>2, <1>4 DEF ResultInv
<1>9. LocalInv(t)'
  BY ONLY <1>1, <1>4 DEF LocalInv, Unvalidated
<1> QED BY ONLY IInv, t \in Owners, <1>5, <1>6, <1>7, <1>8, <1>9, Finish

LEMMA PopStepInv ==
  ASSUME IInv, NEW t \in Owners, PopCAS(t), mHead = cur[t]
  PROVE  IInv'
<1> USE DEF Labels, PushPcs, AfterPushPcs, PopPcs, EndPcs, Loaded, Safe, Announced, Full,
            Linked, Headed
<1>0. TypeOK /\ SharedInv /\ NodeInv(t) /\ LocalInv(t) /\ ResultInv(t)
  BY ONLY IInv, t \in Owners DEF IInv
<1>1. /\ pc[t] = "cas" /\ Goto(t, "take") /\ next' = [next EXCEPT ![t] = NoPtr]
      /\ mHead' = next[t] /\ nodes' = SubSeq(nodes, 2, Len(nodes)) /\ owed' = owed \ {mData[cur[t]]}
      /\ UNCHANGED <<rvars, mTail, mNext, mData, cur, node, stored, result, reused>>
  BY ONLY PopCAS(t), mHead = cur[t] DEF PopCAS
<1>2. /\ slot' = slot /\ status' = status /\ holders' = holders /\ cur' = cur
      /\ node' = node /\ stored' = stored /\ result' = result /\ mData' = mData
      /\ mNext' = mNext /\ mTail' = mTail /\ reused' = reused
  BY ONLY <1>1 DEF rvars
<1>3. mHead' = mNext[cur[t]] /\ cur[t] # mTail
  BY ONLY <1>0, <1>1 DEF LocalInv
<1>4. /\ pc' \in [Owners -> Labels] /\ pc'[t] = "take"
      /\ \A u \in Owners \ {t} : pc'[u] = pc[u]
      /\ next' \in [Owners -> Ptrs \cup {NoPtr}] /\ next'[t] = NoPtr
      /\ \A u \in Owners \ {t} : next'[u] = next[u]
      /\ mHead' \in Ptrs \cup {NoPtr} /\ owed' \subseteq Values
  BY ONLY <1>0, <1>1, t \in Owners DEF TypeOK, Goto
<1>5. Types'
  <2>1. nodes' \in Seq(Ptrs)
    BY ONLY <1>0, <1>1 DEF TypeOK
  <2> QED BY ONLY <1>0, <1>2, <1>4, <2>1 DEF TypeOK, ReclamationTypeOK, Types
<1>6. SharedInv' /\ Keeps({t})
  <2>1. Moves(t)
    BY ONLY <1>2, <1>4 DEF Moves
  <2>2. ~ Popping(t)
    BY ONLY <1>1 DEF Popping
  <2>3. /\ UNCHANGED <<rvars, mTail, mNext, mData, cur, node, reused>>
        /\ nodes' = SubSeq(nodes, 2, Len(nodes))
    BY ONLY <1>1
  <2> PICK h : h = mHead
    OBVIOUS
  <2>4. h = mHead /\ cur[t] = h /\ h # mTail /\ mHead' = mNext[h]
    BY ONLY <1>3, h = mHead, mHead = cur[t]
  <2> QED BY ONLY <1>0, <1>4, t \in Owners, <2>1, <2>2, <2>3, <2>4, PopKeeps
<1>7. NodeInv(t)'
  BY ONLY <1>4 DEF NodeInv
<1>8. ResultInv(t)'
  BY ONLY <1>0, <1>1, <1>2, <1>4 DEF ResultInv
<1>9. LocalInv(t)'
  BY ONLY <1>4 DEF LocalInv, Unvalidated
<1> QED BY ONLY IInv, t \in Owners, <1>5, <1>6, <1>7, <1>8, <1>9, Finish

LEMMA RetireStep ==
  ASSUME IInv, NEW t \in Owners, PopRetire(t)
  PROVE  IInv'
<1>0. TypeOK /\ SharedInv /\ NodeInv(t) /\ LocalInv(t) /\ ResultInv(t)
  BY ONLY IInv, t \in Owners DEF IInv
<1>1. /\ pc[t] = "retire" /\ Goto(t, "delete") /\ Retire(cur[t])
      /\ slot' = slot /\ mHead' = mHead /\ mTail' = mTail /\ mNext' = mNext /\ mData' = mData
      /\ owed' = owed /\ nodes' = nodes /\ reused' = reused /\ cur' = cur /\ node' = node
      /\ next' = next /\ stored' = stored /\ result' = result
  BY ONLY PopRetire(t) DEF PopRetire, Retire, sharedVars, localVars
<1>2. /\ status' \in [Ptrs -> {"free", "live", "retired"}]
      /\ holders' \in [Ptrs -> SUBSET Owners]
      /\ pc' \in [Owners -> Labels] /\ pc'[t] = "delete"
  <2>1. cur[t] \in Ptrs /\ status[cur[t]] = "live"
    BY ONLY <1>0, <1>1, t \in Owners DEF SharedInv, PoppedInv, Popping
  <2> QED BY ONLY <1>0, <1>1, <2>1, t \in Owners
     DEF TypeOK, ReclamationTypeOK, Retire, Goto, Labels, EndPcs, PushPcs, AfterPushPcs, PopPcs
<1>3. Types'
  BY ONLY <1>0, <1>1, <1>2 DEF TypeOK, ReclamationTypeOK, Types
<1>4. NodeInv(t)' /\ ResultInv(t)' /\ LocalInv(t)'
  BY ONLY <1>0, <1>1, <1>2
     DEF NodeInv, ResultInv, LocalInv, EndPcs, PushPcs, AfterPushPcs, PopPcs, Loaded,
         Safe, Announced, Full, Linked, Headed, Unvalidated
<1> QED BY ONLY IInv, t \in Owners, <1>0, <1>3, <1>4, PopRetire(t), RetireKeeps, Finish

LEMMA DeleteStep ==
  ASSUME IInv, NEW t \in Owners, DeleteUnused(t)
  PROVE  IInv'
<1>0. TypeOK /\ SharedInv /\ NodeInv(t) /\ LocalInv(t) /\ ResultInv(t)
  BY ONLY IInv, t \in Owners DEF IInv
<1>1. /\ pc[t] = "delete" /\ Goto(t, "release")
      /\ status' = [p \in Ptrs |-> IF p = node[t] THEN "free" ELSE status[p]]
      /\ node' = [node EXCEPT ![t] = NoPtr] /\ cur' = [cur EXCEPT ![t] = NoPtr]
      /\ stored' = [stored EXCEPT ![t] = FALSE]
      /\ slot' = slot /\ holders' = holders /\ mHead' = mHead /\ mTail' = mTail
      /\ mNext' = mNext /\ mData' = mData /\ owed' = owed /\ nodes' = nodes
      /\ reused' = reused /\ next' = next /\ result' = result
  BY ONLY DeleteUnused(t) DEF DeleteUnused, sharedVars
<1>2. /\ status' \in [Ptrs -> {"free", "live", "retired"}]
      /\ pc' \in [Owners -> Labels] /\ pc'[t] = "release"
      /\ node' \in [Owners -> Ptrs \cup {NoPtr}] /\ node'[t] = NoPtr
      /\ cur' \in [Owners -> Ptrs \cup {NoPtr}]
      /\ stored' \in [Owners -> BOOLEAN] /\ ~ stored'[t]
  BY ONLY <1>0, <1>1, t \in Owners
     DEF TypeOK, ReclamationTypeOK, Goto, Labels, EndPcs, PushPcs, AfterPushPcs, PopPcs
<1>3. Types'
  BY ONLY <1>0, <1>1, <1>2 DEF TypeOK, ReclamationTypeOK, Types
<1>4. NodeInv(t)' /\ ResultInv(t)' /\ LocalInv(t)'
  BY ONLY <1>0, <1>1, <1>2
     DEF NodeInv, ResultInv, LocalInv, EndPcs, PushPcs, AfterPushPcs, PopPcs, Loaded,
         Safe, Announced, Full, Linked, Headed, Unvalidated
<1> QED BY ONLY IInv, t \in Owners, <1>0, <1>3, <1>4, DeleteUnused(t), DeleteUnusedKeeps, Finish

LEMMA ReclaimStep ==
  ASSUME IInv, NEW p \in Ptrs, Reclaim(p)
  PROVE  IInv'
<1>0. TypeOK /\ SharedInv
  BY ONLY IInv DEF IInv
<1>1. SharedInv' /\ Keeps({}) /\ UNCHANGED <<pc, localVars>>
  BY ONLY <1>0, p \in Ptrs, Reclaim(p), ReclaimKeeps
<1>2. \A t \in Owners : LocalInv(t)' /\ NodeInv(t)' /\ ResultInv(t)'
  <2>1. ASSUME NEW t \in Owners PROVE LocalInv(t)' /\ NodeInv(t)' /\ ResultInv(t)'
    <3>1. LocalInv(t) /\ NodeInv(t) /\ ResultInv(t) /\ t \in Owners \ {}
      BY ONLY IInv, t \in Owners DEF IInv
    <3> QED BY ONLY <1>1, <3>1, OthersKeep
  <2> QED BY ONLY <2>1
<1>3. TypeOK'
  <2>1. /\ status' \in [Ptrs -> {"free", "live", "retired"}] /\ reused' \in BOOLEAN
        /\ slot' = slot /\ holders' = holders /\ mHead' = mHead /\ mTail' = mTail
        /\ mNext' = mNext /\ mData' = mData /\ owed' = owed /\ nodes' = nodes
    BY ONLY <1>0, p \in Ptrs, Reclaim(p)
       DEF Reclaim, Free, sharedVars, TypeOK, ReclamationTypeOK
  <2> QED BY ONLY <1>0, <1>1, <2>1 DEF TypeOK, ReclamationTypeOK, localVars
<1> QED BY ONLY <1>1, <1>2, <1>3 DEF IInv

LEMMA InitIInv == Init => IInv
<1> SUFFICES ASSUME Init PROVE IInv
  OBVIOUS
<1> USE DEF PushPcs, AfterPushPcs, PopPcs, EndPcs
<1>1. TypeOK
  <2>1. ReclamationTypeOK /\ nodes \in Seq(Ptrs) /\ reused \in BOOLEAN
    <3>1. slot \in [Owners -> Ptrs \cup {NoPtr}] /\ holders \in [Ptrs -> SUBSET Owners]
      BY ONLY Init DEF Init
    <3>2. status \in [Ptrs -> {"free", "live", "retired"}] /\ mHead \in Ptrs /\ reused \in BOOLEAN
      BY ONLY Init DEF Init
    <3>3. nodes \in Seq(Ptrs)
      BY ONLY <3>2, Init DEF Init
    <3> QED BY ONLY <3>1, <3>2, <3>3 DEF ReclamationTypeOK
  <2>2. \A t \in Owners : pc[t] = "idle"
    BY ONLY Init DEF Init
  <2> QED BY ONLY Init, <2>1, <2>2 DEF Init, TypeOK
<1>2. \A p : Listed(p) <=> p = mHead
  BY ONLY Init, NoPtrAssumption DEF Init, Listed
<1>3. \A p : ~ Popped(p) /\ (Known(p) <=> p = mHead) /\ ~ Passed(p)
  BY ONLY Init, <1>2, NoPtrAssumption DEF Init, Popped, Popping, Known, Passed
<1>4. LinksInv
  BY ONLY Init, <1>2, <1>3, NoPtrAssumption DEF Init, LinksInv, Queued
<1>5. PoppedInv
  BY ONLY Init, <1>3 DEF Init, PoppedInv, Popping
<1>6. NodesInv
  <2>1. Queued(mHead) /\ nodes = <<mHead>> /\ mTail = mHead
    BY ONLY Init, <1>2, <1>3 DEF Init, Queued
  <2> QED BY ONLY Init, <2>1 DEF Init, NodesInv
<1>7. ASSUME NEW t \in Owners PROVE Private(t) /\ NodeInv(t) /\ LocalInv(t) /\ ResultInv(t)
  BY ONLY Init, t \in Owners
     DEF Init, Private, NodeInv, LocalInv, ResultInv, Loaded, Safe, Announced,
     Full, Linked, Headed, Unvalidated
<1> QED BY ONLY <1>1, <1>4, <1>5, <1>6, <1>7 DEF IInv, SharedInv

LEMMA StepIInv ==
  ASSUME IInv, NEW t \in Owners, Call(t) \/ Step(t), ~ reused'
  PROVE  IInv'
<1>1. CASE \/ PushCheck(t) \/ CallPop(t) \/ PopTail(t) \/ PopCheck(t)
           \/ EmptyCheck(t) \/ EmptyData(t)
  BY ONLY IInv, t \in Owners, <1>1, CheckSteps
<1>2. CASE PushStore(t) \/ PopStore(t) \/ PopTake(t) \/ EmptyRelease(t) \/ ReleaseHazard(t)
  BY ONLY IInv, t \in Owners, <1>2, AnnounceSteps
<1>3. CASE PushLoad(t) \/ PopLoad(t) \/ PopNext(t) \/ EmptyNext(t) \/ Return(t)
  BY ONLY IInv, t \in Owners, <1>3, LoadSteps
<1>4. CASE PopCAS(t)
  BY ONLY IInv, t \in Owners, <1>4, LoadSteps, PopStepInv
<1>5. CASE PushLink(t) \/ EmptyLink(t)
  BY ONLY IInv, t \in Owners, <1>5, LoadSteps, LinkStep
<1>6. CASE PushTail(t) \/ EmptyTail(t)
  BY ONLY IInv, t \in Owners, <1>6, LoadSteps, SwingStep
<1>7. CASE PushData(t)
  BY ONLY IInv, t \in Owners, <1>7, DataStep
<1>8. CASE \E p \in Ptrs : PushAlloc(t, p) \/ EmptyAlloc(t, p) \/ \E v \in Values : CallPush(t, v, p)
  BY ONLY IInv, ~ reused', t \in Owners, <1>8, AllocSteps
<1>9. CASE PopRetire(t)
  BY ONLY IInv, t \in Owners, <1>9, RetireStep
<1>10. CASE DeleteUnused(t)
  BY ONLY IInv, t \in Owners, <1>10, DeleteStep
<1> QED BY ONLY Call(t) \/ Step(t), <1>1, <1>2, <1>3, <1>4, <1>5, <1>6, <1>7, <1>8, <1>9, <1>10
        DEF Call, Step, PushStep, PopStep

LEMMA StutterIInv ==
  ASSUME IInv, UNCHANGED vars
  PROVE  IInv'
<1>1. /\ slot' = slot /\ status' = status /\ holders' = holders /\ mHead' = mHead
      /\ mTail' = mTail /\ mNext' = mNext /\ mData' = mData /\ owed' = owed /\ nodes' = nodes
      /\ reused' = reused /\ pc' = pc /\ cur' = cur /\ node' = node /\ next' = next
      /\ stored' = stored /\ result' = result
  BY ONLY UNCHANGED vars DEF vars, rvars
<1>2. TypeOK'
  BY ONLY <1>1, IInv DEF IInv, TypeOK, ReclamationTypeOK
<1>3. \A p : /\ Listed(p)' <=> Listed(p)
             /\ Popped(p)' <=> Popped(p)
  BY ONLY <1>1 DEF Listed, Popped, Popping
<1>4. Same
  BY ONLY <1>1 DEF Same, Popping
<1>5. SharedInv'
  BY ONLY IInv, <1>4, SameShared DEF IInv
<1>6. ASSUME NEW t \in Owners PROVE NodeInv(t)' /\ LocalInv(t)' /\ ResultInv(t)'
  <2>1. NodeInv(t) /\ LocalInv(t) /\ ResultInv(t)
    BY ONLY IInv, t \in Owners DEF IInv
  <2>2. NodeInv(t)' /\ ResultInv(t)'
    BY ONLY <1>1, <2>1 DEF NodeInv, ResultInv
  <2>3. LocalInv(t)'
    BY ONLY <1>1, <2>1 DEF LocalInv, Known, Listed, Held, Reached, Popped, Popping, Unvalidated
  <2> QED BY ONLY <2>2, <2>3
<1> QED BY ONLY <1>2, <1>5, <1>6 DEF IInv

LEMMA NextIInv == ~ reused' /\ IInv /\ [Next]_vars => IInv'
<1> SUFFICES ASSUME ~ reused', IInv, [Next]_vars PROVE IInv'
  OBVIOUS
<1>1. ASSUME NEW t \in Owners, Call(t) \/ Step(t) PROVE IInv'
  BY ONLY IInv, ~ reused', <1>1, StepIInv
<1>2. ASSUME NEW p \in Ptrs, Reclaim(p) PROVE IInv'
  BY ONLY IInv, <1>2, ReclaimStep
<1>3. CASE UNCHANGED vars
  BY ONLY IInv, <1>3, StutterIInv
<1> QED BY ONLY [Next]_vars, <1>1, <1>2, <1>3 DEF Next

-----------------------------------------------------------------------------
(* What the invariant says of the list and of the nodes the threads use.   *)

(* The nodes of the list: all but the last are full and not behind it.      *)
LEMMA NodesFacts ==
  ASSUME TypeOK, SharedInv
  PROVE  /\ nodes \in Seq(Ptrs) /\ Len(nodes) \in Nat /\ Len(nodes) >= 1 /\ mHead = nodes[1]
         /\ \A i \in 1 .. Len(nodes) : nodes[i] \in Ptrs /\ status[nodes[i]] = "live"
         /\ \A i \in 1 .. Len(nodes) :
              mNext[nodes[i]] = IF i = Len(nodes) THEN NoPtr ELSE nodes[i + 1]
         /\ \A i \in 1 .. Len(nodes) : i < Len(nodes) => mData[nodes[i]] # NoValue
         /\ \E i \in 1 .. Len(nodes) : mTail = nodes[i] /\ i >= Len(nodes) - 1
<1>0. LinksInv /\ PoppedInv /\ NodesInv
  BY ONLY SharedInv DEF SharedInv
<1> PICK k : k = Len(nodes)
  OBVIOUS
<1>1. /\ nodes \in Seq(Ptrs) /\ k \in Nat /\ k >= 1 /\ mHead = nodes[1]
      /\ \A i \in 1 .. k : nodes[i] \in Ptrs /\ nodes[i] # NoPtr
      /\ \A i \in 1 .. k : mNext[nodes[i]] = IF i = k THEN NoPtr ELSE nodes[i + 1]
  <2>1. nodes \in Seq(Ptrs) /\ nodes # <<>>
    BY ONLY <1>0, TypeOK DEF NodesInv, TypeOK
  <2>2. k \in Nat /\ k # 0 /\ \A i \in 1 .. k : nodes[i] \in Ptrs
    BY ONLY <2>1, k = Len(nodes), EmptySeq, LenProperties, ElementOfSeq
  <2> QED BY ONLY <1>0, <2>1, <2>2, k = Len(nodes), NoPtrAssumption DEF NodesInv
<1>2. \A i \in 1 .. k : Listed(nodes[i]) /\ ~ Popped(nodes[i])
  BY ONLY <1>0, k = Len(nodes) DEF NodesInv, Queued
<1>3. \A i \in 1 .. k : status[nodes[i]] = "live"
  BY ONLY <1>2, TypeOK, UnpoppedLive
<1>4. mTail \in Ptrs /\ Listed(mTail)
      /\ (mNext[mTail] # NoPtr => mData[mTail] # NoValue /\ mNext[mNext[mTail]] = NoPtr)
  BY ONLY <1>0 DEF LinksInv, Listed
<1>5. ASSUME NEW i \in 1 .. k, i < k PROVE mData[nodes[i]] # NoValue
  <2>1. mNext[nodes[i]] # NoPtr
    <3>1. i + 1 \in 1 .. k /\ i # k
      BY ONLY <1>1, <1>5
    <3> QED BY ONLY <1>1, <3>1, i \in 1 .. k
  <2>2. nodes[i] # mNext[mTail]
    BY ONLY <1>1, <1>4, <2>1, i \in 1 .. k
  <2>3. CASE nodes[i] = mTail
    BY ONLY <1>4, <2>1, <2>3
  <2>4. CASE nodes[i] # mTail
    <3>1. Passed(nodes[i]) /\ nodes[i] \in Ptrs
      BY ONLY <1>1, <1>2, <2>2, <2>4, i \in 1 .. k DEF Passed, Known
    <3> QED BY ONLY <1>0, <3>1 DEF LinksInv
  <2> QED BY ONLY <2>3, <2>4
<1>6. PICK i \in 1 .. k : mTail = nodes[i]
  BY ONLY <1>0, k = Len(nodes) DEF NodesInv
<1>7. i >= k - 1
  <2>1. ASSUME i < k - 1 PROVE FALSE
    <3>1. i + 1 \in 1 .. k /\ i # k /\ i + 1 # k /\ i + 1 + 1 \in 1 .. k
      BY ONLY <1>1, <2>1, i \in 1 .. k
    <3>2. mNext[mTail] = nodes[i + 1] /\ mNext[nodes[i + 1]] = nodes[i + 1 + 1]
          /\ nodes[i + 1] # NoPtr /\ nodes[i + 1 + 1] # NoPtr
      BY ONLY <1>1, <1>6, <3>1
    <3> QED BY ONLY <1>4, <3>2
  <2>2. i \in Int /\ k \in Int
    BY ONLY <1>1, i \in 1 .. k
  <2> QED BY ONLY <2>1, <2>2
<1> QED BY ONLY <1>1, <1>3, <1>5, <1>6, <1>7, k = Len(nodes)

LEMMA IInvSafe ==
  ASSUME IInv
  PROVE  /\ ListIntact
         /\ \A t \in Owners :
              pc[t] \in {"p-data", "p-link", "next", "take", "e-data", "e-next", "e-link"} =>
                status[cur[t]] # "free"
<1>0. TypeOK /\ SharedInv
  BY ONLY IInv DEF IInv
<1>1. ListIntact
  <2>1. ASSUME NEW t \in Owners, pc[t] \in {"next", "cas"}, mHead = cur[t] PROVE mHead # mTail
    BY ONLY IInv, <2>1 DEF IInv, LocalInv
  <2>2. nodes # <<>>
    BY ONLY <1>0 DEF SharedInv, NodesInv
  <2> QED BY ONLY <1>0, <2>1, <2>2, NodesFacts DEF ListIntact
<1>2. ASSUME NEW t \in Owners,
             pc[t] \in {"p-data", "p-link", "next", "take", "e-data", "e-next", "e-link"}
      PROVE  status[cur[t]] # "free"
  <2>1. CASE pc[t] = "take"
    BY ONLY <1>0, <2>1, t \in Owners DEF SharedInv, PoppedInv, Popping
  <2>2. CASE pc[t] \in Safe
    BY ONLY IInv, <2>2, t \in Owners DEF IInv, LocalInv, Held
  <2> QED BY ONLY <1>2, <2>1, <2>2 DEF Safe
<1> QED BY ONLY <1>1, <1>2

(* The invariant of the specification: what holds while no address has come *)
(* back that a tryPop has yet to validate, and that lasts for ever once it  *)
(* has happened.                                                           *)
Inv == ~ reused => IInv

LEMMA Monotone ==
  ASSUME [Next]_vars, ~ reused'
  PROVE  ~ reused
<1>1. ASSUME NEW t \in Owners, Call(t) \/ Step(t)
      PROVE  reused' = reused \/ \E p \in Ptrs : NewNode(t, p)
  BY ONLY <1>1
     DEF Call, Step, PushStep, PopStep, CallPop, CallPush, PushLoad, PushStore, PushCheck,
         PushData, PushLink, PushTail, PushAlloc, PopLoad, PopStore, PopTail, PopCheck, PopNext,
         PopCAS, PopTake, PopRetire, EmptyCheck, EmptyData, EmptyNext, EmptyLink, EmptyTail,
         EmptyRelease, EmptyAlloc, DeleteUnused, ReleaseHazard, Return, sharedVars
<1>2. ASSUME NEW t \in Owners, NEW p \in Ptrs, NewNode(t, p) PROVE ~ reused
  BY ONLY <1>2, ~ reused' DEF NewNode
<1>3. ASSUME NEW p \in Ptrs, Reclaim(p) PROVE reused' = reused
  BY ONLY <1>3 DEF Reclaim, sharedVars
<1>4. UNCHANGED vars => reused' = reused
  BY ONLY DEF vars
<1> QED BY ONLY [Next]_vars, ~ reused', <1>1, <1>2, <1>3, <1>4 DEF Next

LEMMA NextInv == Inv /\ [Next]_vars => Inv'
<1> SUFFICES ASSUME Inv, [Next]_vars, ~ reused' PROVE IInv'
  BY DEF Inv
<1>1. ~ reused
  BY ONLY [Next]_vars, ~ reused', Monotone
<1> QED BY ONLY Inv, <1>1, [Next]_vars, ~ reused', NextIInv DEF Inv

(* The list is never broken: mHead, the links and the tail lead through the *)
(* nodes that the successful compare-and-swaps of push and tryPop appended  *)
(* and have not taken, for any number of threads, addresses and values,     *)
(* however often the addresses of deleted nodes are used again, until one   *)
(* comes back that a tryPop has yet to validate (MSQueue.hpp:118-157).      *)
THEOREM ListInvCorrect == Spec => []ListInv
<1>1. Init => Inv
  BY ONLY InitIInv DEF Inv
<1>2. Inv => ListInv
  BY ONLY IInvSafe DEF Inv, ListInv
<1> QED BY ONLY <1>1, <1>2, NextInv, PTL DEF Spec

(* No thread reads or writes a deleted node: the second load of mTail or    *)
(* mHead in push and tryPop makes the announcement count, whichever node is *)
(* at the address by then, until an address comes back that a tryPop has    *)
(* yet to validate.                                                        *)
THEOREM NoUseAfterFreeCorrect == Spec => []NoUseAfterFree
<1>1. Init => Inv
  BY ONLY InitIInv DEF Inv
<1>2. Inv => NoUseAfterFree
  BY ONLY IInvSafe DEF Inv, NoUseAfterFree
<1> QED BY ONLY <1>1, <1>2, NextInv, PTL DEF Spec

-----------------------------------------------------------------------------
(* The queue implements AbstractQueue.                                     *)

Ops == [t \in Owners |-> Operation(t)]

(* One step of the abstract queue, in terms of Contents and Ops.           *)
AbstractStep(t, o, contents) ==
  Ops' = [Ops EXCEPT ![t] = o] /\ Contents' = contents

AbstractStutter == Ops' = Ops /\ Contents' = Contents

idle == [name |-> "idle", val |-> NoValue]
pop == [name |-> "pop", val |-> NoValue]
push(v) == [name |-> "push", val |-> v]
done(v) == [name |-> "done", val |-> v]

LEMMA AbstractNext ==
  ASSUME NEW t \in Owners, NEW v,
         \/ /\ Ops[t] = idle
            /\ (v \in Values /\ AbstractStep(t, push(v), Contents)) \/ AbstractStep(t, pop, Contents)
         \/ Ops[t] = push(v) /\ AbstractStep(t, done(NoValue), Append(Contents, v))
         \/ /\ Ops[t] = pop /\ Contents # <<>>
            /\ AbstractStep(t, done(Head(Contents)), Tail(Contents))
         \/ Ops[t] = pop /\ Contents = <<>> /\ AbstractStep(t, done(NoValue), Contents)
         \/ Ops[t] = done(v) /\ AbstractStep(t, idle, Contents)
  PROVE  Abstract!Next
<1> USE DEF AbstractStep, Ops, Abstract!Idle, Abstract!Done, idle, pop, push, done
<1>1. CASE Ops[t] = idle /\ v \in Values /\ AbstractStep(t, push(v), Contents)
  BY ONLY <1>1, t \in Owners DEF Abstract!Next, Abstract!Call
<1>2. CASE Ops[t] = idle /\ AbstractStep(t, pop, Contents)
  BY ONLY <1>2, t \in Owners DEF Abstract!Next, Abstract!Call
<1>3. CASE Ops[t] = push(v) /\ AbstractStep(t, done(NoValue), Append(Contents, v))
  <2>1. Ops[t].name = "push" /\ Ops[t].val = v
    BY ONLY <1>3
  <2> QED BY ONLY <1>3, <2>1, t \in Owners DEF Abstract!Next, Abstract!Push
<1>4. CASE /\ Ops[t] = pop /\ Contents # <<>>
           /\ AbstractStep(t, done(Head(Contents)), Tail(Contents))
  <2>1. Ops[t].name = "pop"
    BY ONLY <1>4
  <2> QED BY ONLY <1>4, <2>1, t \in Owners DEF Abstract!Next, Abstract!Pop
<1>5. CASE Ops[t] = pop /\ Contents = <<>> /\ AbstractStep(t, done(NoValue), Contents)
  <2>1. Ops[t].name = "pop"
    BY ONLY <1>5
  <2> QED BY ONLY <1>5, <2>1, t \in Owners DEF Abstract!Next, Abstract!PopEmpty
<1>6. CASE Ops[t] = done(v) /\ AbstractStep(t, idle, Contents)
  <2>1. Ops[t].name = "done"
    BY ONLY <1>6
  <2> QED BY ONLY <1>6, <2>1, t \in Owners DEF Abstract!Next, Abstract!Return
<1> QED BY ONLY <1>1, <1>2, <1>3, <1>4, <1>5, <1>6,
         \/ /\ Ops[t] = idle
            /\ (v \in Values /\ AbstractStep(t, push(v), Contents)) \/ AbstractStep(t, pop, Contents)
         \/ Ops[t] = push(v) /\ AbstractStep(t, done(NoValue), Append(Contents, v))
         \/ /\ Ops[t] = pop /\ Contents # <<>>
            /\ AbstractStep(t, done(Head(Contents)), Tail(Contents))
         \/ Ops[t] = pop /\ Contents = <<>> /\ AbstractStep(t, done(NoValue), Contents)
         \/ Ops[t] = done(v) /\ AbstractStep(t, idle, Contents)

(* What a step of thread t leaves of the other threads' operations.        *)
Frame(t) ==
  /\ \A u \in Owners \ {t} :
       pc'[u] = pc[u] /\ cur'[u] = cur[u] /\ stored'[u] = stored[u] /\ result'[u] = result[u]
  /\ \A u \in Owners \ {t} : pc[u] = "take" => mData'[cur[u]] = mData[cur[u]]

LEMMA OpsStep ==
  ASSUME NEW t \in Owners, Frame(t), NEW o, Operation(t)' = o
  PROVE  Ops' = [Ops EXCEPT ![t] = o] /\ (o = Operation(t) => Ops' = Ops)
<1>1. ASSUME NEW u \in Owners \ {t} PROVE Operation(u)' = Operation(u)
  <2>1. /\ pc'[u] = pc[u] /\ cur'[u] = cur[u] /\ stored'[u] = stored[u] /\ result'[u] = result[u]
        /\ pc[u] = "take" => mData'[cur[u]] = mData[cur[u]]
    BY ONLY Frame(t), u \in Owners \ {t} DEF Frame
  <2>2. CASE pc[u] = "take"
    BY ONLY <2>1, <2>2 DEF Operation, PushPcs, AfterPushPcs, PopPcs
  <2>3. CASE pc[u] # "take"
    BY ONLY <2>1, <2>3 DEF Operation
  <2> QED BY ONLY <2>2, <2>3
<1>2. Ops' = [u \in Owners |-> Operation(u)']
  BY ONLY DEF Ops
<1> HIDE DEF Operation
<1> QED BY ONLY <1>1, <1>2, t \in Owners, Operation(t)' = o DEF Ops

(* The number of values in the queue.                                      *)
Count == IF mData[nodes[Len(nodes)]] = NoValue THEN Len(nodes) - 1 ELSE Len(nodes)

LEMMA ContentsSeq ==
  ASSUME TypeOK, SharedInv
  PROVE  /\ Contents \in Seq(Values \cup {NoValue}) /\ Len(Contents) = Count /\ Count \in Nat
         /\ \A i \in 1 .. Count : Contents[i] = mData[nodes[i]]
         /\ Contents = [i \in 1 .. Count |-> mData[nodes[i]]]
<1>1. /\ Len(nodes) \in Nat /\ Len(nodes) >= 1
      /\ \A i \in 1 .. Len(nodes) : nodes[i] \in Ptrs
  BY ONLY TypeOK, SharedInv, NodesFacts
<1>2. Count \in Nat /\ Count <= Len(nodes)
  BY ONLY <1>1 DEF Count
<1>3. \A i \in 1 .. Count : mData[nodes[i]] \in Values \cup {NoValue}
  <2>1. \A i \in 1 .. Count : i \in 1 .. Len(nodes)
    BY ONLY <1>1, <1>2
  <2> QED BY ONLY <1>1, <2>1, TypeOK DEF TypeOK
<1>4. Contents = [i \in 1 .. Count |-> mData[nodes[i]]]
  BY ONLY DEF Contents, Count
<1> QED BY ONLY <1>2, <1>3, <1>4

LEMMA ContentsSame ==
  ASSUME TypeOK, SharedInv, nodes' = nodes,
         \A i \in 1 .. Len(nodes) : mData'[nodes[i]] = mData[nodes[i]]
  PROVE  Contents' = Contents
<1> DEFINE k == Len(nodes)
<1>1. k \in Nat /\ k >= 1
  BY ONLY TypeOK, SharedInv, NodesFacts
<1>2. k \in 1 .. k
  BY ONLY <1>1
<1>3. Count' = Count /\ Count \in Nat /\ Count <= k
  BY ONLY <1>1, <1>2, nodes' = nodes,
          \A i \in 1 .. Len(nodes) : mData'[nodes[i]] = mData[nodes[i]] DEF Count
<1>4. \A i \in 1 .. Count : i \in 1 .. k
  BY ONLY <1>1, <1>3
<1>5. /\ Contents = [i \in 1 .. Count |-> mData[nodes[i]]]
      /\ Contents' = [i \in 1 .. Count' |-> mData'[nodes'[i]]]
  BY ONLY DEF Contents, Count
<1> HIDE DEF k
<1> QED BY ONLY <1>3, <1>4, <1>5, nodes' = nodes,
        \A i \in 1 .. Len(nodes) : mData'[nodes[i]] = mData[nodes[i]] DEF k


(* Only thread t moves, and it writes no node that was taken from the list.  *)
LEMMA Alone ==
  ASSUME IInv, NEW t \in Owners, Call(t) \/ Step(t)
  PROVE  Frame(t)
<1>0. /\ TypeOK /\ LocalInv(t)
      /\ \A u \in Owners : pc[u] = "take" =>
           cur[u] \in Ptrs /\ status[cur[u]] = "live" /\ mData[cur[u]] # NoValue
  <2>1. ASSUME NEW u \in Owners, pc[u] = "take"
        PROVE  cur[u] \in Ptrs /\ status[cur[u]] = "live" /\ mData[cur[u]] # NoValue
    <3>1. Popping(u) /\ LinksInv /\ PoppedInv
      BY ONLY <2>1, IInv DEF IInv, SharedInv, Popping
    <3>2. cur[u] \in Ptrs /\ status[cur[u]] = "live" /\ Popped(cur[u])
      BY ONLY <3>1, u \in Owners DEF PoppedInv, Popped
    <3> QED BY ONLY <3>1, <3>2 DEF PoppedInv, LinksInv
  <2> QED BY ONLY <2>1, IInv, t \in Owners DEF IInv
<1>1. ASSUME NEW u \in Owners \ {t}
      PROVE  pc'[u] = pc[u] /\ cur'[u] = cur[u] /\ stored'[u] = stored[u] /\ result'[u] = result[u]
  <2>1. pc \in [Owners -> Labels] /\ cur \in [Owners -> Ptrs \cup {NoPtr}]
        /\ stored \in [Owners -> BOOLEAN] /\ result \in [Owners -> Values \cup {NoValue}]
    BY ONLY <1>0 DEF TypeOK, Labels
  <2>2. CASE \/ PushLoad(t) \/ PushStore(t) \/ PushCheck(t) \/ PushData(t) \/ PushLink(t)
             \/ PushTail(t) \/ \E p \in Ptrs : PushAlloc(t, p)
    BY ONLY <2>1, <2>2, u \in Owners \ {t}
       DEF Goto, PushLoad, PushStore, PushCheck, PushData, PushLink, PushTail, PushAlloc,
           localVars
  <2>3. CASE \/ PopLoad(t) \/ PopStore(t) \/ PopTail(t) \/ PopCheck(t) \/ PopNext(t)
             \/ PopCAS(t) \/ PopTake(t) \/ PopRetire(t)
    BY ONLY <2>1, <2>3, u \in Owners \ {t}
       DEF Goto, PopLoad, PopStore, PopTail, PopCheck, PopNext, PopCAS, PopTake, PopRetire,
           localVars
  <2>4. CASE \/ EmptyCheck(t) \/ EmptyData(t) \/ EmptyNext(t) \/ EmptyLink(t)
             \/ EmptyTail(t) \/ EmptyRelease(t) \/ \E p \in Ptrs : EmptyAlloc(t, p)
    BY ONLY <2>1, <2>4, u \in Owners \ {t}
       DEF Goto, EmptyCheck, EmptyData, EmptyNext, EmptyLink, EmptyTail, EmptyRelease,
           EmptyAlloc, localVars
  <2>5. CASE Call(t) \/ DeleteUnused(t) \/ ReleaseHazard(t) \/ Return(t)
    BY ONLY <2>1, <2>5, u \in Owners \ {t}
       DEF Goto, Call, CallPop, CallPush, DeleteUnused, ReleaseHazard, Return, localVars
  <2> QED BY ONLY Call(t) \/ Step(t), <2>2, <2>3, <2>4, <2>5 DEF Step, PushStep, PopStep
<1>2. ASSUME NEW u \in Owners \ {t}, pc[u] = "take" PROVE mData'[cur[u]] = mData[cur[u]]
  <2>1. cur[u] \in Ptrs /\ status[cur[u]] = "live" /\ mData[cur[u]] # NoValue
        /\ mData \in [Ptrs -> Values \cup {NoValue}]
    BY ONLY <1>0, <1>2 DEF TypeOK
  <2>2. CASE PushData(t)
    BY ONLY <2>1, <2>2 DEF PushData
  <2>3. CASE \E p \in Ptrs : NewNode(t, p)
    BY ONLY <2>1, <2>3 DEF NewNode, Allocate
  <2>4. CASE UNCHANGED mData
    BY ONLY <2>4
  <2>5. PushData(t) \/ (\E p \in Ptrs : NewNode(t, p)) \/ UNCHANGED mData
    BY ONLY Call(t) \/ Step(t)
       DEF Call, Step, PushStep, PopStep, CallPop, CallPush, PushLoad, PushStore, PushCheck,
           PushLink, PushTail, PushAlloc, PopLoad, PopStore, PopTail, PopCheck, PopNext, PopCAS,
           PopTake, PopRetire, EmptyCheck, EmptyData, EmptyNext, EmptyLink, EmptyTail,
           EmptyRelease, EmptyAlloc, DeleteUnused, ReleaseHazard, Return, sharedVars
  <2> QED BY ONLY <2>2, <2>3, <2>4, <2>5
<1> QED BY ONLY <1>1, <1>2 DEF Frame

(* A step on the list that no caller can tell.                             *)
LEMMA ListSilent ==
  ASSUME IInv, NEW t \in Owners,
         \/ mData' = mData /\ nodes' = nodes
         \/ \E p \in Ptrs : NewNode(t, p) /\ nodes' = nodes
         \/ PushLink(t) \/ EmptyLink(t)
  PROVE  Contents' = Contents
<1>0. TypeOK /\ SharedInv /\ LocalInv(t) /\ Private(t) /\ NodeInv(t)
  BY ONLY IInv, t \in Owners DEF IInv, SharedInv
<1>1. CASE mData' = mData /\ nodes' = nodes
  BY ONLY <1>0, <1>1, ContentsSame
<1>2. CASE \E p \in Ptrs : NewNode(t, p) /\ nodes' = nodes
  <2>1. PICK p \in Ptrs : NewNode(t, p) /\ nodes' = nodes
    BY ONLY <1>2
  <2>2. status[p] = "free" /\ mData' = [mData EXCEPT ![p] = NoValue]
    BY ONLY <2>1 DEF NewNode, Allocate
  <2>3. \A i \in 1 .. Len(nodes) : nodes[i] \in Ptrs /\ nodes[i] # p
    BY ONLY <1>0, <2>2, NodesFacts
  <2>4. \A i \in 1 .. Len(nodes) : mData'[nodes[i]] = mData[nodes[i]]
    BY ONLY <1>0, <2>2, <2>3 DEF TypeOK
  <2> QED BY ONLY <1>0, <2>1, <2>4, ContentsSame
<1>3. CASE PushLink(t) \/ EmptyLink(t)
  <2>1. Link(t) /\ mData' = mData /\ pc[t] \in {"p-link", "e-link"}
    BY ONLY <1>3 DEF PushLink, EmptyLink
  <2>2. CASE mNext[cur[t]] # NoPtr
    BY ONLY <1>0, <2>1, <2>2, ContentsSame DEF Link
  <2>3. CASE mNext[cur[t]] = NoPtr
    <3> PICK k, n : k = Len(nodes) /\ n = node[t]
      OBVIOUS
    <3>1. /\ nodes \in Seq(Ptrs) /\ k \in Nat /\ k >= 1 /\ k \in 1 .. k
          /\ \A i \in 1 .. k : i < k => mData[nodes[i]] # NoValue
          /\ \A i \in 1 .. k : mNext[nodes[i]] = IF i = k THEN NoPtr ELSE nodes[i + 1]
          /\ \E i \in 1 .. k : mTail = nodes[i]
          /\ \A i \in 1 .. k : nodes[i] \in Ptrs
      BY ONLY <1>0, k = Len(nodes) /\ n = node[t], NodesFacts
    <3>2. n \in Ptrs /\ mData[n] = NoValue
      BY ONLY <1>0, <2>1, k = Len(nodes) /\ n = node[t], t \in Owners
         DEF NodeInv, Private, TypeOK
    <3>3. nodes' = Append(nodes, n)
      BY ONLY <2>1, <2>3, k = Len(nodes) /\ n = node[t] DEF Link
    <3>4. /\ Len(nodes') = k + 1 /\ nodes'[k + 1] = n
          /\ \A i \in 1 .. k : nodes'[i] = nodes[i]
      BY ONLY <3>1, <3>2, <3>3, k = Len(nodes) /\ n = node[t], AppendProperties
    <3>5. mData[nodes[k]] # NoValue
      <4>1. cur[t] = mTail /\ mData[cur[t]] # NoValue
        <5>1. Known(cur[t]) /\ mData[cur[t]] # NoValue /\ cur[t] \in Ptrs
          BY ONLY <1>0, <2>1 DEF LocalInv, Safe, Full, Known, Listed
        <5>2. ~ Passed(cur[t])
          BY ONLY <1>0, <2>3, <5>1 DEF SharedInv, LinksInv
        <5> QED BY ONLY <5>1, <5>2 DEF Passed
      <4>2. PICK i \in 1 .. k : mTail = nodes[i]
        BY ONLY <3>1
      <4>3. i = k
        <5>1. i # k => i + 1 \in 1 .. k
          BY ONLY <3>1, i \in 1 .. k
        <5> QED BY ONLY <2>3, <3>1, <4>1, <4>2, <5>1, i \in 1 .. k, NoPtrAssumption
      <4> QED BY ONLY <4>1, <4>2, <4>3
    <3>6. Count = k /\ Count' = k
      BY ONLY <2>1, <3>1, <3>2, <3>4, <3>5, k = Len(nodes) /\ n = node[t] DEF Count
    <3>7. /\ Contents = [i \in 1 .. Count |-> mData[nodes[i]]]
          /\ Contents' = [i \in 1 .. Count' |-> mData'[nodes'[i]]]
      BY ONLY DEF Contents, Count
    <3> QED BY ONLY <2>1, <3>4, <3>6, <3>7
  <2> QED BY ONLY <2>2, <2>3
<1> QED BY ONLY <1>1, <1>2, <1>3,
        \/ mData' = mData /\ nodes' = nodes
        \/ \E p \in Ptrs : NewNode(t, p) /\ nodes' = nodes
        \/ PushLink(t) \/ EmptyLink(t)


(* The steps of push that no caller can tell.                              *)
LEMMA PushSilent ==
  ASSUME IInv, NEW t \in Owners,
         \/ PushLoad(t) \/ PushStore(t) \/ PushCheck(t)
         \/ PushData(t) /\ mData[cur[t]] # NoValue
         \/ PushLink(t) \/ PushTail(t) \/ \E p \in Ptrs : PushAlloc(t, p)
  PROVE  Operation(t)' = Operation(t) /\ Contents' = Contents
<1> USE DEF PushPcs, AfterPushPcs, PopPcs
<1>0. TypeOK /\ ResultInv(t) /\ pc \in [Owners -> Labels]
  BY ONLY IInv, t \in Owners DEF IInv, TypeOK, Labels
<1>1. CASE \/ PushLoad(t) \/ PushStore(t) \/ PushCheck(t)
           \/ PushData(t) /\ mData[cur[t]] # NoValue
  <2>1. /\ pc[t] \in PushPcs /\ stored' = stored /\ result' = result
        /\ mData' = mData /\ nodes' = nodes
    BY ONLY <1>1 DEF PushLoad, PushStore, PushCheck, PushData, sharedVars, localVars
  <2>2. pc'[t] \in PushPcs \cup {"p-link"}
    BY ONLY <1>0, <1>1, t \in Owners DEF PushLoad, PushStore, PushCheck, PushData, Goto
  <2>3. ~ stored[t]
    BY ONLY <1>0, <2>1 DEF ResultInv
  <2>4. Operation(t) = push(result[t]) /\ Operation(t)' = push(result[t])
    BY ONLY <2>1, <2>2, <2>3 DEF Operation, push
  <2> QED BY ONLY IInv, t \in Owners, <2>1, <2>4, ListSilent
<1>2. CASE PushLink(t) \/ PushTail(t) \/ \E p \in Ptrs : PushAlloc(t, p)
  <2>1. /\ pc[t] \in AfterPushPcs /\ stored' = stored /\ result' = result
        /\ pc[t] = "p-alloc" => ~ stored[t]
    BY ONLY <1>0, <1>2 DEF PushLink, PushTail, PushAlloc, ResultInv
  <2>2. pc'[t] \in IF stored[t] THEN {"p-tail", "delete"} ELSE {"p-alloc", "p-tail", "p-load"}
    BY ONLY <1>0, <1>2, <2>1, t \in Owners DEF PushLink, PushTail, PushAlloc, Goto
  <2>3. Operation(t)' = Operation(t)
    <3>1. CASE stored[t]
      <4>1. Operation(t) = done(result[t]) /\ Operation(t)' = done(result[t])
        BY ONLY <2>1, <2>2, <3>1 DEF Operation, done
      <4> QED BY ONLY <4>1
    <3>2. CASE ~ stored[t]
      <4>1. Operation(t) = push(result[t]) /\ Operation(t)' = push(result[t])
        BY ONLY <2>1, <2>2, <3>2 DEF Operation, push
      <4> QED BY ONLY <4>1
    <3> QED BY ONLY <3>1, <3>2
  <2>4. \/ mData' = mData /\ nodes' = nodes
        \/ \E p \in Ptrs : NewNode(t, p) /\ nodes' = nodes
        \/ PushLink(t)
    BY ONLY <1>2 DEF PushTail, PushAlloc
  <2> QED BY ONLY IInv, t \in Owners, <2>3, <2>4, ListSilent
<1> QED BY ONLY <1>1, <1>2,
         \/ PushLoad(t) \/ PushStore(t) \/ PushCheck(t)
         \/ PushData(t) /\ mData[cur[t]] # NoValue
         \/ PushLink(t) \/ PushTail(t) \/ \E p \in Ptrs : PushAlloc(t, p)

(* The steps of tryPop that no caller can tell.                            *)
LEMMA PopSilent ==
  ASSUME IInv, NEW t \in Owners,
         \/ PopLoad(t) \/ PopStore(t) \/ PopTail(t) \/ PopCheck(t) \/ PopNext(t)
         \/ PopCAS(t) /\ mHead # cur[t]
         \/ EmptyCheck(t) \/ (EmptyData(t) /\ mData[cur[t]] # NoValue)
         \/ EmptyNext(t) \/ EmptyLink(t) \/ EmptyTail(t)
         \/ (EmptyRelease(t) /\ pc[t] = "e-release")
         \/ \E p \in Ptrs : EmptyAlloc(t, p)
  PROVE  Operation(t)' = Operation(t) /\ Contents' = Contents
<1> USE DEF PushPcs, AfterPushPcs, PopPcs
<1>0. pc \in [Owners -> Labels]
  BY ONLY IInv DEF IInv, TypeOK, Labels
<1>1. CASE \/ PopLoad(t) \/ PopStore(t) \/ PopTail(t) \/ PopCheck(t) \/ PopNext(t)
           \/ PopCAS(t) /\ mHead # cur[t]
  <2>1. pc[t] \in PopPcs /\ pc'[t] \in PopPcs /\ mData' = mData /\ nodes' = nodes
    BY ONLY <1>0, <1>1, t \in Owners
       DEF PopLoad, PopStore, PopTail, PopCheck, PopNext, PopCAS, Goto, sharedVars
  <2>2. Operation(t) = pop /\ Operation(t)' = pop
    BY ONLY <2>1 DEF Operation, pop
  <2> QED BY ONLY IInv, t \in Owners, <2>1, <2>2, ListSilent
<1>2. CASE \/ EmptyCheck(t) \/ (EmptyData(t) /\ mData[cur[t]] # NoValue)
           \/ EmptyNext(t) \/ EmptyTail(t) \/ (EmptyRelease(t) /\ pc[t] = "e-release")
  <2>1. pc[t] \in PopPcs /\ pc'[t] \in PopPcs /\ mData' = mData /\ nodes' = nodes
    BY ONLY <1>0, <1>2, t \in Owners
       DEF EmptyCheck, EmptyData, EmptyNext, EmptyTail, EmptyRelease, Goto, sharedVars
  <2>2. Operation(t) = pop /\ Operation(t)' = pop
    BY ONLY <2>1 DEF Operation, pop
  <2> QED BY ONLY IInv, t \in Owners, <2>1, <2>2, ListSilent
<1>3. CASE EmptyLink(t) \/ \E p \in Ptrs : EmptyAlloc(t, p)
  <2>1. /\ pc[t] \in PopPcs /\ pc'[t] \in PopPcs
        /\ EmptyLink(t) \/ \E p \in Ptrs : NewNode(t, p) /\ nodes' = nodes
    BY ONLY <1>0, <1>3, t \in Owners DEF EmptyLink, EmptyAlloc, Goto
  <2>2. Operation(t) = pop /\ Operation(t)' = pop
    BY ONLY <2>1 DEF Operation, pop
  <2> QED BY ONLY IInv, t \in Owners, <2>1, <2>2, ListSilent
<1> QED BY ONLY <1>1, <1>2, <1>3,
         \/ PopLoad(t) \/ PopStore(t) \/ PopTail(t) \/ PopCheck(t) \/ PopNext(t)
         \/ PopCAS(t) /\ mHead # cur[t]
         \/ EmptyCheck(t) \/ (EmptyData(t) /\ mData[cur[t]] # NoValue)
         \/ EmptyNext(t) \/ EmptyLink(t) \/ EmptyTail(t)
         \/ (EmptyRelease(t) /\ pc[t] = "e-release")
         \/ \E p \in Ptrs : EmptyAlloc(t, p)

(* The steps of an operation that has taken effect.                        *)
LEMMA DoneSilent ==
  ASSUME IInv, NEW t \in Owners,
         \/ PopTake(t) \/ PopRetire(t) \/ (EmptyRelease(t) /\ pc[t] = "empty")
         \/ DeleteUnused(t) \/ ReleaseHazard(t)
  PROVE  Operation(t)' = Operation(t) /\ Contents' = Contents
<1> USE DEF PushPcs, AfterPushPcs, PopPcs
<1>0. pc \in [Owners -> Labels] /\ result \in [Owners -> Values \cup {NoValue}]
  BY ONLY IInv DEF IInv, TypeOK, Labels
<1>1. mData' = mData /\ nodes' = nodes
  BY ONLY \/ PopTake(t) \/ PopRetire(t) \/ (EmptyRelease(t) /\ pc[t] = "empty")
          \/ DeleteUnused(t) \/ ReleaseHazard(t)
     DEF PopTake, PopRetire, EmptyRelease, DeleteUnused, ReleaseHazard, sharedVars
<1>2. Operation(t)' = Operation(t)
  <2>1. CASE PopTake(t)
    <3>1. pc[t] = "take" /\ pc'[t] = "retire" /\ result'[t] = mData[cur[t]]
      BY ONLY <1>0, <2>1, t \in Owners DEF PopTake, Goto
    <3>2. Operation(t) = done(mData[cur[t]]) /\ Operation(t)' = done(mData[cur[t]])
      BY ONLY <3>1 DEF Operation, done
    <3> QED BY ONLY <3>2
  <2>2. CASE \/ PopRetire(t) \/ (EmptyRelease(t) /\ pc[t] = "empty")
             \/ DeleteUnused(t) \/ ReleaseHazard(t)
    <3>1. /\ pc[t] \in {"retire", "empty", "delete", "release"}
          /\ pc'[t] \in {"delete", "release", "done"} /\ result' = result
      BY ONLY <1>0, <2>2, t \in Owners
         DEF PopRetire, EmptyRelease, DeleteUnused, ReleaseHazard, Goto, localVars
    <3>2. Operation(t) = done(result[t]) /\ Operation(t)' = done(result[t])
      BY ONLY <3>1 DEF Operation, done
    <3> QED BY ONLY <3>2
  <2> QED BY ONLY <2>1, <2>2,
         \/ PopTake(t) \/ PopRetire(t) \/ (EmptyRelease(t) /\ pc[t] = "empty")
         \/ DeleteUnused(t) \/ ReleaseHazard(t)
<1> QED BY ONLY IInv, t \in Owners, <1>1, <1>2, ListSilent

(* A call and a return.                                                    *)
LEMMA CallMaps ==
  ASSUME IInv, NEW t \in Owners, Call(t) \/ Return(t)
  PROVE  Abstract!Next
<1> USE DEF PushPcs, AfterPushPcs, PopPcs
<1>0. /\ TypeOK /\ Frame(t) /\ pc \in [Owners -> Labels]
      /\ stored \in [Owners -> BOOLEAN] /\ result \in [Owners -> Values \cup {NoValue}]
  BY ONLY IInv, t \in Owners, Alone, Call(t) \/ Return(t) DEF IInv, TypeOK, Labels, Step
<1>1. CASE CallPop(t)
  <2>1. pc[t] = "idle" /\ pc'[t] = "load" /\ mData' = mData /\ nodes' = nodes
    BY ONLY <1>0, <1>1, t \in Owners DEF CallPop, Goto, sharedVars
  <2>2. Operation(t) = idle /\ Operation(t)' = pop
    BY ONLY <2>1 DEF Operation, idle, pop
  <2>3. Contents' = Contents
    BY ONLY IInv, t \in Owners, <2>1, ListSilent
  <2>4. Ops[t] = idle /\ AbstractStep(t, pop, Contents)
    BY ONLY <1>0, <2>2, <2>3, t \in Owners, OpsStep DEF Ops, AbstractStep
  <2> QED BY ONLY <2>4, t \in Owners, AbstractNext
<1>2. CASE \E v \in Values, p \in Ptrs : CallPush(t, v, p)
  <2>1. PICK v \in Values, p \in Ptrs : CallPush(t, v, p)
    BY ONLY <1>2
  <2>2. /\ pc[t] = "idle" /\ pc'[t] = "p-load" /\ result'[t] = v /\ ~ stored'[t]
        /\ NewNode(t, p) /\ nodes' = nodes
    BY ONLY <1>0, <2>1, t \in Owners DEF CallPush, Goto
  <2>3. Operation(t) = idle /\ Operation(t)' = push(v)
    BY ONLY <2>2 DEF Operation, idle, push
  <2>4. Contents' = Contents
    BY ONLY IInv, t \in Owners, p \in Ptrs, <2>2, ListSilent
  <2>5. Ops[t] = idle /\ AbstractStep(t, push(v), Contents)
    BY ONLY <1>0, <2>3, <2>4, t \in Owners, OpsStep DEF Ops, AbstractStep
  <2> QED BY ONLY <2>5, t \in Owners, v \in Values, AbstractNext
<1>3. CASE Return(t)
  <2>1. pc[t] = "done" /\ pc'[t] = "idle" /\ mData' = mData /\ nodes' = nodes
    BY ONLY <1>0, <1>3, t \in Owners DEF Return, Goto, sharedVars
  <2>2. Operation(t) = done(result[t]) /\ Operation(t)' = idle
    BY ONLY <2>1 DEF Operation, idle, done
  <2>3. Contents' = Contents
    BY ONLY IInv, t \in Owners, <2>1, ListSilent
  <2>4. Ops[t] = done(result[t]) /\ AbstractStep(t, idle, Contents)
    BY ONLY <1>0, <2>2, <2>3, t \in Owners, OpsStep DEF Ops, AbstractStep
  <2> QED BY ONLY <2>4, t \in Owners, AbstractNext
<1> QED BY ONLY <1>1, <1>2, <1>3, Call(t) \/ Return(t) DEF Call


(* The compare-and-swap of mData fills the last node of the list.          *)
LEMMA PushMaps ==
  ASSUME IInv, NEW t \in Owners, PushData(t), mData[cur[t]] = NoValue
  PROVE  Abstract!Next
<1> PICK k, c, v : k = Len(nodes) /\ c = cur[t] /\ v = result[t]
  OBVIOUS
<1>0. /\ TypeOK /\ SharedInv /\ LocalInv(t) /\ ResultInv(t) /\ Frame(t)
      /\ pc \in [Owners -> Labels] /\ mData \in [Ptrs -> Values \cup {NoValue}]
      /\ stored \in [Owners -> BOOLEAN] /\ result \in [Owners -> Values \cup {NoValue}]
  <2>1. Frame(t)
    BY ONLY IInv, t \in Owners, PushData(t), Alone DEF Step, PushStep
  <2> QED BY ONLY IInv, t \in Owners, <2>1 DEF IInv, TypeOK, Labels
<1>1. /\ pc[t] = "p-data" /\ pc'[t] = "p-link" /\ stored'[t] /\ result'[t] = NoValue
      /\ mData' = [mData EXCEPT ![c] = v] /\ nodes' = nodes
  BY ONLY <1>0, PushData(t), mData[cur[t]] = NoValue, t \in Owners,
          k = Len(nodes) /\ c = cur[t] /\ v = result[t] DEF PushData, Goto
<1>2. ~ stored[t] /\ v \in Values /\ v # NoValue
  BY ONLY <1>0, <1>1, ValuesAssumption, k = Len(nodes) /\ c = cur[t] /\ v = result[t]
     DEF ResultInv, PushPcs
<1>3. Operation(t) = push(v) /\ Operation(t)' = done(NoValue)
  BY ONLY <1>1, <1>2, k = Len(nodes) /\ c = cur[t] /\ v = result[t]
     DEF Operation, push, done, PushPcs, AfterPushPcs, PopPcs
<1>4. /\ k \in Nat /\ k >= 1 /\ k \in 1 .. k
      /\ \A i \in 1 .. k : nodes[i] \in Ptrs
      /\ \A i \in 1 .. k : i < k => mData[nodes[i]] # NoValue
      /\ \E i \in 1 .. k : mTail = nodes[i]
  BY ONLY <1>0, NodesFacts, k = Len(nodes) /\ c = cur[t] /\ v = result[t]
<1>5. c = nodes[k] /\ mData[c] = NoValue /\ c \in Ptrs
  <2>1. Known(c) /\ c \in Ptrs /\ mData[c] = NoValue
    BY ONLY <1>0, <1>1, mData[cur[t]] = NoValue, k = Len(nodes) /\ c = cur[t] /\ v = result[t]
       DEF LocalInv, Safe, Known, Listed
  <2>2. c = mTail
    BY ONLY <1>0, <2>1 DEF SharedInv, LinksInv, Passed
  <2>3. PICK i \in 1 .. k : mTail = nodes[i]
    BY ONLY <1>4
  <2>4. i = k
    BY ONLY <1>4, <2>1, <2>2, <2>3, i \in 1 .. k
  <2> QED BY ONLY <2>1, <2>2, <2>3, <2>4
<1>6. \A i \in 1 .. k : mData'[nodes[i]] = IF i = k THEN v ELSE mData[nodes[i]]
  <2>1. ASSUME NEW i \in 1 .. k, i # k PROVE nodes[i] # c /\ nodes[i] \in Ptrs
    <3>1. i < k
      BY ONLY <1>4, <2>1
    <3> QED BY ONLY <1>4, <1>5, <3>1, i \in 1 .. k
  <2> QED BY ONLY <1>0, <1>1, <1>5, <2>1
<1>7. Count = k - 1 /\ Count' = k
  BY ONLY <1>1, <1>2, <1>4, <1>5, <1>6, k = Len(nodes) /\ c = cur[t] /\ v = result[t] DEF Count
<1>8. Contents' = Append(Contents, v)
  <2>1. /\ Contents \in Seq(Values \cup {NoValue}) /\ Len(Contents) = k - 1
        /\ \A i \in 1 .. k - 1 : Contents[i] = mData[nodes[i]]
    BY ONLY <1>0, <1>7, ContentsSeq
  <2>2. Contents' = [i \in 1 .. Count' |-> mData'[nodes'[i]]]
    BY ONLY DEF Contents, Count
  <2> DEFINE d == Append(Contents, v)
  <2>3. /\ d \in Seq(Values \cup {NoValue}) /\ Len(d) = k /\ d[k] = v
        /\ \A i \in 1 .. k - 1 : d[i] = Contents[i]
    <3>1. v \in Values \cup {NoValue} /\ k - 1 + 1 = k
      BY ONLY <1>2, <1>4
    <3> QED BY ONLY <2>1, <3>1, AppendProperties
  <2> HIDE DEF d
  <2>4. d = [i \in 1 .. k |-> d[i]]
    BY ONLY <2>3
  <2>5. ASSUME NEW i \in 1 .. k PROVE d[i] = mData'[nodes[i]]
    <3>1. i = k \/ (i \in 1 .. k - 1 /\ i # k)
      BY ONLY <1>4, i \in 1 .. k
    <3> QED BY ONLY <1>6, <2>1, <2>3, <3>1, i \in 1 .. k
  <2>6. d = Contents'
    BY ONLY <1>1, <1>7, <2>2, <2>4, <2>5
  <2> QED BY ONLY <2>6 DEF d
<1>9. Ops[t] = push(v) /\ AbstractStep(t, done(NoValue), Append(Contents, v))
  BY ONLY <1>0, <1>3, <1>8, t \in Owners, OpsStep DEF Ops, AbstractStep
<1> QED BY ONLY <1>9, t \in Owners, AbstractNext

(* The compare-and-swap of mHead takes the first node, which has a value.   *)
LEMMA PopMaps ==
  ASSUME IInv, NEW t \in Owners, PopCAS(t), mHead = cur[t]
  PROVE  Abstract!Next
<1> PICK k, c : k = Len(nodes) /\ c = cur[t]
  OBVIOUS
<1>0. TypeOK /\ SharedInv /\ LocalInv(t) /\ Frame(t) /\ pc \in [Owners -> Labels]
  <2>1. Frame(t)
    BY ONLY IInv, t \in Owners, PopCAS(t), Alone DEF Step, PopStep
  <2> QED BY ONLY IInv, t \in Owners, <2>1 DEF IInv, TypeOK, Labels
<1>1. /\ pc[t] = "cas" /\ pc'[t] = "take" /\ mData' = mData /\ cur' = cur
      /\ nodes' = SubSeq(nodes, 2, Len(nodes)) /\ c # mTail
  BY ONLY <1>0, PopCAS(t), mHead = cur[t], t \in Owners, k = Len(nodes) /\ c = cur[t]
     DEF PopCAS, Goto, LocalInv
<1>2. Operation(t) = pop /\ Operation(t)' = done(mData[c])
  BY ONLY <1>1, k = Len(nodes) /\ c = cur[t]
     DEF Operation, pop, done, PushPcs, AfterPushPcs, PopPcs
<1>3. /\ nodes \in Seq(Ptrs) /\ k \in Nat /\ k >= 1 /\ c = nodes[1] /\ 1 \in 1 .. k
      /\ \E i \in 1 .. k : mTail = nodes[i]
  BY ONLY <1>0, NodesFacts, mHead = cur[t], k = Len(nodes) /\ c = cur[t]
<1>4. k >= 2
  BY ONLY <1>1, <1>3
<1>5. Len(nodes') = k - 1 /\ \A i \in 1 .. k - 1 : nodes'[i] = nodes[i + 1]
  BY ONLY <1>1, <1>3, <1>4, k = Len(nodes) /\ c = cur[t]
<1>6. Count \in Nat /\ Count >= 1 /\ Count <= k /\ Count' = Count - 1
  <2>1. nodes'[k - 1] = nodes[k]
    BY ONLY <1>4, <1>3, <1>5
  <2> QED BY ONLY <1>1, <1>3, <1>4, <1>5, <2>1, k = Len(nodes) /\ c = cur[t] DEF Count
<1>7. /\ Contents \in Seq(Values \cup {NoValue}) /\ Len(Contents) = Count /\ Contents # <<>>
      /\ \A i \in 1 .. Count : Contents[i] = mData[nodes[i]]
  <2>1. /\ Contents \in Seq(Values \cup {NoValue}) /\ Len(Contents) = Count
        /\ \A i \in 1 .. Count : Contents[i] = mData[nodes[i]]
    BY ONLY <1>0, ContentsSeq
  <2>2. Contents # <<>>
    BY ONLY <1>6, <2>1, EmptySeq
  <2> QED BY ONLY <2>1, <2>2
<1>8. Head(Contents) = mData[c]
  <2>1. Head(Contents) = Contents[1] /\ 1 \in 1 .. Count
    BY ONLY <1>6, <1>7, HeadTailProperties
  <2> QED BY ONLY <1>3, <1>7, <2>1
<1>9. Contents' = Tail(Contents)
  <2> DEFINE d == Tail(Contents)
  <2>1. /\ d \in Seq(Values \cup {NoValue}) /\ Len(d) = Count - 1
        /\ \A i \in 1 .. Count - 1 : d[i] = Contents[i + 1]
    <3>1. /\ Tail(Contents) \in Seq(Values \cup {NoValue})
          /\ Len(Tail(Contents)) = Len(Contents) - 1
          /\ \A i \in 1 .. Len(Tail(Contents)) : Tail(Contents)[i] = Contents[i + 1]
      BY ONLY <1>7, HeadTailProperties
    <3> QED BY ONLY <1>7, <3>1
  <2> HIDE DEF d
  <2>2. d = [i \in 1 .. Count - 1 |-> d[i]]
    BY ONLY <2>1
  <2>3. Contents' = [i \in 1 .. Count' |-> mData'[nodes'[i]]]
    BY ONLY DEF Contents, Count
  <2>4. ASSUME NEW i \in 1 .. Count - 1 PROVE d[i] = mData[nodes'[i]]
    <3>1. i \in 1 .. k - 1 /\ i + 1 \in 1 .. Count
      BY ONLY <1>3, <1>6, i \in 1 .. Count - 1
    <3> QED BY ONLY <1>5, <1>7, <2>1, <3>1, i \in 1 .. Count - 1
  <2>5. d = Contents'
    BY ONLY <1>1, <1>6, <2>2, <2>3, <2>4
  <2> QED BY ONLY <2>5 DEF d
<1>10. Ops[t] = pop /\ AbstractStep(t, done(Head(Contents)), Tail(Contents))
  BY ONLY <1>0, <1>2, <1>8, <1>9, t \in Owners, OpsStep DEF Ops, AbstractStep
<1> QED BY ONLY <1>7, <1>10, t \in Owners, AbstractNext

(* The load of mData finds that the queue is empty: the node, compared with *)
(* mTail only, is still the head, for all nodes before it are full.        *)
LEMMA EmptyMaps ==
  ASSUME IInv, NEW t \in Owners, EmptyData(t), mData[cur[t]] = NoValue
  PROVE  Abstract!Next
<1> PICK k, c : k = Len(nodes) /\ c = cur[t]
  OBVIOUS
<1>0. TypeOK /\ SharedInv /\ LocalInv(t) /\ ResultInv(t) /\ Frame(t) /\ pc \in [Owners -> Labels]
  <2>1. Frame(t)
    BY ONLY IInv, t \in Owners, EmptyData(t), Alone DEF Step, PopStep
  <2> QED BY ONLY IInv, t \in Owners, <2>1 DEF IInv, TypeOK, Labels
<1>1. /\ pc[t] = "e-data" /\ pc'[t] = "empty" /\ mData' = mData /\ nodes' = nodes
      /\ result' = result /\ result[t] = NoValue
  BY ONLY <1>0, EmptyData(t), mData[cur[t]] = NoValue, t \in Owners
     DEF EmptyData, Goto, sharedVars, localVars, ResultInv, PopPcs
<1>2. Operation(t) = pop /\ Operation(t)' = done(NoValue)
  BY ONLY <1>1 DEF Operation, pop, done, PushPcs, AfterPushPcs, PopPcs
<1>3. mData[c] = NoValue /\ c = mHead
  <2>1. c \in Ptrs /\ (c = mHead \/ Popped(c)) /\ mData[c] = NoValue
    BY ONLY <1>0, <1>1, mData[cur[t]] = NoValue, k = Len(nodes) /\ c = cur[t]
       DEF LocalInv, Safe, Headed, Reached, Known, Listed
  <2>2. ~ Popped(c)
    BY ONLY <1>0, <2>1 DEF SharedInv, PoppedInv, LinksInv
  <2> QED BY ONLY <2>1, <2>2
<1>4. Contents = <<>>
  <2>1. /\ k \in Nat /\ k >= 1 /\ mHead = nodes[1] /\ 1 \in 1 .. k
        /\ \A i \in 1 .. k : i < k => mData[nodes[i]] # NoValue
    BY ONLY <1>0, NodesFacts, k = Len(nodes) /\ c = cur[t]
  <2>2. k = 1
    BY ONLY <1>3, <2>1
  <2>3. Count = 0
    <3>1. Count = IF mData[nodes[k]] = NoValue THEN k - 1 ELSE k
      BY ONLY k = Len(nodes) /\ c = cur[t] DEF Count
    <3>2. mData[nodes[k]] = NoValue
      BY ONLY <1>3, <2>1, <2>2
    <3> QED BY ONLY <2>2, <3>1, <3>2
  <2> QED BY ONLY <1>0, <2>3, ContentsSeq, EmptySeq
<1>5. Contents' = Contents
  BY ONLY IInv, t \in Owners, <1>1, ListSilent
<1>6. Ops[t] = pop /\ AbstractStep(t, done(NoValue), Contents)
  BY ONLY <1>0, <1>2, <1>5, t \in Owners, OpsStep DEF Ops, AbstractStep
<1> QED BY ONLY <1>4, <1>6, t \in Owners, AbstractNext

LEMMA InitMaps == Init => Abstract!Init
<1> SUFFICES ASSUME Init PROVE Abstract!Init
  OBVIOUS
<1>1. Contents = <<>>
  <2>1. nodes = <<mHead>> /\ mData[mHead] = NoValue
    BY ONLY Init DEF Init
  <2>2. Len(nodes) = 1 /\ nodes[1] = mHead
    BY ONLY <2>1
  <2> QED BY ONLY <2>1, <2>2 DEF Contents
<1>2. ASSUME NEW t \in Owners PROVE Operation(t) = [name |-> "idle", val |-> NoValue]
  <2>1. pc[t] = "idle"
    BY ONLY Init, t \in Owners DEF Init
  <2> QED BY ONLY <2>1 DEF Operation, PushPcs, AfterPushPcs, PopPcs
<1> QED BY ONLY <1>1, <1>2 DEF Abstract!Init, Abstract!Idle

LEMMA StepMaps ==
  ASSUME IInv, NEW t \in Owners, Call(t) \/ Step(t)
  PROVE  Abstract!Next \/ AbstractStutter
<1>1. CASE Call(t) \/ Return(t)
  BY ONLY IInv, t \in Owners, <1>1, CallMaps
<1>2. CASE PushData(t) /\ mData[cur[t]] = NoValue
  BY ONLY IInv, t \in Owners, <1>2, PushMaps
<1>3. CASE PopCAS(t) /\ mHead = cur[t]
  BY ONLY IInv, t \in Owners, <1>3, PopMaps
<1>4. CASE EmptyData(t) /\ mData[cur[t]] = NoValue
  BY ONLY IInv, t \in Owners, <1>4, EmptyMaps
<1>5. ASSUME Operation(t)' = Operation(t) /\ Contents' = Contents PROVE AbstractStutter
  <2>1. Frame(t)
    BY ONLY IInv, t \in Owners, Call(t) \/ Step(t), Alone
  <2> QED BY ONLY <1>5, <2>1, t \in Owners, OpsStep DEF AbstractStutter
<1>6. CASE \/ PushLoad(t) \/ PushStore(t) \/ PushCheck(t)
           \/ PushData(t) /\ mData[cur[t]] # NoValue
           \/ PushLink(t) \/ PushTail(t) \/ \E p \in Ptrs : PushAlloc(t, p)
  BY ONLY IInv, t \in Owners, <1>5, <1>6, PushSilent
<1>7. CASE \/ PopLoad(t) \/ PopStore(t) \/ PopTail(t) \/ PopCheck(t) \/ PopNext(t)
           \/ PopCAS(t) /\ mHead # cur[t]
           \/ EmptyCheck(t) \/ (EmptyData(t) /\ mData[cur[t]] # NoValue)
           \/ EmptyNext(t) \/ EmptyLink(t) \/ EmptyTail(t)
           \/ (EmptyRelease(t) /\ pc[t] = "e-release")
           \/ \E p \in Ptrs : EmptyAlloc(t, p)
  BY ONLY IInv, t \in Owners, <1>5, <1>7, PopSilent
<1>8. CASE \/ PopTake(t) \/ PopRetire(t) \/ (EmptyRelease(t) /\ pc[t] = "empty")
           \/ DeleteUnused(t) \/ ReleaseHazard(t)
  BY ONLY IInv, t \in Owners, <1>5, <1>8, DoneSilent
<1>9. EmptyRelease(t) => pc[t] \in {"e-release", "empty"}
  BY ONLY DEF EmptyRelease
<1> QED BY ONLY Call(t) \/ Step(t), <1>1, <1>2, <1>3, <1>4, <1>6, <1>7, <1>8, <1>9
        DEF Step, PushStep, PopStep

LEMMA NextMaps ==
  IInv /\ [Next]_vars => [Abstract!Next]_<<Contents, [t \in Owners |-> Operation(t)]>>
<1> SUFFICES ASSUME IInv, [Next]_vars
             PROVE  [Abstract!Next]_<<Contents, [t \in Owners |-> Operation(t)]>>
  OBVIOUS
<1> SUFFICES Abstract!Next \/ AbstractStutter
  BY DEF AbstractStutter, Ops
<1>1. ASSUME NEW t \in Owners, Call(t) \/ Step(t)
      PROVE  Abstract!Next \/ AbstractStutter
  BY ONLY IInv, <1>1, StepMaps
<1>2. ASSUME NEW p \in Ptrs, Reclaim(p)
      PROVE  AbstractStutter
  BY ONLY <1>2 DEF Reclaim, sharedVars, localVars, AbstractStutter, Ops, Operation, Contents
<1>3. CASE UNCHANGED vars
  BY ONLY <1>3 DEF vars, AbstractStutter, Ops, Operation, Contents
<1> QED BY ONLY [Next]_vars, <1>1, <1>2, <1>3 DEF Next

(* Every step of the queue is one of AbstractQueue, for any number of       *)
(* threads, addresses and values: no value is lost, duplicated or overtaken *)
(* and tryPop returns nullptr of an empty queue only, until an address      *)
(* comes back that a tryPop has yet to validate.                           *)
THEOREM LinearizableCorrect == Spec => Linearizable
<1>1. Init => Inv
  BY ONLY InitIInv DEF Inv
<1>2. Inv /\ Inv' /\ [Next]_vars =>
        [reused' \/ Abstract!Next]_<<Contents, [t \in Owners |-> Operation(t)]>>
  <2> SUFFICES ASSUME Inv, Inv', [Next]_vars, ~ reused'
               PROVE  [Abstract!Next]_<<Contents, [t \in Owners |-> Operation(t)]>>
    OBVIOUS
  <2>1. ~ reused => [Abstract!Next]_<<Contents, [t \in Owners |-> Operation(t)]>>
    BY ONLY Inv, [Next]_vars, NextMaps DEF Inv
  <2> QED BY ONLY <2>1, Inv, [Next]_vars, ~ reused', Monotone
<1> QED BY ONLY <1>1, <1>2, InitMaps, NextInv, PTL DEF Spec, Linearizable
=============================================================================
