-------------------------- MODULE LockFreeHashMap ---------------------------
(***************************************************************************)
(* LockFreeHashMap: one sorted list holds all elements; a bucket refers to *)
(* a sentinel node in it, from where the search for the keys of the bucket *)
(* starts.  The keys are sorted by their hash with the bits reversed, so   *)
(* that a bucket that is split needs nothing but one more sentinel, which  *)
(* the first thread that looks for it inserts.  A node is removed in two   *)
(* steps, a mark on its link and a compare-and-swap of the link before it, *)
(* and whoever finds a marked node on its way does the second step.        *)
(*                                                                         *)
(* A claim (load, store of the hazard pointer, second load) is one step    *)
(* here: ClaimPointer has its parts.  It takes effect at the second load,  *)
(* so the node is protected from then on and no earlier.  A node is        *)
(* allocated by the step that links it; until then it is private.          *)
(*                                                                         *)
(* find judges the node it returns by the mark of the node before it.      *)
(* With FindAmongRemoves = FALSE it is called only while no removed node   *)
(* is in the list and no remove is running: this separates the rest of the *)
(* algorithm from that mistake.                                            *)
(***************************************************************************)
EXTENDS Integers, Sequences, FiniteSetsExt, TLC

CONSTANTS Threads, Ptrs, NoPtr, Keys, NoKey,
          Hash,              \* Hash[k]: mHash(k)
          Bits,              \* HashValueTypeBitWidth
          InitialSize,       \* the number of buckets at the start, 2
          Threshold,         \* sThreshold: elements in a bucket before it is split
          SizeRange,         \* the number of values of mSize, 2^32
          MaxSize,           \* bound: the number of buckets
          FindAmongRemoves

VARIABLES
  slot, status, holders,  \* the hazard pointer domain, see Reclamation
  mNext,    \* mNext[n]: the link of node n and its mark
  mKey,     \* mKey[p]: the key of the node at address p
  mBuckets, \* mBuckets[i]: the sentinel of bucket i, or NoPtr
  size,     \* how many of them are in use
  mSize,    \* the number of elements
  loc       \* loc[t]: the local variables of thread t

mapVars == <<mNext, mKey, mBuckets, size, mSize>>
vars == <<slot, status, holders, mapVars, loc>>

Owners == Threads \X {1, 2, 3}
R == INSTANCE Reclamation
rvars == <<slot, status, holders>>

(* A sentinel is named by its bucket.  They are never removed.              *)
Sentinels == 0 .. MaxSize - 1
End == MaxSize        \* the node at the end of the list
Nodes == Ptrs \cup Sentinels \cup {End}

-----------------------------------------------------------------------------
(* Split ordering.                                                         *)
Reverse(v) ==
  LET rev[i \in 0 .. Bits] ==
        IF i = 0 THEN 0 ELSE 2 * rev[i - 1] + ((v \div 2^(i - 1)) % 2)
  IN  rev[Bits]

Masked(v) == v % 2^(Bits - 2)   \* v & sMask
makeSentinelKey(v) == Reverse(Masked(v))

(* Mutant: the lowest bit is not set.                                      *)
makeOrdinaryKeyEven(v) == Reverse(Masked(v))
makeOrdinaryKey(v) == Reverse(Masked(v)) + 1

hashValueOf(n) ==
  IF n = End THEN 2^Bits - 1
  ELSE IF n \in Ptrs THEN makeOrdinaryKey(Hash[mKey[n]])
  ELSE makeSentinelKey(n)

(* The bucket that bucket i was split off: i without its highest bit.      *)
getParentIndex(i) == IF i = 0 THEN 0 ELSE i - Max({2^e : e \in 0 .. Bits} \cap 1 .. i)

-----------------------------------------------------------------------------
(* A thread outside the map.                                               *)
Away == [pc |-> "idle", op |-> "none", key |-> NoKey, index |-> 0, path |-> <<>>,
         pred |-> NoPtr, cur |-> NoPtr, succ |-> NoPtr, hp |-> <<1, 2, 3>>,
         result |-> FALSE, seen |-> {}, alone |-> FALSE]

Init ==
  /\ R!ReclamationInit
  /\ mNext = [n \in Nodes |-> <<IF n = 0 THEN End ELSE NoPtr, FALSE>>]
  /\ mKey = [p \in Ptrs |-> NoKey]
  /\ mBuckets = [i \in Sentinels |-> IF i = 0 THEN 0 ELSE NoPtr]
  /\ size = InitialSize
  /\ mSize = 0
  /\ loc = [t \in Threads |-> Away]

Succ(n) == mNext[n][1]
Marked(n) == mNext[n][2]

(* The keys in the map: those of the linked nodes without a mark.          *)
Contents == {mKey[p] : p \in {q \in Ptrs : status[q] = "live" /\ ~Marked(q)}}

Set(t, l) == loc' = [loc EXCEPT ![t] = l]

(* Hazard pointer i of t announces a[i], for the i in the domain of a.     *)
Announce(t, a) ==
  LET changed == {o \in Owners : o[1] = t /\ o[2] \in DOMAIN a} IN
  /\ slot' = [o \in Owners |-> IF o \in changed THEN a[o[2]] ELSE slot[o]]
  /\ holders' = [p \in Ptrs |-> {o \in holders[p] : o \in changed => a[o[2]] = p}]
  /\ UNCHANGED status

(* Mutant: the node is used without a hazard pointer.                      *)
ClaimNothing(t, h, n) == UNCHANGED rvars

(* The holder number h claims n: 1, 2, 3 are those of pred, cur and succ,   *)
(* which are swapped when find goes on, and loc[t].hp keeps account of it. *)
Claim(t, h, n) ==
  Announce(t, [i \in {loc[t].hp[h]} |-> IF n \in Ptrs THEN n ELSE NoPtr])

(* The holders of t go out of scope.                                       *)
ReleaseAll(t) == Announce(t, [i \in 1 .. 3 |-> NoPtr])

Done(l, r) == [Away EXCEPT !.pc = "done", !.op = l.op, !.key = l.key,
                           !.result = r, !.alone = l.alone]
Restart(l) == [Away EXCEPT !.pc = "start", !.op = l.op, !.key = l.key, !.index = l.index,
                           !.path = l.path, !.seen = l.seen, !.alone = l.alone]

(* What find looks for: the sentinel path begins with, or the key; and where *)
(* it starts.                                                              *)
target(l) == IF l.path # <<>> THEN makeSentinelKey(Head(l.path))
             ELSE makeOrdinaryKey(Hash[l.key])
head(l) == mBuckets[IF l.path # <<>> THEN getParentIndex(Head(l.path)) ELSE l.index]

(* Is n what l looks for?                                                  *)
Matches(l, n) ==
  IF l.path # <<>> THEN n = Head(l.path) ELSE n \in Ptrs /\ mKey[n] = l.key

-----------------------------------------------------------------------------
(* A call, up to mBuckets.size().                                          *)
Removing(t) == loc[t].op = "remove" /\ loc[t].pc # "done"
Finding(t) == loc[t].op = "find" /\ loc[t].pc # "done"
Called(t, o) ==
  \/ o = "insert" \/ FindAmongRemoves
  \/ o = "remove" /\ \A u \in Threads : ~Finding(u)
  \/ /\ o = "find" /\ \A u \in Threads : ~Removing(u)
     /\ \A p \in Ptrs : status[p] = "live" => ~Marked(p)

Call(t) ==
  /\ loc[t].pc = "idle"
  /\ \E o \in {"insert", "remove", "find"}, k \in Keys :
       /\ Called(t, o)
       /\ loc' = [u \in Threads |->
            IF u # t THEN [loc[u] EXCEPT !.alone = FALSE]
            ELSE [Away EXCEPT !.pc = "bucket", !.op = o, !.key = k,
                              !.index = Hash[k] % size, !.seen = {k \in Contents},
                              !.alone = o = "find" /\ \A v \in Threads : loc[v].pc = "idle"]]
  /\ UNCHANGED <<rvars, mapVars>>

(* getSentinelNode; a bucket without a sentinel needs insertSentinel, and   *)
(* first of all the same for the bucket it was split off.                  *)
getSentinelNode(t) ==
  /\ loc[t].pc = "bucket"
  /\ LET l == loc[t] IN
       Set(t, IF mBuckets[l.index] = NoPtr
              THEN [l EXCEPT !.path = <<l.index>>, !.pc = "parent"]
              ELSE [l EXCEPT !.pc = "start"])
  /\ UNCHANGED <<rvars, mapVars>>

insertSentinel(t) ==
  /\ loc[t].pc = "parent"
  /\ LET l == loc[t]
         parent == getParentIndex(Head(l.path))
     IN  Set(t, IF mBuckets[parent] = NoPtr
                THEN [l EXCEPT !.path = <<parent>> \o @]
                ELSE [l EXCEPT !.pc = "start"])
  /\ UNCHANGED <<rvars, mapVars>>

-----------------------------------------------------------------------------
(* LockFreeList::find.  It starts at the sentinel ...                      *)
find(t) ==
  /\ loc[t].pc = "start" /\ (loc[t].op = "find" => loc[t].path # <<>>)
  /\ LET l == loc[t]
         cur == Succ(head(l))
     IN  /\ Announce(t, [i \in {l.hp[1], l.hp[2]} |->
                          IF i = l.hp[2] /\ cur \in Ptrs THEN cur ELSE NoPtr])
         /\ Set(t, [l EXCEPT !.pred = head(l), !.cur = cur, !.pc = "succ"])
  /\ UNCHANGED mapVars

(* ... claims the successor of cur, to unlink cur if it is marked ...      *)
claimSucc(t) ==
  /\ loc[t].pc = "succ" /\ Marked(loc[t].cur)
  /\ Claim(t, 3, Succ(loc[t].cur))
  /\ Set(t, [loc[t] EXCEPT !.succ = Succ(loc[t].cur), !.pc = "unlink"])
  /\ UNCHANGED mapVars

stops(l) == Matches(l, l.cur) \/ target(l) < hashValueOf(l.cur)

(* ... or to go on to it ...                                               *)
advance(t) ==
  /\ loc[t].pc = "succ" /\ ~Marked(loc[t].cur) /\ ~stops(loc[t])
  /\ Claim(t, 3, Succ(loc[t].cur))
  /\ LET l == loc[t] IN
       Set(t, [l EXCEPT !.pred = l.cur, !.cur = Succ(l.cur),
                        !.hp = <<l.hp[2], l.hp[3], l.hp[1]>>])
  /\ UNCHANGED mapVars

(* ... until it has come to the place of the key.  Then its caller has      *)
(* nothing to do: the sentinel or the key is there already, or it is not   *)
(* there to be removed ...                                                 *)
refuse(t) ==
  /\ loc[t].pc = "succ" /\ ~Marked(loc[t].cur) /\ stops(loc[t])
  /\ LET l == loc[t]
         found == Matches(l, l.cur)
     IN  IF l.path = <<>>
         THEN found = (l.op = "insert") /\ Set(t, Done(l, FALSE))
         ELSE found /\ Set(t, [Restart(l) EXCEPT !.pc = "publish"])
  /\ ReleaseAll(t)
  /\ UNCHANGED mapVars

(* ... or goes to work between pred and cur, or on cur.                    *)
findReturns(t) ==
  /\ loc[t].pc = "succ" /\ ~Marked(loc[t].cur) /\ stops(loc[t])
  /\ LET l == loc[t]
         removes == l.op = "remove" /\ l.path = <<>>
     IN  /\ Matches(l, l.cur) = removes
         /\ Set(t, [l EXCEPT !.pc = IF removes THEN "next" ELSE "link"])
  /\ Claim(t, 3, NoPtr)
  /\ UNCHANGED mapVars

(* pred->mNext.compare_exchange_strong(cur, succ, false, false)            *)
Unlinked(l) == [mNext EXCEPT ![l.pred] = <<l.succ, FALSE>>]

unlink(t) ==
  /\ loc[t].pc = "unlink"
  /\ LET l == loc[t] IN
       IF mNext[l.pred] = <<l.cur, FALSE>>
       THEN mNext' = Unlinked(l) /\ Set(t, [l EXCEPT !.pc = "retire"])
       ELSE Set(t, [l EXCEPT !.pc = "start"]) /\ UNCHANGED mNext
  /\ UNCHANGED <<rvars, mKey, mBuckets, size, mSize>>

(* cur is released and retired; find then goes on behind it, remove is done *)
(* but for the counter.                                                    *)
retire(t) ==
  /\ loc[t].pc \in {"retire", "retireOwn"}
  /\ LET l == loc[t] IN
       /\ slot' = [slot EXCEPT ![<<t, l.hp[2]>>] = NoPtr]
       /\ status' = [status EXCEPT ![l.cur] = "retired"]
       /\ holders' = [p \in Ptrs |-> IF p = l.cur THEN {o \in Owners : slot'[o] = p}
                                     ELSE holders[p]]
       /\ Set(t, IF l.pc = "retireOwn" THEN [l EXCEPT !.pc = "uncount"]
                 ELSE [l EXCEPT !.pc = "succ", !.cur = l.succ,
                                !.hp = <<l.hp[1], l.hp[3], l.hp[2]>>])
  /\ UNCHANGED mapVars

-----------------------------------------------------------------------------
(* The change of k is seen by everyone who has asked for it.               *)
Seen(k, present) ==
  [u \in Threads |-> IF loc[u].key = k /\ loc[u].pc # "done"
                     THEN [loc[u] EXCEPT !.seen = @ \cup {present}] ELSE loc[u]]

(* Mutant: the new node gets the link of cur.                              *)
InsertedPast(l, n) == [mNext EXCEPT ![n] = mNext[l.cur], ![l.pred] = <<n, FALSE>>]

(* The compare-and-swap of insertSentinel and of LockFreeList::add.         *)
Inserted(l, n) == [mNext EXCEPT ![n] = <<l.cur, FALSE>>, ![l.pred] = <<n, FALSE>>]

linkSentinel(t) ==
  /\ loc[t].pc = "link" /\ loc[t].path # <<>>
  /\ LET l == loc[t] IN
       /\ mNext[l.pred] = <<l.cur, FALSE>>
       /\ mNext' = Inserted(l, Head(l.path))
       /\ Set(t, [Restart(l) EXCEPT !.pc = "publish"])
  /\ ReleaseAll(t)
  /\ UNCHANGED <<mKey, mBuckets, size, mSize>>

add(t) ==
  /\ loc[t].pc = "link" /\ loc[t].path = <<>>
  /\ LET l == loc[t] IN
       /\ mNext[l.pred] = <<l.cur, FALSE>>
       /\ \E p \in Ptrs :
            /\ status[p] = "free"
            /\ status' = [status EXCEPT ![p] = "live"]
            /\ mNext' = Inserted(l, p)
            /\ mKey' = [mKey EXCEPT ![p] = l.key]
       /\ slot' = [o \in Owners |-> IF o[1] = t THEN NoPtr ELSE slot[o]]
       /\ holders' = [p \in Ptrs |-> {o \in holders[p] : o[1] # t}]
       /\ loc' = [Seen(l.key, TRUE) EXCEPT ![t] = [Restart(l) EXCEPT !.pc = "count"]]
  /\ UNCHANGED <<mBuckets, size, mSize>>

linkFails(t) ==
  /\ loc[t].pc = "link"
  /\ mNext[loc[t].pred] # <<loc[t].cur, FALSE>>
  /\ ReleaseAll(t)
  /\ Set(t, Restart(loc[t]))
  /\ UNCHANGED mapVars

(* The end of insertSentinel: whoever comes first sets the bucket.         *)
publish(t) ==
  /\ loc[t].pc = "publish"
  /\ LET l == loc[t] IN
       /\ mBuckets' = [mBuckets EXCEPT ![Head(l.path)] = Head(l.path)]
       /\ Set(t, [Restart(l) EXCEPT !.path = Tail(l.path)])
  /\ ReleaseAll(t)
  /\ UNCHANGED <<mNext, mKey, size, mSize>>

(* Mutant: an insert that extends the buckets forgets to count.            *)
countLess(t) ==
  /\ loc[t].pc = "count"
  /\ mSize' = IF mSize \div size > Threshold THEN mSize ELSE (mSize + 1) % SizeRange
  /\ Set(t, IF mSize \div size > Threshold THEN [loc[t] EXCEPT !.pc = "extend"]
            ELSE Done(loc[t], TRUE))
  /\ UNCHANGED <<rvars, mNext, mKey, mBuckets, size>>

(* insert: mSize.fetch_add(1), mBuckets.size() and maybe mBuckets.extend(). *)
count(t) ==
  /\ loc[t].pc = "count"
  /\ mSize' = (mSize + 1) % SizeRange
  /\ Set(t, IF mSize \div size > Threshold THEN [loc[t] EXCEPT !.pc = "extend"]
            ELSE Done(loc[t], TRUE))
  /\ UNCHANGED <<rvars, mNext, mKey, mBuckets, size>>

(* It does nothing if another thread has extended at the same time: since    *)
(* mBuckets.size() or between its own load and compare-and-swap.           *)
extend(t) ==
  /\ loc[t].pc = "extend"
  /\ size' \in {size} \cup ({2 * size} \cap 1 .. MaxSize)
  /\ Set(t, Done(loc[t], TRUE))
  /\ UNCHANGED <<rvars, mNext, mKey, mBuckets, mSize>>

-----------------------------------------------------------------------------
(* LockFreeList::remove, once find has found the key.                      *)
loadNext(t) ==
  /\ loc[t].pc = "next"
  /\ Set(t, [loc[t] EXCEPT !.succ = Succ(loc[t].cur), !.pc = "mark"])
  /\ UNCHANGED <<rvars, mapVars>>

mark(t) ==
  /\ loc[t].pc = "mark"
  /\ LET l == loc[t] IN
       IF mNext[l.cur] = <<l.succ, FALSE>>
       THEN /\ mNext' = [mNext EXCEPT ![l.cur] = <<l.succ, TRUE>>]
            /\ loc' = [Seen(l.key, FALSE) EXCEPT ![t] = [l EXCEPT !.pc = "snip"]]
            /\ UNCHANGED rvars
       ELSE /\ ReleaseAll(t) /\ UNCHANGED mNext
            /\ Set(t, Restart(l))
  /\ UNCHANGED <<mKey, mBuckets, size, mSize>>

snip(t) ==
  /\ loc[t].pc = "snip"
  /\ LET l == loc[t] IN
       IF mNext[l.pred] = <<l.cur, FALSE>>
       THEN mNext' = Unlinked(l) /\ Set(t, [l EXCEPT !.pc = "retireOwn"])
       ELSE Set(t, [l EXCEPT !.pc = "uncount"]) /\ UNCHANGED mNext
  /\ UNCHANGED <<rvars, mKey, mBuckets, size, mSize>>

(* Mutant: mSize is signed.                                                *)
uncountSigned(t) ==
  /\ loc[t].pc = "uncount"
  /\ mSize' = mSize - 1
  /\ ReleaseAll(t)
  /\ Set(t, Done(loc[t], TRUE))
  /\ UNCHANGED <<mNext, mKey, mBuckets, size>>

uncount(t) ==
  /\ loc[t].pc = "uncount"
  /\ mSize' = (mSize + SizeRange - 1) % SizeRange
  /\ ReleaseAll(t)
  /\ Set(t, Done(loc[t], TRUE))
  /\ UNCHANGED <<mNext, mKey, mBuckets, size>>

-----------------------------------------------------------------------------
(* LockFreeList::get: it walks along all links, marked or not, and returns  *)
(* what it has come to, if the link it came by was not marked.             *)
get(t) ==
  /\ loc[t].op = "find" /\ loc[t].path = <<>> /\ loc[t].pc \in {"start", "walk"}
  /\ LET l == loc[t]
         pred == IF l.pc = "start" THEN head(l) ELSE l.cur
         cur == Succ(pred)
         found == Matches(l, cur)
     IN  IF found \/ target(l) < hashValueOf(cur)
         THEN /\ ReleaseAll(t)
              /\ Set(t, Done(l, found /\ ~Marked(pred)))
         ELSE /\ Claim(t, 3, cur)
              /\ Set(t, [l EXCEPT !.pc = "walk", !.cur = cur,
                                  !.hp = <<l.hp[2], l.hp[3], l.hp[1]>>])
  /\ UNCHANGED mapVars

Return(t) ==
  /\ loc[t].pc = "done"
  /\ Set(t, Away)
  /\ UNCHANGED <<rvars, mapVars>>

(* The domain deletes a node.                                              *)
Reclaim(p) ==
  /\ R!Free(p)
  /\ mNext' = [mNext EXCEPT ![p] = <<NoPtr, FALSE>>]
  /\ mKey' = [mKey EXCEPT ![p] = NoKey]
  /\ UNCHANGED <<mBuckets, size, mSize, loc>>

Step(t) ==
  \/ getSentinelNode(t) \/ insertSentinel(t)
  \/ find(t) \/ claimSucc(t) \/ advance(t) \/ refuse(t) \/ findReturns(t)
  \/ unlink(t) \/ retire(t)
  \/ linkSentinel(t) \/ add(t) \/ linkFails(t) \/ publish(t)
  \/ count(t) \/ extend(t)
  \/ loadNext(t) \/ mark(t) \/ snip(t) \/ uncount(t)
  \/ get(t) \/ Return(t)

Next == (\E t \in Threads : Call(t) \/ Step(t)) \/ \E p \in Ptrs : Reclaim(p)

Spec == Init /\ [][Next]_vars

-----------------------------------------------------------------------------
(* PROPERTIES                                                              *)

TypeOK ==
  /\ R!ReclamationTypeOK
  /\ mNext \in [Nodes -> (Nodes \cup {NoPtr}) \X BOOLEAN]
  /\ mKey \in [Ptrs -> Keys \cup {NoKey}]
  /\ \A i \in Sentinels : mBuckets[i] \in {i, NoPtr}
  /\ size \in InitialSize .. MaxSize
  /\ mSize \in 0 .. SizeRange - 1
  /\ \A t \in Threads : loc[t].index < size /\ {loc[t].hp[i] : i \in 1 .. 3} = 1 .. 3

(* The nodes in the list, in order.                                        *)
List ==
  LET from[i \in 0 .. Cardinality(Nodes)] ==
        IF i = 0 THEN <<0>>
        ELSE LET s == from[i - 1]
                 n == Succ(s[Len(s)])
             IN  IF n = NoPtr THEN s ELSE Append(s, n)
  IN  from[Cardinality(Nodes)]

(* The list is never broken: it ends at its end, it is sorted, it holds the  *)
(* sentinel of every bucket that is set and every node that is not removed,  *)
(* and no key twice.                                                       *)
ListInv ==
  LET linked == {List[i] : i \in 1 .. Len(List)}
      present == {p \in Ptrs : status[p] = "live" /\ ~Marked(p)}
  IN  /\ TypeOK
      /\ List[Len(List)] = End
      /\ \A i \in 1 .. Len(List) - 1 : hashValueOf(List[i]) <= hashValueOf(List[i + 1])
      /\ {i \in Sentinels : mBuckets[i] # NoPtr} \cup present \subseteq linked
      /\ \A p, q \in present : mKey[p] = mKey[q] => p = q

(* No node is used after it was deleted, and none is retired twice.        *)
NoUseAfterFree ==
  \A t \in Threads :
    LET l == loc[t]
        used == CASE l.pc \in {"succ", "next", "mark", "walk"} -> {l.cur}
                  [] l.pc \in {"unlink", "link", "snip"} -> {l.cur, l.pred}
                  [] OTHER -> {}
    IN  /\ \A p \in used \cap Ptrs : status[p] # "free"
        /\ l.pc \in {"retire", "retireOwn"} => status[l.cur] = "live"

(* mSize is the number of elements, but for the threads that have yet to    *)
(* change it; in between it may be less than nothing.                       *)
SizeCounts ==
  LET at(pcs, o) == Cardinality({t \in Threads : loc[t].pc \in pcs /\ loc[t].op = o})
  IN  (mSize + at({"count"}, "insert")) % SizeRange =
        (Cardinality(Contents) + at({"snip", "retireOwn", "uncount"}, "remove")) % SizeRange

(* A thread is done in the abstract once its change has taken effect.      *)
Operation(t) ==
  LET l == loc[t] IN
  CASE l.pc = "idle" -> [name |-> "idle", key |-> NoKey, seen |-> {}]
    [] l.pc \in {"count", "extend", "snip", "retireOwn", "uncount"} ->
         [name |-> "done", key |-> NoKey, seen |-> {TRUE}]
    [] l.pc = "done" -> [name |-> "done", key |-> NoKey, seen |-> {l.result}]
    [] OTHER -> [name |-> l.op, key |-> l.key, seen |-> l.seen]

(* A find that nothing else overlaps is right.                             *)
FindIsRight ==
  \A t \in Threads : loc[t].pc = "done" /\ loc[t].alone =>
    (loc[t].result <=> loc[t].key \in Contents)

Abstract == INSTANCE AbstractSet WITH
  set <- Contents, op <- [t \in Threads |-> Operation(t)]

(* The map is linearizable: what insert and remove return and what find     *)
(* finds was true at some instant during the call.                         *)
Linearizable == Abstract!Spec

-----------------------------------------------------------------------------
(* For TLC: std::hash of an integer.  The keys 1 and 3 share a bucket of two *)
(* and not of four.                                                        *)
MCHash == [k \in Keys |-> k]

(* Threads and addresses are interchangeable.                              *)
Symmetry == Permutations(Threads) \cup Permutations(Ptrs)
=============================================================================
