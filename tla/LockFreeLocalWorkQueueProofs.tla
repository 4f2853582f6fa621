--------------------- MODULE LockFreeLocalWorkQueueProofs --------------------
(***************************************************************************)
(* Machine-checked proofs, for any number of thieves, of tasks and for any *)
(* initial capacity, that a slot of the array is not written while a thief *)
(* may still take what is in it, and that the deque implements             *)
(* AbstractDeque.                                                          *)
(*                                                                         *)
(* IInv is inductive: NoOverwrite speaks of the thief that has read, IInv  *)
(* also of the thief that has only claimed an array, which may be replaced *)
(* since, and of the interval of the indices in each step of the owner.    *)
(***************************************************************************)
EXTENDS LockFreeLocalWorkQueue, SequenceTheorems, TLAPS

(* A leaf may take a prover half a minute.                                 *)
USE SMTT(30), ZenonT(30)

Stealing == {"steal", "stealBottom", "stealClaim", "stealGet", "stealCAS"}

(* How mTop stands to mBottom and to what the owner has loaded.            *)
OwnerInv ==
  LET o == Owner
  IN  /\ pc[o] \in {"idle", "push", "pop", "done"} \cup Stealing => mTop <= mBottom
      /\ pc[o] \in {"put", "pushBottom"} =>
           bottom[o] = mBottom /\ top[o] <= mTop /\ mTop <= mBottom
      /\ pc[o] = "put" => mBottom - top[o] <= Capacity(Len(arrays))
      /\ pc[o] = "pushBottom" =>
           /\ mBottom + 1 - mTop <= Capacity(Len(arrays))
           /\ task[o] = Get(Len(arrays), mBottom)
      /\ pc[o] = "popTop" => bottom[o] = mBottom /\ mTop <= mBottom + 1
      /\ pc[o] = "reset" => top[o] = mTop /\ mTop = mBottom + 1
      /\ pc[o] = "popClaim" =>
           /\ bottom[o] = mBottom /\ top[o] <= mBottom /\ top[o] <= mTop
           /\ mTop <= End
      /\ pc[o] = "popCAS" =>
           /\ bottom[o] = mBottom /\ top[o] = mBottom
           /\ mTop \in {mBottom, mBottom + 1}
           /\ task[o] = Get(Len(arrays), mBottom)
      /\ pc[o] = "popBottom" => top[o] = mBottom /\ mTop = mBottom + 1
      /\ pc[o] \in {"push", "put", "pushBottom"} => task[o] \in Tasks
      /\ pc[o] \in {"idle", "pop", "popTop", "reset", "popClaim"} => task[o] = NoTask
      /\ mBottom - mTop <= Capacity(Len(arrays))

(* What a thief will take is what the last array holds at mTop, although   *)
(* it reads the one it has claimed.                                        *)
ThiefInv(t) ==
  /\ pc[t] \in {"stealBottom", "stealClaim", "stealGet", "stealCAS"} => top[t] <= mTop
  /\ pc[t] \in {"stealClaim", "stealGet", "stealCAS"} /\ mTop = top[t] => mTop < End
  /\ pc[t] = "stealGet" => array[t] \in 1 .. Len(arrays)
  /\ pc[t] = "stealGet" /\ mTop = top[t] => Get(array[t], mTop) = Get(Len(arrays), mTop)
  /\ pc[t] = "stealCAS" /\ mTop = top[t] => task[t] = Get(Len(arrays), mTop)
  /\ pc[t] \in {"idle", "steal", "stealBottom", "stealClaim", "stealGet"} => task[t] = NoTask
  /\ t # Owner => pc[t] \in {"idle", "done"} \cup Stealing

IInv == TypeOK /\ OwnerInv /\ \A t \in Threads : ThiefInv(t)

-----------------------------------------------------------------------------
(* Indices modulo the size of an array.                                    *)

LEMMA ModRange ==
  ASSUME NEW i \in Int, NEW n \in Nat \ {0}
  PROVE  i % n \in 0 .. n - 1
OBVIOUS

(* Two indices less than n apart have slots of their own.                  *)
LEMMA ModApart ==
  ASSUME NEW i \in Int, NEW j \in Int, NEW n \in Nat \ {0}, i < j, j < i + n
  PROVE  i % n # j % n
<1> SUFFICES ASSUME i % n = j % n PROVE FALSE
  OBVIOUS
<1> DEFINE p == i \div n
<1> DEFINE q == j \div n
<1>1. i = n * p + (i % n) /\ p \in Int
  OBVIOUS
<1>2. j = n * q + (j % n) /\ q \in Int
  OBVIOUS
<1>3. i % n \in Int
  OBVIOUS
<1> HIDE DEF p, q
<1>4. j - i = n * q - n * p
  BY <1>1, <1>2, <1>3
<1>5. CASE q <= p
  <2>1. n * q <= n * p
    BY ONLY <1>5, <1>1, <1>2
  <2> QED BY <2>1, <1>4, <1>1, <1>2
<1>6. CASE q >= p + 1
  <2>1. n * q >= n * p + n
    BY ONLY <1>6, <1>1, <1>2
  <2> QED BY <2>1, <1>4, <1>1, <1>2
<1> QED BY ONLY <1>5, <1>6, <1>1, <1>2

-----------------------------------------------------------------------------
(* The circular array.                                                     *)

Slots == Seq(Tasks \cup {NoTask}) \ {<<>>}

LEMMA AtType ==
  ASSUME NEW a \in Slots, NEW i \in Int
  PROVE  At(a, i) \in Tasks \cup {NoTask}
<1>1. Len(a) \in Nat \ {0}
  BY DEF Slots
<1>2. (i % Len(a)) + 1 \in 1 .. Len(a)
  <2>1. i % Len(a) \in 0 .. Len(a) - 1
    BY ONLY <1>1, ModRange
  <2> QED BY ONLY <2>1, <1>1
<1> QED BY ONLY <1>2 DEF At, Slots

(* put changes one slot.                                                   *)
LEMMA PutAt ==
  ASSUME NEW a \in Slots, NEW i \in Int, NEW p \in Tasks \cup {NoTask}
  PROVE  /\ Put(a, i, p) \in Slots
         /\ Len(Put(a, i, p)) = Len(a)
         /\ At(Put(a, i, p), i) = p
         /\ \A j \in Int : j % Len(a) # i % Len(a) => At(Put(a, i, p), j) = At(a, j)
<1> DEFINE m == Len(a)
           s == (i % m) + 1
           b == [a EXCEPT ![s] = p]
<1>1. m \in Nat \ {0}
  BY DEF Slots
<1>2. \A j \in Int : j % m \in 0 .. m - 1
  BY ONLY <1>1, ModRange
<1>3. s \in 1 .. m
  <2>1. i % m \in 0 .. m - 1
    BY ONLY <1>2
  <2> HIDE DEF m
  <2> QED BY ONLY <2>1, <1>1 DEF s
<1> HIDE DEF m, s
<1>4. b \in Seq(Tasks \cup {NoTask}) /\ Len(b) = Len(a)
  BY ONLY <1>3, ExceptSeq DEF m, Slots
<1>5. b # <<>>
  BY ONLY <1>4, <1>1 DEF m
<1>6. \A k \in 1 .. m : b[k] = IF k = s THEN p ELSE a[k]
  BY ONLY <1>3 DEF m, Slots
<1>7. \A j \in Int : (j % m) + 1 \in 1 .. m
  BY ONLY <1>1, <1>2
<1>8. Put(a, i, p) = b
  BY DEF Put, m, s
<1> HIDE DEF b
<1>9. At(b, i) = p
  BY ONLY <1>3, <1>4, <1>6 DEF At, m, s
<1>10. ASSUME NEW j \in Int, j % m # i % m
       PROVE  At(b, j) = At(a, j)
  <2>1. (j % m) + 1 # s
    <3>1. j % m \in 0 .. m - 1 /\ i % m \in 0 .. m - 1
      BY ONLY <1>2
    <3> QED BY ONLY <1>10, <3>1, <1>1 DEF s
  <2>2. b[(j % m) + 1] = a[(j % m) + 1]
    BY ONLY <2>1, <1>6, <1>7
  <2> QED BY ONLY <2>2, <1>4 DEF At, m
<1> QED BY ONLY <1>4, <1>5, <1>8, <1>9, <1>10 DEF Slots, m

(* The copy holds what the array did between t and b - 1.                  *)
LEMMA CopyAt ==
  ASSUME TypeOK, NEW n \in Nat \ {0}, NEW b \in Int, NEW t \in Int, b - t <= n
  PROVE  /\ Copy(n, b, t) \in Slots
         /\ Len(Copy(n, b, t)) = n
         /\ \A j \in t .. b - 1 : At(Copy(n, b, t), j) = Get(Len(arrays), j)
<1> DEFINE old(i) == {j \in t .. b - 1 : (j % n) + 1 = i}
           e(i) == IF old(i) = {} THEN NoTask ELSE Get(Len(arrays), CHOOSE j \in old(i) : TRUE)
           c == [i \in 1 .. n |-> e(i)]
<1>1. Copy(n, b, t) = c
  BY DEF Copy
<1>2. arrays[Len(arrays)] \in Slots
  BY DEF TypeOK, Slots
<1>3. \A i \in 1 .. n : e(i) \in Tasks \cup {NoTask}
  <2> TAKE i \in 1 .. n
  <2>1. CASE old(i) = {}
    BY ONLY <2>1
  <2>2. CASE old(i) # {}
    <3>1. (CHOOSE j \in old(i) : TRUE) \in Int
      BY ONLY <2>2
    <3> QED BY ONLY <3>1, <2>2, <1>2, AtType DEF Get
  <2> QED BY ONLY <2>1, <2>2
<1>4. c \in Seq(Tasks \cup {NoTask}) /\ Len(c) = n /\ c # <<>>
  <2> HIDE DEF e
  <2>1. c \in Seq(Tasks \cup {NoTask}) /\ Len(c) = n
    BY ONLY <1>3
  <2> QED BY ONLY <2>1
<1>5. ASSUME NEW j \in t .. b - 1
      PROVE  At(c, j) = Get(Len(arrays), j)
  <2> DEFINE i == (j % n) + 1
  <2>1. i \in 1 .. n
    <3>1. j % n \in 0 .. n - 1
      BY ONLY ModRange
    <3> QED BY ONLY <3>1
  <2>2. old(i) = {j}
    <3>1. ASSUME NEW l \in old(i), l # j PROVE FALSE
      <4>1. l \in t .. b - 1 /\ l % n = j % n
        <5>1. l \in t .. b - 1 /\ (l % n) + 1 = (j % n) + 1 /\ l \in Int /\ j \in Int
          OBVIOUS
        <5> HIDE DEF old
        <5>2. j % n \in 0 .. n - 1
          BY ONLY <5>1, ModRange
        <5>3. l % n \in 0 .. n - 1
          BY ONLY <5>1, ModRange
        <5> QED BY ONLY <5>1, <5>2, <5>3
      <4>2. CASE l < j
        <5>1. l \in Int /\ j \in Int /\ j < l + n
          BY <4>1
        <5> QED BY ONLY <5>1, <4>1, <4>2, ModApart
      <4>3. CASE j < l
        <5>1. l \in Int /\ j \in Int /\ l < j + n
          BY <4>1
        <5> QED BY ONLY <5>1, <4>1, <4>3, ModApart
      <4> QED BY ONLY <4>1, <4>2, <4>3, <3>1
    <3> QED BY ONLY <3>1
  <2>3. e(i) = Get(Len(arrays), j)
    BY ONLY <2>2
  <2>4. At(c, j) = c[i]
    BY ONLY <1>4 DEF At
  <2> HIDE DEF e, i
  <2> QED BY ONLY <2>1, <2>3, <2>4
<1> QED BY ONLY <1>1, <1>4, <1>5 DEF Slots

(* The owner's put spares the slots between mTop and mBottom, in the array *)
(* it replaces and in the last one.                                        *)
LEMMA PutSpares ==
  ASSUME IInv, PushPut
  PROVE  /\ arrays' \in Seq(Slots) \ {<<>>}
         /\ Len(arrays') >= Len(arrays)
         /\ \A j \in mTop .. mBottom - 1 : Get(Len(arrays), j)' = Get(Len(arrays), j)
         /\ \A k \in 1 .. Len(arrays), j \in mTop .. mBottom - 1 : Get(k, j)' = Get(k, j)
         /\ Get(Len(arrays), mBottom)' = task[Owner]
         /\ mBottom + 1 - mTop <= Capacity(Len(arrays))'
<1> DEFINE n == Len(arrays)
           b == mBottom
           t == top[Owner]
           m == Capacity(n)
           p == task[Owner]
<1>1. /\ arrays \in Seq(Slots) \ {<<>>} /\ n \in Nat \ {0}
      /\ \A k \in 1 .. n : arrays[k] \in Slots
      /\ b \in Int /\ t \in Int /\ mTop \in Int /\ p \in Tasks
  BY SMTT(20) DEF IInv, TypeOK, Slots, PushPut, OwnerInv, Threads
<1>2. bottom[Owner] = b /\ t <= mTop /\ mTop <= b /\ b - t <= m
  BY DEF IInv, OwnerInv, PushPut
<1>3. m \in Nat \ {0}
  BY ONLY <1>1 DEF Capacity, Slots
<1>4. CASE m - 1 <= b - t
  <2> DEFINE c == Resized(b, t)
             a == Put(c, b, p)
  <2>1. c \in Slots /\ Len(c) = 2 * m /\ \A j \in t .. b - 1 : At(c, j) = Get(n, j)
    <3>1. 2 * m \in Nat \ {0} /\ b - t <= 2 * m
      BY ONLY <1>1, <1>2, <1>3
    <3>2. c = Copy(2 * m, b, t)
      BY DEF Resized
    <3> HIDE DEF m, b, t, c, n
    <3> QED BY <3>1, <3>2, <1>1, CopyAt DEF IInv, n
  <2>2. /\ a \in Slots /\ Len(a) = 2 * m /\ At(a, b) = p
        /\ \A j \in Int : j % (2 * m) # b % (2 * m) => At(a, j) = At(c, j)
    BY ONLY <2>1, <1>1, PutAt
  <2>3. \A j \in mTop .. b - 1 : At(a, j) = Get(n, j)
    <3> TAKE j \in mTop .. b - 1
    <3> HIDE DEF m, b, t, c, n, a
    <3>1. j \in Int /\ j < b /\ b < j + 2 * m /\ j \in t .. b - 1 /\ 2 * m \in Nat \ {0}
      BY ONLY <1>1, <1>2, <1>3
    <3>2. j % (2 * m) # b % (2 * m)
      BY ONLY <3>1, <1>1, ModApart
    <3> QED BY ONLY <3>1, <3>2, <2>1, <2>2
  <2>4. arrays' = Append(arrays, a)
    BY <1>2, <1>4 DEF PushPut
  <2> HIDE DEF a, c, m, b, t, p
  <2>5. /\ arrays' \in Seq(Slots) \ {<<>>} /\ Len(arrays') = n + 1
        /\ arrays'[n + 1] = a /\ \A k \in 1 .. n : arrays'[k] = arrays[k]
    BY ONLY <2>2, <2>4, <1>1
  <2>6. mBottom' = mBottom /\ mTop' = mTop
    BY DEF PushPut
  <2> QED BY ONLY <2>2, <2>3, <2>5, <2>6, <1>1, <1>2, <1>3, SMTT(20) DEF Get, Capacity, b, p
<1>5. CASE ~ (m - 1 <= b - t)
  <2> DEFINE c == arrays[n]
             a == Put(c, b, p)
  <2>1. c \in Slots /\ Len(c) = m
    BY ONLY <1>1 DEF Capacity
  <2>2. /\ a \in Slots /\ Len(a) = m /\ At(a, b) = p
        /\ \A j \in Int : j % m # b % m => At(a, j) = At(c, j)
    BY ONLY <2>1, <1>1, PutAt
  <2>3. \A j \in mTop .. b - 1 : At(a, j) = Get(n, j)
    <3> TAKE j \in mTop .. b - 1
    <3>0. Get(n, j) = At(c, j)
      BY DEF Get
    <3> HIDE DEF m, b, t, c, n, a
    <3>1. j \in Int /\ j < b /\ b < j + m
      BY ONLY <1>1, <1>2, <1>3, <1>5
    <3>2. j % m # b % m
      BY ONLY <3>1, <1>1, <1>3, ModApart
    <3> QED BY ONLY <3>0, <3>1, <3>2, <2>2
  <2>4. arrays' = [arrays EXCEPT ![n] = a]
    BY <1>2, <1>5 DEF PushPut
  <2> HIDE DEF a, c, m, b, t, p
  <2>5. /\ arrays' \in Seq(Slots) \ {<<>>} /\ Len(arrays') = n
        /\ arrays'[n] = a /\ \A k \in 1 .. n - 1 : arrays'[k] = arrays[k]
    <3>1. arrays' \in Seq(Slots) /\ Len(arrays') = n
      BY ONLY <2>2, <2>4, <1>1, ExceptSeq
    <3>2. DOMAIN arrays = 1 .. n
      BY ONLY <1>1
    <3>3. arrays'[n] = a /\ \A k \in 1 .. n - 1 : arrays'[k] = arrays[k]
      <4> HIDE DEF n
      <4> QED BY ONLY <3>2, <2>4, <1>1
    <3>4. arrays' # <<>>
      BY ONLY <3>1, <1>1
    <3> QED BY ONLY <3>1, <3>3, <3>4
  <2>6. mBottom' = mBottom /\ mTop' = mTop
    BY DEF PushPut
  <2>7. \A k \in 1 .. n, j \in mTop .. b - 1 : Get(k, j)' = Get(k, j)
    BY ONLY <2>3, <2>5, <1>1 DEF Get
  <2> QED BY ONLY <2>2, <2>3, <2>5, <2>6, <2>7, <1>1, <1>2, <1>3, <1>5 DEF Get, Capacity, b, p
<1> QED BY ONLY <1>4, <1>5

-----------------------------------------------------------------------------
(* IInv is inductive.                                                      *)

LEMMA InitIInv == Init => IInv
<1> SUFFICES ASSUME Init PROVE IInv
  OBVIOUS
<1> DEFINE a == [i \in 1 .. InitialCapacity |-> NoTask]
<1>1. a \in Slots /\ Len(a) = InitialCapacity
  BY ONLY CapacityAssumption DEF Slots
<1>2. arrays = <<a>>
  BY DEF Init
<1>3. arrays \in Seq(Slots) \ {<<>>} /\ Len(arrays) = 1 /\ arrays[1] = a
  <2> HIDE DEF a
  <2> QED BY ONLY <1>1, <1>2
<1> QED
  BY <1>1, <1>3, CapacityAssumption
  DEF Init, IInv, TypeOK, OwnerInv, ThiefInv, Slots, Capacity, Stealing, Threads, Tasks

(* What the last array holds is a task or nothing.                         *)
LEMMA GetType ==
  ASSUME TypeOK, NEW k \in 1 .. Len(arrays), NEW i \in Int
  PROVE  Get(k, i) \in Tasks \cup {NoTask}
<1>1. arrays[k] \in Slots
  BY DEF TypeOK, Slots
<1> QED BY ONLY <1>1, AtType DEF Get

(* The owner's steps, put aside, leave the arrays alone.                   *)
LEMMA OwnerSteps ==
  ASSUME IInv,
         \/ CallPush \/ PushLoad \/ PushBottom \/ CallPop \/ PopBottom
         \/ PopTop \/ PopReset \/ PopGet \/ PopCAS \/ PopRestore
  PROVE  IInv'
<1> USE DEF IInv, Goto
<1>0. /\ Owner \in Threads /\ Len(arrays) \in Nat \ {0} /\ Capacity(Len(arrays)) \in Nat \ {0}
      /\ Get(Len(arrays), bottom[Owner]) \in Tasks \cup {NoTask}
  <2>1. Owner \in Threads /\ Len(arrays) \in Nat \ {0} /\ bottom[Owner] \in Int
    BY DEF Threads, TypeOK
  <2>2. arrays[Len(arrays)] \in Slots
    BY <2>1 DEF TypeOK, Slots
  <2>3. Capacity(Len(arrays)) \in Nat \ {0}
    BY ONLY <2>2 DEF Capacity, Slots
  <2>4. Get(Len(arrays), bottom[Owner]) \in Tasks \cup {NoTask}
    BY <2>1, GetType
  <2> QED BY ONLY <2>1, <2>3, <2>4
<1>1. CASE CallPush
  <2>1. TypeOK'
    BY <1>0, <1>1, CapacityAssumption DEF CallPush, TypeOK, OwnerInv, Tasks
  <2>2. OwnerInv'
    BY <1>0, <1>1, CapacityAssumption DEF CallPush, TypeOK, OwnerInv, Get, Capacity, Stealing, End, Tasks
  <2>3. ASSUME NEW t \in Threads PROVE ThiefInv(t)'
    BY <1>0, <1>1 DEF CallPush, TypeOK, OwnerInv, ThiefInv, Get, Stealing, End
  <2> QED BY ONLY <2>1, <2>2, <2>3
<1>2. CASE PushLoad
  <2>1. TypeOK'
    BY <1>0, <1>2, CapacityAssumption DEF PushLoad, TypeOK, OwnerInv, Tasks
  <2>2. OwnerInv'
    BY <1>0, <1>2 DEF PushLoad, TypeOK, OwnerInv, Get, Capacity, Stealing, End, Tasks
  <2>3. ASSUME NEW t \in Threads PROVE ThiefInv(t)'
    BY <1>0, <1>2 DEF PushLoad, TypeOK, OwnerInv, ThiefInv, Get, Stealing, End
  <2> QED BY ONLY <2>1, <2>2, <2>3
<1>3. CASE PushBottom
  <2>1. TypeOK'
    BY <1>0, <1>3, CapacityAssumption DEF PushBottom, TypeOK, OwnerInv, Tasks
  <2>2. OwnerInv'
    BY <1>0, <1>3 DEF PushBottom, TypeOK, OwnerInv, Get, Capacity, Stealing, End, Tasks
  <2>3. ASSUME NEW t \in Threads PROVE ThiefInv(t)'
    BY <1>0, <1>3 DEF PushBottom, TypeOK, OwnerInv, ThiefInv, Get, Stealing, End
  <2> QED BY ONLY <2>1, <2>2, <2>3
<1>4. CASE CallPop
  <2>1. TypeOK'
    BY <1>0, <1>4, CapacityAssumption DEF CallPop, TypeOK, OwnerInv, Tasks
  <2>2. OwnerInv'
    BY <1>0, <1>4 DEF CallPop, TypeOK, OwnerInv, Get, Capacity, Stealing, End, Tasks
  <2>3. ASSUME NEW t \in Threads PROVE ThiefInv(t)'
    BY <1>0, <1>4 DEF CallPop, TypeOK, OwnerInv, ThiefInv, Get, Stealing, End
  <2> QED BY ONLY <2>1, <2>2, <2>3
<1>5. CASE PopBottom
  <2>1. TypeOK'
    BY <1>0, <1>5, CapacityAssumption DEF PopBottom, TypeOK, OwnerInv, Tasks
  <2>2. OwnerInv'
    BY <1>0, <1>5 DEF PopBottom, TypeOK, OwnerInv, Get, Capacity, Stealing, End, Tasks
  <2>3. ASSUME NEW t \in Threads PROVE ThiefInv(t)'
    BY <1>0, <1>5 DEF PopBottom, TypeOK, OwnerInv, ThiefInv, Get, Stealing, End
  <2> QED BY ONLY <2>1, <2>2, <2>3
<1>6. CASE PopTop
  <2>1. TypeOK'
    BY <1>0, <1>6, CapacityAssumption DEF PopTop, TypeOK, OwnerInv, Tasks
  <2>2. OwnerInv'
    BY <1>0, <1>6 DEF PopTop, TypeOK, OwnerInv, Get, Capacity, Stealing, End, Tasks
  <2>3. ASSUME NEW t \in Threads PROVE ThiefInv(t)'
    BY <1>0, <1>6 DEF PopTop, TypeOK, OwnerInv, ThiefInv, Get, Stealing, End
  <2> QED BY ONLY <2>1, <2>2, <2>3
<1>7. CASE PopReset
  <2>1. TypeOK'
    BY <1>0, <1>7, CapacityAssumption DEF PopReset, TypeOK, OwnerInv, Tasks
  <2>2. OwnerInv'
    BY <1>0, <1>7 DEF PopReset, TypeOK, OwnerInv, Get, Capacity, Stealing, End, Tasks
  <2>3. ASSUME NEW t \in Threads PROVE ThiefInv(t)'
    BY <1>0, <1>7 DEF PopReset, TypeOK, OwnerInv, ThiefInv, Get, Stealing, End
  <2> QED BY ONLY <2>1, <2>2, <2>3
<1>8. CASE PopGet
  <2>1. TypeOK'
    BY <1>0, <1>8, CapacityAssumption DEF PopGet, TypeOK, OwnerInv, Tasks
  <2>2. OwnerInv'
    BY <1>0, <1>8 DEF PopGet, TypeOK, OwnerInv, Get, Capacity, Stealing, End, Tasks
  <2>3. ASSUME NEW t \in Threads PROVE ThiefInv(t)'
    BY <1>0, <1>8 DEF PopGet, TypeOK, OwnerInv, ThiefInv, Get, Stealing, End
  <2> QED BY ONLY <2>1, <2>2, <2>3
<1>9. CASE PopCAS
  <2>1. TypeOK'
    <3>1. mTop' \in Nat
      BY <1>9 DEF PopCAS, TypeOK
    <3>2. task' \in [Threads -> Tasks \cup {NoTask}]
      BY <1>0, <1>9 DEF PopCAS, TypeOK
    <3> QED BY <1>9, <3>1, <3>2 DEF PopCAS, TypeOK
  <2>2. OwnerInv'
    BY <1>0, <1>9 DEF PopCAS, TypeOK, OwnerInv, Get, Capacity, Stealing, End, Tasks
  <2>3. ASSUME NEW t \in Threads PROVE ThiefInv(t)'
    BY <1>0, <1>9 DEF PopCAS, TypeOK, OwnerInv, ThiefInv, Get, Stealing, End
  <2> QED BY ONLY <2>1, <2>2, <2>3
<1>10. CASE PopRestore
  <2>1. TypeOK'
    BY <1>0, <1>10, CapacityAssumption DEF PopRestore, TypeOK, OwnerInv, Tasks
  <2>2. OwnerInv'
    BY <1>0, <1>10 DEF PopRestore, TypeOK, OwnerInv, Get, Capacity, Stealing, End, Tasks
  <2>3. ASSUME NEW t \in Threads PROVE ThiefInv(t)'
    BY <1>0, <1>10 DEF PopRestore, TypeOK, OwnerInv, ThiefInv, Get, Stealing, End
  <2> QED BY ONLY <2>1, <2>2, <2>3
<1> QED BY <1>1, <1>2, <1>3, <1>4, <1>5, <1>6, <1>7, <1>8, <1>9, <1>10

LEMMA PutStep ==
  ASSUME IInv, PushPut
  PROVE  IInv'
<1> USE DEF IInv, Goto
<1>0. Owner \in Threads /\ Len(arrays) \in Nat \ {0}
  BY DEF Threads, TypeOK
<1>1. TypeOK'
  BY <1>0, PutSpares, SMTT(20) DEF PushPut, TypeOK, Slots
<1>2. OwnerInv'
  <2>1. /\ pc'[Owner] = "pushBottom" /\ pc[Owner] = "put"
        /\ UNCHANGED <<mBottom, mTop, bottom, top, task>>
    BY <1>0 DEF PushPut, TypeOK
  <2>2. (task[Owner] = Get(Len(arrays), mBottom))'
    BY <2>1, PutSpares
  <2>3. (mBottom + 1 - mTop <= Capacity(Len(arrays)))'
    BY <2>1, PutSpares
  <2>4. mBottom \in Int /\ mTop \in Int
    BY DEF TypeOK
  <2>5. (mBottom - mTop <= Capacity(Len(arrays)))'
    <3>1. Capacity(Len(arrays))' \in Int
      BY ONLY <1>0, PutSpares DEF Capacity, Slots
    <3> QED BY ONLY <2>1, <2>3, <2>4, <3>1
  <2> QED BY <2>1, <2>2, <2>3, <2>5 DEF OwnerInv, Stealing
<1>3. ASSUME NEW t \in Threads PROVE ThiefInv(t)'
  <2>1. t # Owner => End = mBottom
    BY DEF PushPut, End
  <2>2. mTop = top[t] /\ pc[t] \in {"stealGet", "stealCAS"} => mTop \in mTop .. mBottom - 1
    BY <2>1 DEF ThiefInv, TypeOK, PushPut, End
  <2>3. /\ pc'[t] = (IF t = Owner THEN "pushBottom" ELSE pc[t])
        /\ UNCHANGED <<mBottom, mTop, top, array, task>>
        /\ pc[Owner] = "put" /\ pc'[Owner] = "pushBottom"
    BY <1>0 DEF PushPut, TypeOK
  <2>4. End' = End
    BY ONLY <2>3 DEF End
  <2>5. pc[t] = "stealGet" => (array[t] \in 1 .. Len(arrays))'
    BY <1>0, <2>3, PutSpares DEF ThiefInv, TypeOK
  <2>6. pc[t] = "stealGet" /\ mTop = top[t] => (Get(array[t], mTop) = Get(Len(arrays), mTop))'
    <3> SUFFICES ASSUME pc[t] = "stealGet", mTop = top[t]
                 PROVE  (Get(array[t], mTop) = Get(Len(arrays), mTop))'
      OBVIOUS
    <3>1. array[t] \in 1 .. Len(arrays) /\ mTop \in mTop .. mBottom - 1
      BY <2>2 DEF ThiefInv
    <3>2. Get(array[t], mTop)' = Get(array[t], mTop)
      BY <3>1, <2>3, PutSpares
    <3>3. Get(Len(arrays), mTop)' = Get(Len(arrays), mTop)
      BY <3>1, <2>3, PutSpares
    <3> QED BY <3>2, <3>3 DEF ThiefInv
  <2>7. pc[t] = "stealCAS" /\ mTop = top[t] => (task[t] = Get(Len(arrays), mTop))'
    BY <2>2, <2>3, PutSpares DEF ThiefInv
  <2> QED BY <2>3, <2>4, <2>5, <2>6, <2>7 DEF ThiefInv, Stealing
<1> QED BY ONLY <1>1, <1>2, <1>3

(* The steps of a steal, by a thief or by the owner.                       *)
LEMMA StealSteps ==
  ASSUME IInv, NEW s \in Threads,
         \/ CallSteal(s) \/ StealTop(s) \/ StealBottom(s) \/ StealClaim(s)
         \/ StealGet(s) \/ StealCAS(s) \/ Return(s)
  PROVE  IInv'
<1> USE DEF IInv, Goto
<1>0. /\ Owner \in Threads /\ Len(arrays) \in Nat \ {0}
      /\ pc[s] = "stealGet" => Get(array[s], top[s]) \in Tasks \cup {NoTask}
  BY GetType DEF Threads, TypeOK, ThiefInv
<1>1. CASE CallSteal(s)
  <2>1. TypeOK'
    BY <1>0, <1>1 DEF CallSteal, TypeOK
  <2>2. OwnerInv'
    BY <1>0, <1>1 DEF CallSteal, TypeOK, OwnerInv, ThiefInv, Get, Capacity, Stealing, End
  <2>3. ASSUME NEW t \in Threads PROVE ThiefInv(t)'
    BY <1>0, <1>1 DEF CallSteal, TypeOK, OwnerInv, ThiefInv, Get, Stealing, End
  <2> QED BY ONLY <2>1, <2>2, <2>3
<1>2. CASE StealTop(s)
  <2>1. TypeOK'
    BY <1>0, <1>2 DEF StealTop, TypeOK
  <2>2. OwnerInv'
    BY <1>0, <1>2 DEF StealTop, TypeOK, OwnerInv, ThiefInv, Get, Capacity, Stealing, End
  <2>3. ASSUME NEW t \in Threads PROVE ThiefInv(t)'
    BY <1>0, <1>2 DEF StealTop, TypeOK, OwnerInv, ThiefInv, Get, Stealing, End
  <2> QED BY ONLY <2>1, <2>2, <2>3
<1>3. CASE StealBottom(s)
  <2>1. TypeOK'
    BY <1>0, <1>3 DEF StealBottom, TypeOK
  <2>2. OwnerInv'
    BY <1>0, <1>3, SMTT(20) DEF StealBottom, TypeOK, OwnerInv, ThiefInv, Get, Capacity, Stealing, End
  <2>3. ASSUME NEW t \in Threads PROVE ThiefInv(t)'
    BY <1>0, <1>3, SMTT(20) DEF StealBottom, TypeOK, OwnerInv, ThiefInv, Get, Stealing, End
  <2> QED BY ONLY <2>1, <2>2, <2>3
<1>4. CASE StealClaim(s)
  <2>1. TypeOK'
    BY <1>0, <1>4 DEF StealClaim, TypeOK
  <2>2. OwnerInv'
    BY <1>0, <1>4 DEF StealClaim, TypeOK, OwnerInv, ThiefInv, Get, Capacity, Stealing, End
  <2>3. ASSUME NEW t \in Threads PROVE ThiefInv(t)'
    BY <1>0, <1>4, SMTT(20) DEF StealClaim, TypeOK, OwnerInv, ThiefInv, Get, Stealing, End
  <2> QED BY ONLY <2>1, <2>2, <2>3
<1>5. CASE StealGet(s)
  <2>1. TypeOK'
    BY <1>0, <1>5 DEF StealGet, TypeOK
  <2>2. OwnerInv'
    BY <1>0, <1>5 DEF StealGet, TypeOK, OwnerInv, ThiefInv, Get, Capacity, Stealing, End
  <2>3. ASSUME NEW t \in Threads PROVE ThiefInv(t)'
    BY <1>0, <1>5 DEF StealGet, TypeOK, OwnerInv, ThiefInv, Get, Stealing, End
  <2> QED BY ONLY <2>1, <2>2, <2>3
<1>6. CASE StealCAS(s)
  <2>1. TypeOK'
    <3>1. mTop' \in Nat
      BY <1>6 DEF StealCAS, TypeOK
    <3>2. task' \in [Threads -> Tasks \cup {NoTask}]
      BY <1>0, <1>6 DEF StealCAS, TypeOK
    <3> QED BY <1>6, <3>1, <3>2 DEF StealCAS, TypeOK
  <2>2. OwnerInv'
    <3>1. /\ pc'[Owner] = (IF s = Owner THEN "done" ELSE pc[Owner])
          /\ s # Owner => task'[Owner] = task[Owner]
          /\ UNCHANGED <<arrays, mBottom, bottom, top>>
          /\ pc[s] = "stealCAS"
      BY <1>0, <1>6 DEF StealCAS, TypeOK
    <3>2. mTop' = mTop \/ (mTop' = mTop + 1 /\ mTop < End)
      BY <1>6 DEF StealCAS, ThiefInv
    <3>3. mBottom \in Int /\ mTop \in Nat /\ Capacity(Len(arrays)) \in Nat
      <4>1. arrays[Len(arrays)] \in Slots
        BY <1>0 DEF TypeOK, Slots
      <4> QED BY <4>1 DEF TypeOK, Capacity, Slots
    <3>4. /\ Capacity(Len(arrays))' = Capacity(Len(arrays))
          /\ Get(Len(arrays), mBottom)' = Get(Len(arrays), mBottom)
      BY ONLY <3>1 DEF Capacity, Get
    <3>5. CASE mTop' = mTop
      BY <3>1, <3>3, <3>4, <3>5 DEF OwnerInv, Stealing, End
    <3>6. CASE mTop' = mTop + 1 /\ mTop < End
      <4>1. top[Owner] \in Nat
        BY <1>0 DEF TypeOK
      <4>2. CASE s = Owner
        BY <4>2, <3>1, <3>3, <3>4, <3>6 DEF OwnerInv, Stealing, End
      <4>3. CASE s # Owner
        BY <4>1, <4>3, <3>1, <3>3, <3>4, <3>6 DEF OwnerInv, Stealing, End
      <4> QED BY ONLY <4>2, <4>3
    <3> QED BY ONLY <3>2, <3>5, <3>6
  <2>3. ASSUME NEW t \in Threads PROVE ThiefInv(t)'
    BY <1>0, <1>6, SMTT(20) DEF StealCAS, TypeOK, OwnerInv, ThiefInv, Get, Stealing, End
  <2> QED BY ONLY <2>1, <2>2, <2>3
<1>7. CASE Return(s)
  <2>1. TypeOK'
    BY <1>0, <1>7 DEF Return, TypeOK
  <2>2. OwnerInv'
    BY <1>0, <1>7 DEF Return, TypeOK, OwnerInv, ThiefInv, Get, Capacity, Stealing, End
  <2>3. ASSUME NEW t \in Threads PROVE ThiefInv(t)'
    BY <1>0, <1>7 DEF Return, TypeOK, OwnerInv, ThiefInv, Get, Stealing, End
  <2> QED BY ONLY <2>1, <2>2, <2>3
<1> QED BY <1>1, <1>2, <1>3, <1>4, <1>5, <1>6, <1>7

LEMMA NextIInv == IInv /\ [Next]_vars => IInv'
<1> SUFFICES ASSUME IInv, [Next]_vars PROVE IInv'
  OBVIOUS
<1>1. CASE Next
  BY <1>1, OwnerSteps, PutStep, StealSteps DEF Next
<1>2. CASE UNCHANGED vars
  BY <1>2 DEF vars, IInv, TypeOK, OwnerInv, ThiefInv, Get, Capacity, End
<1> QED BY <1>1, <1>2

(* The array never holds more tasks than it has room for, and a thief whose *)
(* CAS will succeed has read the task it will have taken.                  *)
THEOREM NoOverwriteCorrect == Spec => []NoOverwrite
<1>1. IInv => NoOverwrite
  BY DEF IInv, OwnerInv, ThiefInv, NoOverwrite
<1> QED BY InitIInv, NextIInv, <1>1, PTL DEF Spec

-----------------------------------------------------------------------------
(* The deque implements AbstractDeque.                                     *)

Ops == [t \in Threads |-> Operation(t)]

ContentsLen == IF mTop < End THEN End - mTop ELSE 0

(* The tasks between mTop and the owner's end, as a sequence.              *)
LEMMA ContentsSeq ==
  ASSUME TypeOK
  PROVE  /\ ContentsLen \in Nat /\ mTop \in Nat /\ End \in Int
         /\ Contents \in Seq(Tasks \cup {NoTask}) /\ Len(Contents) = ContentsLen
         /\ \A i \in 1 .. ContentsLen : Contents[i] = Get(Len(arrays), mTop + i - 1)
<1>1. mTop \in Nat /\ End \in Int
  BY DEF TypeOK, End
<1>2. ContentsLen \in Nat
  BY ONLY <1>1 DEF ContentsLen
<1>3. Contents = [i \in 1 .. ContentsLen |-> Get(Len(arrays), mTop + i - 1)]
  BY DEF Contents, ContentsLen
<1>4. \A i \in 1 .. ContentsLen : Get(Len(arrays), mTop + i - 1) \in Tasks \cup {NoTask}
  <2> TAKE i \in 1 .. ContentsLen
  <2>1. mTop + i - 1 \in Int /\ Len(arrays) \in 1 .. Len(arrays)
    BY <1>1, <1>2 DEF TypeOK
  <2> QED BY <2>1, GetType
<1> HIDE DEF ContentsLen
<1> QED BY ONLY <1>1, <1>2, <1>3, <1>4

LEMMA ContentsEmpty ==
  ASSUME TypeOK
  PROVE  ContentsLen = 0 => Contents = <<>>
BY ContentsSeq

(* What leaves both ends and the tasks in between alone leaves it alone.   *)
LEMMA ContentsKept ==
  ASSUME TypeOK, TypeOK', mTop' = mTop, End' = End,
         \A j \in mTop .. End - 1 : Get(Len(arrays), j)' = Get(Len(arrays), j)
  PROVE  Contents' = Contents
<1>1. ContentsLen' = ContentsLen
  BY DEF ContentsLen
<1>2. \A i \in 1 .. ContentsLen : mTop + i - 1 \in mTop .. End - 1
  BY ContentsSeq DEF ContentsLen
<1>3. (/\ Contents \in Seq(Tasks \cup {NoTask}) /\ Len(Contents) = ContentsLen
       /\ \A i \in 1 .. ContentsLen : Contents[i] = Get(Len(arrays), mTop + i - 1))'
  BY ContentsSeq, PTL
<1>4. \A i \in 1 .. ContentsLen : Contents'[i] = Contents[i]
  BY <1>1, <1>2, <1>3, ContentsSeq
<1> QED BY <1>1, <1>3, <1>4, ContentsSeq, SeqEqual

(* Without a step of its own a thread keeps its operation.                 *)
LEMMA OpsStep ==
  ASSUME NEW t \in Threads,
         \A u \in Threads \ {t} :
           /\ pc'[u] = pc[u] /\ bottom'[u] = bottom[u]
           /\ top'[u] = top[u] /\ task'[u] = task[u]
           /\ pc[u] = "popClaim" => arrays' = arrays
  PROVE  Ops' = [Ops EXCEPT ![t] = Operation(t)']
<1>1. \A u \in Threads \ {t} : Operation(u)' = Operation(u)
  <2> TAKE u \in Threads \ {t}
  <2>1. pc[u] = "popClaim" => Get(Len(arrays), bottom[u])' = Get(Len(arrays), bottom[u])
    BY DEF Get
  <2> QED BY <2>1 DEF Operation
<1>2. Ops' = [u \in Threads |-> Operation(u)']
  BY DEF Ops
<1> HIDE DEF Operation
<1> QED BY ONLY <1>1, <1>2 DEF Ops

(* One step of the abstract deque, in terms of Contents and Ops.           *)
AbstractStep(t, o, contents) ==
  Ops' = [Ops EXCEPT ![t] = o] /\ Contents' = contents

LEMMA AbstractNext ==
  ASSUME NEW t \in Threads, NEW p,
         \/ /\ Ops[t] = [name |-> "idle", task |-> NoTask]
            /\ \/ t = Owner /\ p \in Tasks /\ AbstractStep(t, [name |-> "push", task |-> p], Contents)
               \/ t = Owner /\ AbstractStep(t, [name |-> "pop", task |-> NoTask], Contents)
               \/ AbstractStep(t, [name |-> "steal", task |-> NoTask], Contents)
         \/ /\ t = Owner /\ Ops[t] = [name |-> "push", task |-> p]
            /\ AbstractStep(t, [name |-> "done", task |-> NoTask], Append(Contents, p))
         \/ /\ t = Owner /\ Ops[t].name = "pop" /\ Contents # <<>>
            /\ AbstractStep(t, [name |-> "done", task |-> Contents[Len(Contents)]],
                            SubSeq(Contents, 1, Len(Contents) - 1))
         \/ /\ t = Owner /\ Ops[t].name = "pop" /\ Contents = <<>>
            /\ AbstractStep(t, [name |-> "done", task |-> NoTask], Contents)
         \/ /\ Ops[t].name = "steal" /\ Contents # <<>>
            /\ AbstractStep(t, [name |-> "done", task |-> Head(Contents)], Tail(Contents))
         \/ /\ Ops[t].name = "steal"
            /\ AbstractStep(t, [name |-> "done", task |-> NoTask], Contents)
         \/ /\ Ops[t].name = "done"
            /\ AbstractStep(t, [name |-> "idle", task |-> NoTask], Contents)
  PROVE  Abstract!Next
<1> USE DEF AbstractStep, Ops, Abstract!Idle, Abstract!Done, Abstract!Threads, Threads
<1>1. CASE /\ Ops[t] = [name |-> "idle", task |-> NoTask]
           /\ t = Owner /\ p \in Tasks /\ AbstractStep(t, [name |-> "push", task |-> p], Contents)
  BY ONLY <1>1 DEF Abstract!Next, Abstract!CallOwner, Abstract!Call
<1>2. CASE /\ Ops[t] = [name |-> "idle", task |-> NoTask]
           /\ t = Owner /\ AbstractStep(t, [name |-> "pop", task |-> NoTask], Contents)
  BY ONLY <1>2 DEF Abstract!Next, Abstract!CallOwner, Abstract!Call
<1>3. CASE /\ Ops[t] = [name |-> "idle", task |-> NoTask]
           /\ AbstractStep(t, [name |-> "steal", task |-> NoTask], Contents)
  BY ONLY <1>3 DEF Abstract!Next, Abstract!Call
<1>4. CASE /\ t = Owner /\ Ops[t] = [name |-> "push", task |-> p]
           /\ AbstractStep(t, [name |-> "done", task |-> NoTask], Append(Contents, p))
  BY ONLY <1>4 DEF Abstract!Next, Abstract!Push
<1>5. CASE /\ t = Owner /\ Ops[t].name = "pop" /\ Contents # <<>>
           /\ AbstractStep(t, [name |-> "done", task |-> Contents[Len(Contents)]],
                           SubSeq(Contents, 1, Len(Contents) - 1))
  BY ONLY <1>5 DEF Abstract!Next, Abstract!Pop, Abstract!Front, Abstract!Last
<1>6. CASE /\ t = Owner /\ Ops[t].name = "pop" /\ Contents = <<>>
           /\ AbstractStep(t, [name |-> "done", task |-> NoTask], Contents)
  BY ONLY <1>6 DEF Abstract!Next, Abstract!PopEmpty
<1>7. CASE /\ Ops[t].name = "steal" /\ Contents # <<>>
           /\ AbstractStep(t, [name |-> "done", task |-> Head(Contents)], Tail(Contents))
  BY ONLY <1>7 DEF Abstract!Next, Abstract!Steal
<1>8. CASE /\ Ops[t].name = "steal"
           /\ AbstractStep(t, [name |-> "done", task |-> NoTask], Contents)
  BY ONLY <1>8 DEF Abstract!Next, Abstract!StealNothing
<1>9. CASE /\ Ops[t].name = "done"
           /\ AbstractStep(t, [name |-> "idle", task |-> NoTask], Contents)
  BY ONLY <1>9 DEF Abstract!Next, Abstract!Return
<1> QED BY <1>1, <1>2, <1>3, <1>4, <1>5, <1>6, <1>7, <1>8, <1>9

AbstractStutter == Ops' = Ops /\ Contents' = Contents

(* The steps of push: it takes effect with the store of mBottom.           *)
LEMMA PushMaps ==
  ASSUME IInv, IInv', CallPush \/ PushLoad \/ PushPut \/ PushBottom
  PROVE  Abstract!Next \/ AbstractStutter
<1> DEFINE o == Owner
<1>0. o \in Threads /\ TypeOK /\ TypeOK' /\ mTop \in Nat /\ mBottom \in Int
  BY DEF IInv, TypeOK, Threads
<1>1. CASE CallPush
  <2>1. /\ pc[o] = "idle" /\ pc'[o] = "push" /\ task[o] = NoTask
        /\ task'[o] = pushed + 1 /\ pushed + 1 \in Tasks
        /\ UNCHANGED <<arrays, mTop, mBottom, bottom, top>>
    BY <1>0, <1>1 DEF CallPush, Goto, IInv, OwnerInv, TypeOK, Tasks
  <2>2. /\ Operation(o) = [name |-> "idle", task |-> NoTask]
        /\ Operation(o)' = [name |-> "push", task |-> pushed + 1]
    BY ONLY <2>1 DEF Operation
  <2>3. Ops' = [Ops EXCEPT ![o] = Operation(o)']
    BY ONLY <1>0, <1>1, OpsStep DEF CallPush, Goto, TypeOK
  <2>4. Contents' = Contents
    BY ONLY <1>0, <2>1, ContentsKept DEF End, Get
  <2>5. /\ Ops[o] = [name |-> "idle", task |-> NoTask]
        /\ AbstractStep(o, [name |-> "push", task |-> pushed + 1], Contents)
    BY ONLY <1>0, <2>2, <2>3, <2>4 DEF AbstractStep, Ops
  <2> QED BY ONLY <1>0, <2>1, <2>5, AbstractNext
<1>2. CASE PushLoad
  <2>1. /\ pc[o] = "push" /\ pc'[o] = "put"
        /\ UNCHANGED <<arrays, mTop, mBottom, task>>
    BY ONLY <1>0, <1>2 DEF PushLoad, Goto, TypeOK
  <2>2. Operation(o)' = Operation(o)
    BY ONLY <2>1 DEF Operation
  <2>3. Ops' = [Ops EXCEPT ![o] = Operation(o)']
    BY ONLY <1>0, <1>2, OpsStep DEF PushLoad, Goto, TypeOK
  <2>4. Contents' = Contents
    BY ONLY <1>0, <2>1, ContentsKept DEF End, Get
  <2> QED BY ONLY <1>0, <2>2, <2>3, <2>4 DEF AbstractStutter, Ops
<1>3. CASE PushPut
  <2>1. /\ pc[o] = "put" /\ pc'[o] = "pushBottom"
        /\ UNCHANGED <<mTop, mBottom, task, bottom, top>>
    BY ONLY <1>0, <1>3 DEF PushPut, Goto, TypeOK
  <2>2. Operation(o)' = Operation(o)
    BY ONLY <2>1 DEF Operation
  <2>3. Ops' = [Ops EXCEPT ![o] = Operation(o)']
    BY <1>0, <1>3, OpsStep DEF PushPut, Goto, TypeOK, IInv, ThiefInv, Stealing
  <2>4. Contents' = Contents
    <3>1. End = mBottom /\ End' = mBottom
      BY ONLY <2>1 DEF End
    <3> QED BY <1>0, <1>3, <2>1, <3>1, ContentsKept, PutSpares
  <2> QED BY ONLY <1>0, <2>2, <2>3, <2>4 DEF AbstractStutter, Ops
<1>4. CASE PushBottom
  <2>1. /\ pc[o] = "pushBottom" /\ pc'[o] = "done" /\ task'[o] = NoTask
        /\ mBottom' = mBottom + 1 /\ mTop <= mBottom
        /\ task[o] \in Tasks /\ task[o] = Get(Len(arrays), mBottom)
        /\ UNCHANGED <<arrays, mTop, bottom, top>>
    BY <1>0, <1>4 DEF PushBottom, Goto, IInv, OwnerInv, TypeOK
  <2>2. /\ Operation(o) = [name |-> "push", task |-> task[o]]
        /\ Operation(o)' = [name |-> "done", task |-> NoTask]
    BY ONLY <2>1 DEF Operation
  <2>3. Ops' = [Ops EXCEPT ![o] = Operation(o)']
    BY ONLY <1>0, <1>4, OpsStep DEF PushBottom, Goto, TypeOK
  <2>4. Contents' = Append(Contents, task[o])
    <3>1. End = mBottom /\ End' = mBottom + 1 /\ ContentsLen = mBottom - mTop
          /\ ContentsLen' = mBottom - mTop + 1
      BY ONLY <1>0, <2>1 DEF End, ContentsLen
    <3>2. (/\ Contents \in Seq(Tasks \cup {NoTask}) /\ Len(Contents) = ContentsLen
           /\ \A i \in 1 .. ContentsLen : Contents[i] = Get(Len(arrays), mTop + i - 1))'
      BY <1>0, ContentsSeq, PTL
    <3> DEFINE n == mBottom - mTop
    <3>3. /\ n \in Nat /\ Contents' \in Seq(Tasks \cup {NoTask}) /\ Len(Contents') = n + 1
          /\ \A i \in 1 .. n + 1 : Contents'[i] = Get(Len(arrays), mTop + i - 1)
      <4>1. n \in Nat
        BY ONLY <1>0, <2>1
      <4>2. arrays' = arrays /\ mTop' = mTop /\ ContentsLen' = n + 1
        BY ONLY <2>1, <3>1
      <4> QED BY ONLY <4>1, <4>2, <3>2 DEF Get
    <3>4. /\ Append(Contents, task[o]) \in Seq(Tasks \cup {NoTask})
          /\ Len(Append(Contents, task[o])) = n + 1
          /\ \A i \in 1 .. n : Append(Contents, task[o])[i] = Get(Len(arrays), mTop + i - 1)
          /\ Append(Contents, task[o])[n + 1] = task[o]
      BY ONLY <1>0, <2>1, <3>1, ContentsSeq
    <3>5. mTop + (n + 1) - 1 = mBottom
      BY ONLY <1>0
    <3> HIDE DEF n
    <3>6. ASSUME NEW i \in 1 .. n + 1 PROVE Contents'[i] = Append(Contents, task[o])[i]
      <4>1. i \in 1 .. n \/ i = n + 1
        BY ONLY <3>3
      <4>2. CASE i \in 1 .. n
        BY ONLY <4>2, <3>3, <3>4
      <4>3. CASE i = n + 1
        BY ONLY <4>3, <2>1, <3>3, <3>4, <3>5
      <4> QED BY ONLY <4>1, <4>2, <4>3
    <3> QED BY ONLY <3>3, <3>4, <3>6, SeqEqual
  <2> QED BY ONLY <1>0, <2>1, <2>2, <2>3, <2>4, AbstractNext DEF AbstractStep, Ops
<1> QED BY <1>1, <1>2, <1>3, <1>4

(* The steps of pop.  One that finds more than one task takes effect when   *)
(* it has loaded mTop, one that finds none as well; for the last task it is *)
(* the CAS that decides.                                                   *)
LEMMA PopMaps ==
  ASSUME IInv, IInv',
         CallPop \/ PopBottom \/ PopTop \/ PopReset \/ PopGet \/ PopCAS \/ PopRestore
  PROVE  Abstract!Next \/ AbstractStutter
<1> DEFINE o == Owner
           done(p) == [name |-> "done", task |-> p]
           pop == [name |-> "pop", task |-> NoTask]
           last == Get(Len(arrays), bottom[o])
<1>0. /\ o \in Threads /\ TypeOK /\ TypeOK' /\ mTop \in Nat /\ mBottom \in Int
      /\ top[o] \in Nat /\ bottom[o] \in Int
  BY DEF IInv, TypeOK, Threads
<1>1. CASE CallPop
  <2>1. /\ pc[o] = "idle" /\ pc'[o] = "pop"
        /\ UNCHANGED <<arrays, mTop, mBottom, bottom, top, task>>
    BY ONLY <1>0, <1>1 DEF CallPop, Goto, TypeOK
  <2>2. Operation(o) = [name |-> "idle", task |-> NoTask] /\ Operation(o)' = pop
    BY ONLY <2>1 DEF Operation
  <2>3. Ops' = [Ops EXCEPT ![o] = Operation(o)']
    BY ONLY <1>0, <1>1, OpsStep DEF CallPop, Goto, TypeOK
  <2>4. Contents' = Contents
    BY ONLY <1>0, <2>1, ContentsKept DEF End, Get
  <2>5. Ops[o] = [name |-> "idle", task |-> NoTask] /\ AbstractStep(o, pop, Contents)
    BY ONLY <1>0, <2>2, <2>3, <2>4 DEF AbstractStep, Ops
  <2> QED BY ONLY <1>0, <2>5, AbstractNext
<1>2. CASE PopBottom
  <2>1. /\ pc[o] = "pop" /\ pc'[o] = "popTop" /\ mBottom' = mBottom - 1
        /\ UNCHANGED <<arrays, mTop, top, task>>
    BY ONLY <1>0, <1>2 DEF PopBottom, Goto, TypeOK
  <2>2. Operation(o)' = Operation(o)
    BY ONLY <2>1 DEF Operation
  <2>3. Ops' = [Ops EXCEPT ![o] = Operation(o)']
    BY ONLY <1>0, <1>2, OpsStep DEF PopBottom, Goto, TypeOK
  <2>4. Contents' = Contents
    BY ONLY <1>0, <2>1, ContentsKept DEF End, Get
  <2> QED BY ONLY <1>0, <2>2, <2>3, <2>4 DEF AbstractStutter, Ops
<1>3. CASE PopTop
  <2>1. /\ pc[o] = "popTop" /\ pc'[o] = (IF bottom[o] < mTop THEN "reset" ELSE "popClaim")
        /\ top'[o] = mTop /\ bottom[o] = mBottom /\ mTop <= mBottom + 1 /\ task[o] = NoTask
        /\ UNCHANGED <<arrays, mTop, mBottom, bottom, task>>
    BY <1>0, <1>3 DEF PopTop, Goto, TypeOK, IInv, OwnerInv
  <2>2. Operation(o) = pop /\ End = mBottom + 1
    BY ONLY <2>1 DEF Operation, End
  <2>3. Ops' = [Ops EXCEPT ![o] = Operation(o)']
    BY ONLY <1>0, <1>3, OpsStep DEF PopTop, Goto, TypeOK
  <2>4. CASE bottom[o] < mTop
    <3>1. Operation(o)' = done(NoTask) /\ End' = mBottom
      BY ONLY <2>1, <2>4 DEF Operation, End
    <3>2. ContentsLen = 0 /\ ContentsLen' = 0
      BY ONLY <1>0, <2>1, <2>2, <2>4, <3>1 DEF ContentsLen
    <3>3. Contents = <<>>
      BY ONLY <1>0, <3>2, ContentsSeq
    <3>4. (ContentsLen = 0 => Contents = <<>>)'
      BY <1>0, ContentsEmpty, PTL
    <3>5. Ops[o].name = "pop" /\ Contents = <<>> /\ AbstractStep(o, done(NoTask), Contents)
      BY ONLY <1>0, <2>2, <2>3, <3>1, <3>2, <3>3, <3>4 DEF AbstractStep, Ops
    <3> QED BY ONLY <1>0, <3>5, AbstractNext
  <2>5. CASE bottom[o] = mTop
    <3>1. Operation(o)' = pop /\ End' = mBottom + 1
      BY ONLY <1>0, <2>1, <2>5 DEF Operation, End
    <3>2. Contents' = Contents
      BY ONLY <1>0, <2>1, <2>2, <3>1, ContentsKept DEF Get
    <3> QED BY ONLY <1>0, <2>2, <2>3, <3>1, <3>2 DEF AbstractStutter, Ops
  <2>6. CASE bottom[o] > mTop
    <3>1. Operation(o)' = done(last) /\ End' = mBottom
      BY ONLY <1>0, <2>1, <2>6 DEF Operation, End, Get
    <3> DEFINE n == mBottom - mTop
    <3>2. n \in Nat /\ ContentsLen = n + 1 /\ ContentsLen' = n
      BY ONLY <1>0, <2>1, <2>2, <2>6, <3>1 DEF ContentsLen
    <3>3. /\ Contents \in Seq(Tasks \cup {NoTask}) /\ Len(Contents) = n + 1
          /\ \A i \in 1 .. n + 1 : Contents[i] = Get(Len(arrays), mTop + i - 1)
      BY ONLY <1>0, <3>2, ContentsSeq
    <3>4. (/\ Contents \in Seq(Tasks \cup {NoTask}) /\ Len(Contents) = ContentsLen
           /\ \A i \in 1 .. ContentsLen : Contents[i] = Get(Len(arrays), mTop + i - 1))'
      BY <1>0, ContentsSeq, PTL
    <3>5. /\ Contents' \in Seq(Tasks \cup {NoTask}) /\ Len(Contents') = n
          /\ \A i \in 1 .. n : Contents'[i] = Get(Len(arrays), mTop + i - 1)
      <4>1. arrays' = arrays /\ mTop' = mTop
        BY ONLY <2>1
      <4> QED BY ONLY <4>1, <3>2, <3>4 DEF Get
    <3>6. Contents[Len(Contents)] = last /\ Contents # <<>>
      <4>1. mTop + (n + 1) - 1 = bottom[o]
        BY ONLY <1>0, <2>1
      <4> HIDE DEF n
      <4> QED BY ONLY <4>1, <3>2, <3>3
    <3>7. Contents' = SubSeq(Contents, 1, Len(Contents) - 1)
      <4> HIDE DEF n
      <4> DEFINE front == SubSeq(Contents, 1, n)
      <4>1. /\ front \in Seq(Tasks \cup {NoTask}) /\ Len(front) = n
            /\ \A i \in 1 .. n : front[i] = Contents[i]
        BY ONLY <3>2, <3>3, SubSeqProperties
      <4>2. Contents' = front
        BY ONLY <4>1, <3>2, <3>3, <3>5, SeqEqual
      <4> QED BY ONLY <4>2, <3>2, <3>3
    <3>8. /\ Ops[o].name = "pop" /\ Contents # <<>>
          /\ AbstractStep(o, done(Contents[Len(Contents)]),
                          SubSeq(Contents, 1, Len(Contents) - 1))
      BY ONLY <1>0, <2>2, <2>3, <3>1, <3>6, <3>7 DEF AbstractStep, Ops
    <3> QED BY ONLY <1>0, <3>8, AbstractNext
  <2> QED BY ONLY <1>0, <2>4, <2>5, <2>6
<1>4. CASE PopReset
  <2>1. /\ pc[o] = "reset" /\ pc'[o] = "done" /\ mBottom' = mTop /\ mTop = mBottom + 1
        /\ UNCHANGED <<arrays, mTop, bottom, top, task>>
    BY <1>0, <1>4 DEF PopReset, Goto, TypeOK, IInv, OwnerInv
  <2>2. Operation(o)' = Operation(o)
    BY ONLY <2>1 DEF Operation
  <2>3. Ops' = [Ops EXCEPT ![o] = Operation(o)']
    BY ONLY <1>0, <1>4, OpsStep DEF PopReset, Goto, TypeOK
  <2>4. ContentsLen = 0 /\ ContentsLen' = 0
    BY ONLY <1>0, <2>1 DEF ContentsLen, End
  <2>5. Contents = <<>>
    BY ONLY <1>0, <2>4, ContentsSeq
  <2>6. (ContentsLen = 0 => Contents = <<>>)'
    BY <1>0, ContentsEmpty, PTL
  <2> QED BY ONLY <1>0, <2>2, <2>3, <2>4, <2>5, <2>6 DEF AbstractStutter, Ops
<1>5. CASE PopGet
  <2>1. /\ pc[o] = "popClaim" /\ task'[o] = last /\ bottom[o] = mBottom /\ top[o] <= bottom[o]
        /\ pc'[o] = (IF top[o] < bottom[o] THEN "done" ELSE "popCAS") /\ task[o] = NoTask
        /\ UNCHANGED <<arrays, mTop, mBottom, bottom, top>>
    BY <1>0, <1>5 DEF PopGet, Goto, TypeOK, IInv, OwnerInv
  <2>2. Operation(o)' = Operation(o) /\ End' = End
    BY ONLY <1>0, <2>1 DEF Operation, End
  <2>3. Ops' = [Ops EXCEPT ![o] = Operation(o)']
    BY ONLY <1>0, <1>5, OpsStep DEF PopGet, Goto, TypeOK
  <2>4. Contents' = Contents
    BY ONLY <1>0, <2>1, <2>2, ContentsKept DEF Get
  <2> QED BY ONLY <1>0, <2>2, <2>3, <2>4 DEF AbstractStutter, Ops
<1>6. CASE PopCAS
  <2>1. /\ pc[o] = "popCAS" /\ pc'[o] = "popBottom" /\ bottom[o] = mBottom /\ top[o] = mBottom
        /\ mTop \in {mBottom, mBottom + 1} /\ task[o] = Get(Len(arrays), mBottom)
        /\ UNCHANGED <<arrays, mBottom, bottom, top>>
    BY <1>0, <1>6 DEF PopCAS, Goto, TypeOK, IInv, OwnerInv
  <2>2. /\ Operation(o) = pop /\ Operation(o)' = done(task'[o])
        /\ End = mBottom + 1 /\ End' = mBottom
    BY ONLY <2>1 DEF Operation, End
  <2>3. Ops' = [Ops EXCEPT ![o] = Operation(o)']
    BY ONLY <1>0, <1>6, OpsStep DEF PopCAS, Goto, TypeOK
  <2>4. mTop' = mBottom + 1 /\ task'[o] = IF mTop = mBottom THEN task[o] ELSE NoTask
    BY ONLY <1>0, <1>6, <2>1 DEF PopCAS, TypeOK
  <2>5. ContentsLen = (IF mTop = mBottom THEN 1 ELSE 0) /\ ContentsLen' = 0
    BY ONLY <1>0, <2>1, <2>2, <2>4 DEF ContentsLen
  <2>6. (ContentsLen = 0 => Contents = <<>>)'
    BY <1>0, ContentsEmpty, PTL
  <2>7. CASE mTop = mBottom
    <3>1. /\ Contents \in Seq(Tasks \cup {NoTask}) /\ Len(Contents) = 1
          /\ Contents[1] = Get(Len(arrays), mTop + 1 - 1)
      BY ONLY <1>0, <2>5, <2>7, ContentsSeq
    <3>2. Contents # <<>> /\ Contents[Len(Contents)] = task[o]
      <4>1. mTop + 1 - 1 = mBottom
        BY ONLY <1>0, <2>7
      <4> QED BY ONLY <2>1, <3>1, <4>1
    <3>3. SubSeq(Contents, 1, Len(Contents) - 1) = <<>>
      BY ONLY <3>1, SubSeqEmpty
    <3>4. Contents' = <<>> /\ Ops' = [Ops EXCEPT ![o] = done(task[o])]
      BY ONLY <2>2, <2>3, <2>4, <2>5, <2>6, <2>7
    <3>5. Ops[o].name = "pop"
      BY ONLY <1>0, <2>2 DEF Ops
    <3>6. AbstractStep(o, done(Contents[Len(Contents)]),
                       SubSeq(Contents, 1, Len(Contents) - 1))
      BY ONLY <3>2, <3>3, <3>4, Zenon DEF AbstractStep
    <3> QED BY ONLY <1>0, <3>2, <3>5, <3>6, AbstractNext
  <2>8. CASE mTop # mBottom
    <3>1. Contents = <<>>
      BY ONLY <1>0, <2>5, <2>8, ContentsSeq
    <3>2. Ops[o].name = "pop" /\ Contents = <<>> /\ AbstractStep(o, done(NoTask), Contents)
      BY ONLY <1>0, <2>2, <2>3, <2>4, <2>5, <2>6, <2>8, <3>1 DEF AbstractStep, Ops
    <3> QED BY ONLY <1>0, <3>2, AbstractNext
  <2> QED BY ONLY <2>7, <2>8
<1>7. CASE PopRestore
  <2>1. /\ pc[o] = "popBottom" /\ pc'[o] = "done" /\ mBottom' = mTop /\ mTop = mBottom + 1
        /\ UNCHANGED <<arrays, mTop, bottom, top, task>>
    BY <1>0, <1>7 DEF PopRestore, Goto, TypeOK, IInv, OwnerInv
  <2>2. Operation(o)' = Operation(o)
    BY ONLY <2>1 DEF Operation
  <2>3. Ops' = [Ops EXCEPT ![o] = Operation(o)']
    BY ONLY <1>0, <1>7, OpsStep DEF PopRestore, Goto, TypeOK
  <2>4. ContentsLen = 0 /\ ContentsLen' = 0
    BY ONLY <1>0, <2>1 DEF ContentsLen, End
  <2>5. Contents = <<>>
    BY ONLY <1>0, <2>4, ContentsSeq
  <2>6. (ContentsLen = 0 => Contents = <<>>)'
    BY <1>0, ContentsEmpty, PTL
  <2> QED BY ONLY <1>0, <2>2, <2>3, <2>4, <2>5, <2>6 DEF AbstractStutter, Ops
<1> QED BY <1>1, <1>2, <1>3, <1>4, <1>5, <1>6, <1>7

(* The steps of steal: it takes effect with its CAS, one that fails at any  *)
(* time.                                                                   *)
LEMMA StealMaps ==
  ASSUME IInv, IInv', NEW t \in Threads,
         \/ CallSteal(t) \/ StealTop(t) \/ StealBottom(t) \/ StealClaim(t)
         \/ StealGet(t) \/ StealCAS(t) \/ Return(t)
  PROVE  Abstract!Next \/ AbstractStutter
<1> DEFINE idle == [name |-> "idle", task |-> NoTask]
           done(p) == [name |-> "done", task |-> p]
           steal == [name |-> "steal", task |-> NoTask]
<1>0. TypeOK /\ TypeOK' /\ mTop \in Nat /\ mBottom \in Int /\ Owner \in Threads
  BY DEF IInv, TypeOK, Threads
<1>1. UNCHANGED <<arrays, mBottom>>
  BY DEF CallSteal, StealTop, StealBottom, StealClaim, StealGet, StealCAS, Return
<1>2. Ops' = [Ops EXCEPT ![t] = Operation(t)']
  BY <1>0, OpsStep
  DEF CallSteal, StealTop, StealBottom, StealClaim, StealGet, StealCAS, Return, Goto, TypeOK
<1>3. End' = End
  <2>1. t # Owner => pc'[Owner] = pc[Owner] /\ bottom'[Owner] = bottom[Owner] /\ top'[Owner] = top[Owner]
    BY <1>0 DEF CallSteal, StealTop, StealBottom, StealClaim, StealGet, StealCAS, Return,
       Goto, TypeOK
  <2>2. t = Owner => /\ pc[Owner] \notin {"popTop", "popClaim", "popCAS"}
                     /\ pc'[Owner] \notin {"popTop", "popClaim", "popCAS"}
    BY <1>0 DEF CallSteal, StealTop, StealBottom, StealClaim, StealGet, StealCAS, Return,
       Goto, TypeOK
  <2> QED BY ONLY <1>1, <2>1, <2>2 DEF End
<1>4. mTop' = mTop => Contents' = Contents
  BY ONLY <1>0, <1>1, <1>3, ContentsKept DEF Get
<1>5. CASE CallSteal(t)
  <2>1. Operation(t) = idle /\ Operation(t)' = steal
    BY ONLY <1>0, <1>5 DEF CallSteal, Goto, Operation, TypeOK, IInv, OwnerInv, ThiefInv
  <2>2. Ops[t] = idle /\ AbstractStep(t, steal, Contents)
    BY ONLY <1>2, <1>4, <1>5, <2>1 DEF AbstractStep, Ops, CallSteal
  <2> QED BY ONLY <2>2, AbstractNext
<1>6. CASE StealTop(t) \/ StealClaim(t) \/ StealGet(t)
  <2>1. Operation(t)' = Operation(t)
    BY ONLY <1>0, <1>6 DEF StealTop, StealClaim, StealGet, Goto, Operation, TypeOK
  <2>2. Ops' = Ops
    BY ONLY <1>2, <2>1 DEF Ops
  <2> QED BY ONLY <1>4, <1>6, <2>2 DEF AbstractStutter, StealTop, StealClaim, StealGet
<1>7. CASE StealBottom(t)
  <2>1. Operation(t) = steal
    BY ONLY <1>7 DEF StealBottom, Operation
  <2>2. Contents' = Contents
    BY ONLY <1>4, <1>7 DEF StealBottom
  <2>3. CASE mBottom <= top[t]
    <3>1. Operation(t)' = done(NoTask)
      BY <1>0, <1>7, <2>3 DEF StealBottom, Goto, Operation, TypeOK, IInv, ThiefInv
    <3>2. Ops[t].name = "steal" /\ AbstractStep(t, done(NoTask), Contents)
      BY ONLY <1>2, <2>1, <2>2, <3>1 DEF AbstractStep, Ops
    <3> QED BY ONLY <3>2, AbstractNext
  <2>4. CASE ~ (mBottom <= top[t])
    <3>1. Operation(t)' = steal
      BY ONLY <1>0, <1>7, <2>4 DEF StealBottom, Goto, Operation, TypeOK
    <3> QED BY ONLY <1>2, <2>1, <2>2, <3>1 DEF AbstractStutter, Ops
  <2> QED BY ONLY <2>3, <2>4
<1>8. CASE StealCAS(t)
  <2>1. Operation(t) = steal /\ Operation(t)' = done(task'[t])
    BY ONLY <1>0, <1>8 DEF StealCAS, Goto, Operation, TypeOK
  <2>2. CASE mTop = top[t]
    <3>1. mTop' = mTop + 1 /\ task'[t] = Get(Len(arrays), mTop) /\ mTop < End
      BY <1>0, <1>8, <2>2 DEF StealCAS, IInv, ThiefInv
    <3> DEFINE n == End - mTop - 1
    <3>2. n \in Nat /\ ContentsLen = n + 1 /\ ContentsLen' = n
      BY ONLY <1>0, <1>3, <3>1, ContentsSeq DEF ContentsLen
    <3>3. /\ Contents \in Seq(Tasks \cup {NoTask}) /\ Len(Contents) = n + 1
          /\ \A i \in 1 .. n + 1 : Contents[i] = Get(Len(arrays), mTop + i - 1)
      BY ONLY <1>0, <3>2, ContentsSeq
    <3>4. (/\ Contents \in Seq(Tasks \cup {NoTask}) /\ Len(Contents) = ContentsLen
           /\ \A i \in 1 .. ContentsLen : Contents[i] = Get(Len(arrays), mTop + i - 1))'
      BY <1>0, ContentsSeq, PTL
    <3>5. /\ Contents' \in Seq(Tasks \cup {NoTask}) /\ Len(Contents') = n
          /\ \A i \in 1 .. n : Contents'[i] = Get(Len(arrays), (mTop + 1) + i - 1)
      BY ONLY <1>1, <3>1, <3>2, <3>4 DEF Get
    <3> HIDE DEF n
    <3>6. Contents # <<>> /\ Head(Contents) = task'[t]
      <4>1. mTop + 1 - 1 = mTop
        BY ONLY <1>0
      <4>2. Contents[1] = Get(Len(arrays), mTop)
        <5>1. Contents[1] = Get(Len(arrays), mTop + 1 - 1)
          BY ONLY <3>2, <3>3
        <5> QED BY ONLY <4>1, <5>1
      <4> QED BY ONLY <3>1, <3>2, <3>3, <4>2
    <3>7. Contents' = Tail(Contents)
      <4>1. /\ Tail(Contents) \in Seq(Tasks \cup {NoTask}) /\ Len(Tail(Contents)) = n
            /\ \A i \in 1 .. n : Tail(Contents)[i] = Contents[i + 1]
        <5>1. Len(Contents) - 1 = n
          BY ONLY <3>2, <3>3
        <5> QED BY ONLY <3>3, <3>6, <5>1, HeadTailProperties
      <4>2. ASSUME NEW i \in 1 .. n PROVE Contents'[i] = Tail(Contents)[i]
        <5>1. i + 1 \in 1 .. n + 1 /\ mTop + (i + 1) - 1 = (mTop + 1) + i - 1
          BY ONLY <1>0, <3>2
        <5>2. Contents[i + 1] = Get(Len(arrays), mTop + (i + 1) - 1)
          BY ONLY <3>3, <5>1
        <5> QED BY ONLY <3>5, <4>1, <5>1, <5>2
      <4> QED BY ONLY <3>5, <4>1, <4>2, SeqEqual
    <3>8. Ops[t].name = "steal"
      BY ONLY <2>1 DEF Ops
    <3>9. AbstractStep(t, done(Head(Contents)), Tail(Contents))
      BY ONLY <1>2, <2>1, <3>6, <3>7 DEF AbstractStep
    <3> QED BY ONLY <3>6, <3>8, <3>9, AbstractNext
  <2>3. CASE mTop # top[t]
    <3>1. mTop' = mTop /\ task'[t] = NoTask
      BY ONLY <1>0, <1>8, <2>3 DEF StealCAS, TypeOK
    <3>2. Ops[t].name = "steal" /\ AbstractStep(t, done(NoTask), Contents)
      BY ONLY <1>2, <1>4, <2>1, <3>1 DEF AbstractStep, Ops
    <3> QED BY ONLY <3>2, AbstractNext
  <2> QED BY ONLY <2>2, <2>3
<1>9. CASE Return(t)
  <2>1. Operation(t).name = "done" /\ Operation(t)' = idle
    BY ONLY <1>0, <1>9 DEF Return, Goto, Operation, TypeOK
  <2>2. Ops[t].name = "done" /\ AbstractStep(t, idle, Contents)
    BY ONLY <1>2, <1>4, <1>9, <2>1 DEF AbstractStep, Ops, Return
  <2> QED BY ONLY <2>2, AbstractNext
<1> QED BY <1>5, <1>6, <1>7, <1>8, <1>9

LEMMA InitMaps == Init => Abstract!Init
<1> SUFFICES ASSUME Init PROVE Abstract!Init
  OBVIOUS
<1>1. TypeOK /\ ContentsLen = 0
  BY InitIInv DEF IInv, ContentsLen, End, Init, Threads
<1>2. Contents = <<>>
  BY ONLY <1>1, ContentsEmpty
<1>3. \A t \in Threads : Operation(t) = [name |-> "idle", task |-> NoTask]
  BY DEF Init, Operation
<1> QED BY ONLY <1>2, <1>3 DEF Abstract!Init, Abstract!Idle, Abstract!Threads, Threads

(* The deque is linearizable, for any number of thieves and any initial    *)
(* capacity: no task is lost, none is taken twice, and the owner gets its  *)
(* last one first.                                                         *)
THEOREM LinearizableCorrect == Spec => Linearizable
<1>1. IInv /\ IInv' /\ [Next]_vars => [Abstract!Next]_<<Contents, [t \in Threads |-> Operation(t)]>>
  <2> SUFFICES ASSUME IInv, IInv', [Next]_vars PROVE Abstract!Next \/ AbstractStutter
    BY DEF AbstractStutter, Ops
  <2>1. CASE Next
    BY <2>1, PushMaps, PopMaps, StealMaps DEF Next
  <2>2. CASE UNCHANGED vars
    <3>1. Ops' = Ops
      BY ONLY <2>2 DEF vars, Ops, Operation, Get
    <3>2. Contents' = Contents
      BY ONLY <2>2 DEF vars, Contents, End, Get
    <3> QED BY ONLY <3>1, <3>2 DEF AbstractStutter
  <2> QED BY <2>1, <2>2
<1> QED BY InitIInv, NextIInv, InitMaps, <1>1, PTL DEF Spec, Linearizable, Abstract!Spec
=============================================================================
