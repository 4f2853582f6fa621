------------------------------ MODULE FifoLock ------------------------------
(***************************************************************************)
(* A fair lock: the threads that want it form a queue, only the first one  *)
(* may enter, and it stays first until it leaves.  Mutual exclusion and    *)
(* first-come first-served order both follow from it.                      *)
(***************************************************************************)
EXTENDS Naturals, SequencesExt

CONSTANT Threads

VARIABLES queue,   \* the threads that have joined and not left, oldest first
          inside   \* those among them that have entered

Init == queue = <<>> /\ inside = {}

(* A thread joins, or several at once in an order of their own.            *)
Join ==
  /\ Len(queue) < Len(queue')
  /\ SubSeq(queue', 1, Len(queue)) = queue
  /\ \A i, j \in 1 .. Len(queue') : queue'[i] = queue'[j] => i = j
  /\ UNCHANGED inside

Enter(t) ==
  /\ queue # <<>> /\ t = Head(queue)
  /\ t \notin inside
  /\ inside' = inside \cup {t}
  /\ UNCHANGED queue

(* To join an empty queue and to enter may be one step.                    *)
JoinAndEnter(t) ==
  /\ queue = <<>>
  /\ queue' = <<t>>
  /\ inside' = inside \cup {t}

Leave(t) ==
  /\ t \in inside
  /\ queue' = Tail(queue)
  /\ inside' = inside \ {t}

Next == Join \/ \E t \in Threads : Enter(t) \/ JoinAndEnter(t) \/ Leave(t)

Spec == Init /\ [][Next]_<<queue, inside>>

(* With a time-out, whoever has joined and not entered may leave the queue   *)
(* from any place in it.                                                   *)
GiveUp(t) ==
  /\ t \notin inside
  /\ Contains(queue, t)
  /\ queue' = Remove(queue, t)
  /\ UNCHANGED inside

TimeoutSpec ==
  Init /\ [][Next \/ \E t \in Threads : GiveUp(t)]_<<queue, inside>>
=============================================================================
