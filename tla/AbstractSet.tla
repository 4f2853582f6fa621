---------------------------- MODULE AbstractSet -----------------------------
(***************************************************************************)
(* A linearizable set.  An insert of a new key and a remove of a present   *)
(* one take effect at one instant between call and return; every other     *)
(* operation only has to return an answer that was true at some instant in *)
(* between.  seen collects these answers: which truth values "the key is   *)
(* in the set" has had since the call.                                     *)
(***************************************************************************)
CONSTANTS Threads, Keys, NoKey

VARIABLES set,  \* the keys in the set
          op    \* op[t]: what thread t is doing, with which key, seeing what

Idle == [name |-> "idle", key |-> NoKey, seen |-> {}]
Done(r) == [name |-> "done", key |-> NoKey, seen |-> {r}]

Init == set = {} /\ op = [t \in Threads |-> Idle]

Call(t) ==
  /\ op[t] = Idle
  /\ \E n \in {"insert", "remove", "find"}, k \in Keys :
       op' = [op EXCEPT ![t] = [name |-> n, key |-> k, seen |-> {k \in set}]]
  /\ UNCHANGED set

(* t changes the set and is done; whoever asks for the same key sees it.   *)
Change(t, k, present) ==
  op' = [u \in Threads |->
          IF u = t THEN Done(TRUE)
          ELSE IF op[u].key = k THEN [op[u] EXCEPT !.seen = @ \cup {present}]
          ELSE op[u]]

Insert(t) ==
  /\ op[t].name = "insert" /\ op[t].key \notin set
  /\ set' = set \cup {op[t].key}
  /\ Change(t, op[t].key, TRUE)

Remove(t) ==
  /\ op[t].name = "remove" /\ op[t].key \in set
  /\ set' = set \ {op[t].key}
  /\ Change(t, op[t].key, FALSE)

(* The key is there already, or it is not there.                           *)
Refuse(t) ==
  /\ \/ op[t].name = "insert" /\ TRUE \in op[t].seen
     \/ op[t].name = "remove" /\ FALSE \in op[t].seen
  /\ op' = [op EXCEPT ![t] = Done(FALSE)]
  /\ UNCHANGED set

Answer(t) ==
  /\ op[t].name = "find"
  /\ \E r \in op[t].seen : op' = [op EXCEPT ![t] = Done(r)]
  /\ UNCHANGED set

Return(t) ==
  /\ op[t].name = "done"
  /\ op' = [op EXCEPT ![t] = Idle]
  /\ UNCHANGED set

Next ==
  \E t \in Threads :
    Call(t) \/ Insert(t) \/ Remove(t) \/ Refuse(t) \/ Answer(t) \/ Return(t)

Spec == Init /\ [][Next]_<<set, op>>
=============================================================================
