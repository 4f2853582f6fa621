----------------------------- MODULE AbstractMap ----------------------------
(***************************************************************************)
(* A linearizable map: every call takes effect at one instant between call *)
(* and return, a snapshot of the whole map included.                       *)
(***************************************************************************)
CONSTANTS Threads, Keys, NoKey, Values, NoValue

VARIABLES map,  \* map[k]: the value of k, or NoValue
          op    \* op[t]: what thread t is doing, with which key and value

Idle == [name |-> "idle", key |-> NoKey, val |-> NoValue]
Done(r) == [name |-> "done", key |-> NoKey, val |-> r]

Init == map = [k \in Keys |-> NoValue] /\ op = [t \in Threads |-> Idle]

Calls ==
  [name : {"find", "remove"}, key : Keys, val : {NoValue}]
    \cup [name : {"addOrUpdate"}, key : Keys, val : Values]
    \cup [name : {"getSnapShot"}, key : {NoKey}, val : {NoValue}]

Call(t) ==
  /\ op[t] = Idle
  /\ \E c \in Calls : op' = [op EXCEPT ![t] = c]
  /\ UNCHANGED map

Find(t) ==
  /\ op[t].name = "find"
  /\ op' = [op EXCEPT ![t] = Done(map[op[t].key])]
  /\ UNCHANGED map

Change(t) ==
  /\ op[t].name \in {"addOrUpdate", "remove"}
  /\ map' = [map EXCEPT ![op[t].key] = op[t].val]
  /\ op' = [op EXCEPT ![t] = Done(NoValue)]

GetSnapShot(t) ==
  /\ op[t].name = "getSnapShot"
  /\ op' = [op EXCEPT ![t] = Done(map)]
  /\ UNCHANGED map

Return(t) ==
  /\ op[t].name = "done"
  /\ op' = [op EXCEPT ![t] = Idle]
  /\ UNCHANGED map

Next ==
  \E t \in Threads : Call(t) \/ Find(t) \/ Change(t) \/ GetSnapShot(t) \/ Return(t)

Spec == Init /\ [][Next]_<<map, op>>
=============================================================================
