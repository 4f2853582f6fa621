------------------------------ MODULE SharedLock ----------------------------
(***************************************************************************)
(* SharedLock: readers and writers, a mutex that protects two counters and *)
(* one condition variable for everybody.  Every function holds the mutex   *)
(* from its first line to its last or to a wait, so that a step is such a  *)
(* section.                                                                *)
(***************************************************************************)
EXTENDS Naturals, FiniteSets

CONSTANT Threads

VARIABLES
  mReader, mWriter,
  sharedPc  \* sharedPc[t]: what thread t is about to do, does, or waits for

vars == <<mReader, mWriter, sharedPc>>

TypeOK ==
  /\ mReader \in Nat
  /\ mWriter \in BOOLEAN
  /\ sharedPc \in [Threads -> {"idle", "lock", "lockWait", "drain", "drainWait", "write",
                               "lock_shared", "sharedWait", "read"}]

Init ==
  /\ mReader = 0
  /\ mWriter = FALSE
  /\ sharedPc = [t \in Threads |-> "idle"]

Goto(t, label) == sharedPc' = [sharedPc EXCEPT ![t] = label]

Lock(t) ==
  /\ sharedPc[t] = "idle"
  /\ \E op \in {"lock", "lock_shared"} : Goto(t, op)
  /\ UNCHANGED <<mReader, mWriter>>

(* A writer announces itself when there is no other, ...                   *)
announce(t) ==
  /\ sharedPc[t] = "lock"
  /\ \/ mWriter /\ Goto(t, "lockWait") /\ UNCHANGED mWriter
     \/ ~mWriter /\ mWriter' = TRUE /\ Goto(t, IF mReader = 0 THEN "write" ELSE "drainWait")
  /\ UNCHANGED mReader

(* ... and waits for the readers that came before.                         *)
drain(t) ==
  /\ sharedPc[t] = "drain"
  /\ Goto(t, IF mReader = 0 THEN "write" ELSE "drainWait")
  /\ UNCHANGED <<mReader, mWriter>>

lock_shared(t) ==
  /\ sharedPc[t] = "lock_shared"
  /\ \/ mWriter /\ Goto(t, "sharedWait") /\ UNCHANGED mReader
     \/ ~mWriter /\ mReader' = mReader + 1 /\ Goto(t, "read")
  /\ UNCHANGED mWriter

(* What a thread goes on with when its wait ends.                          *)
Awake(label) ==
  CASE label = "lockWait"   -> "lock"
    [] label = "drainWait"  -> "drain"
    [] label = "sharedWait" -> "lock_shared"
    [] OTHER                -> label

notify_all(t) ==
  sharedPc' = [u \in Threads |-> IF u = t THEN "idle" ELSE Awake(sharedPc[u])]

unlock(t) ==
  /\ sharedPc[t] = "write"
  /\ mWriter' = FALSE
  /\ notify_all(t)
  /\ UNCHANGED mReader

unlock_shared(t) ==
  /\ sharedPc[t] = "read"
  /\ mReader' = mReader - 1
  /\ notify_all(t)
  /\ UNCHANGED mWriter

(* A wait may end without a notification.                                  *)
SpuriousWakeup(t) ==
  /\ Awake(sharedPc[t]) # sharedPc[t]
  /\ Goto(t, Awake(sharedPc[t]))
  /\ UNCHANGED <<mReader, mWriter>>

Step(t) ==
  announce(t) \/ drain(t) \/ lock_shared(t) \/ unlock(t) \/ unlock_shared(t)

-----------------------------------------------------------------------------
(* PROPERTIES                                                              *)

In(label) == {t \in Threads : sharedPc[t] = label}

(* The counter counts the readers inside, the flag stands for one writer,    *)
(* inside or waiting for the readers, and readers exclude a writer inside. *)
SharedInv ==
  /\ mReader = Cardinality(In("read"))
  /\ Cardinality(In("write") \cup In("drain") \cup In("drainWait")) = (IF mWriter THEN 1 ELSE 0)
  /\ In("write") # {} => In("read") = {}

(* A writer that has announced itself and waits for the readers, or a thread *)
(* that sleeps when no writer is there: that must not last, since           *)
(* notify_all wakes all whom a change concerns.                            *)
Forgotten(t) ==
  \/ sharedPc[t] \in {"drain", "drainWait"}
  \/ ~mWriter /\ sharedPc[t] \in {"lockWait", "sharedWait"}
=============================================================================
