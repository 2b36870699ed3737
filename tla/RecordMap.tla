------------------------------ MODULE RecordMap ------------------------------
(***************************************************************************)
(* What the record store promises its callers, without saying how: a map   *)
(* from (resource type, record id) to the last entry written, that several *)
(* callers change at once.  A call that returns took effect exactly once   *)
(* and in one indivisible step, between its submission and its return; a   *)
(* call that fails took no effect at all.  A crash loses every call in     *)
(* progress and nothing of the map.                                        *)
(*                                                                         *)
(* StoredRecords (the model of app/db.py) is shown to implement this.      *)
(***************************************************************************)
EXTENDS RecordSchema

CONSTANTS
  Threads,   \* the callers
  Absent,    \* marks a key with no entry
  Idle       \* marks a caller with no call in progress

VARIABLES
  map,       \* the entry of every key, or Absent
  pending    \* per caller: its request and whether it took effect, or Idle

vars == <<map, pending>>

Init ==
  /\ map = [k \in Keys |-> Absent]
  /\ pending = [t \in Threads |-> Idle]

\* The map after request r.
Apply(r) ==
  IF r.op = "upsert"
  THEN [map EXCEPT ![r.key] = r.entry]
  ELSE [k \in Keys |->
          IF map[k] # Absent /\ Selected(k, map[k].scope, r.filter)
          THEN Absent ELSE map[k]]

Submit(t, r) ==
  /\ pending[t] = Idle
  /\ pending' = [pending EXCEPT ![t] = [request |-> r, done |-> FALSE]]
  /\ UNCHANGED map

\* The one step in which the call of t takes effect.
TakeEffect(t) ==
  /\ pending[t] # Idle
  /\ ~ pending[t].done
  /\ map' = Apply(pending[t].request)
  /\ pending' = [pending EXCEPT ![t].done = TRUE]

Return(t) ==
  /\ pending[t] # Idle
  /\ pending[t].done
  /\ pending' = [pending EXCEPT ![t] = Idle]
  /\ UNCHANGED map

Fail(t) ==
  /\ pending[t] # Idle
  /\ ~ pending[t].done
  /\ pending' = [pending EXCEPT ![t] = Idle]
  /\ UNCHANGED map

\* The process dies: nobody waits any more, the map is what it was.
Crash ==
  /\ pending' = [t \in Threads |-> Idle]
  /\ UNCHANGED map

Next ==
  \/ \E t \in Threads :
       \/ \E r \in Requests : Submit(t, r)
       \/ TakeEffect(t)
       \/ Return(t)
       \/ Fail(t)
  \/ Crash

Spec == Init /\ [][Next]_vars
=============================================================================
