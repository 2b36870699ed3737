---------------------------- MODULE StoredRecords ----------------------------
(***************************************************************************)
(* app/db.py: the SQLite table stored_records behind every public write    *)
(* endpoint, at the granularity of SQL statements.                         *)
(*                                                                         *)
(* Handlers are plain functions, so the server runs them on the threads of *)
(* a pool; each call of this module opens its own autocommit connection.   *)
(* One statement is indivisible (SQLite serialises writers), but upsert is *)
(* two statements, and nothing stops another thread between them.          *)
(*                                                                         *)
(* The file outlives the process: a crash drops the calls and keeps rows.  *)
(***************************************************************************)
EXTENDS RecordSchema, Integers

CONSTANTS
  Threads,   \* threads with a call into app/db.py
  MaxClock,  \* bound on the wall clock
  Absent,    \* marks a key with no row
  Idle       \* marks a thread outside app/db.py

ASSUME BoundAssumption == MaxClock \in Nat \ {0}
VARIABLES
  rows,      \* the table: the row of every key, or Absent
  call,      \* per thread: the call in progress, or Idle
  clock,     \* the last time a call read from the wall clock
  raced      \* history: the keys on which an upsert overlapped another write

vars == <<rows, call, clock, raced>>

Times == 1..MaxClock

Row == [scope : Scopes, data : Data, created : Times, updated : Times]

\* An upsert has its stamp once it selected; a delete has no use for the clock.
SelectingCall == [pc : {"select"}, request : Upserts, now : Times, created : {0}]
InsertingCall == [pc : {"insert", "done"}, request : Upserts, now : Times, created : Times]
DeletingCall == [pc : {"delete", "done"}, request : Deletes, now : {0}, created : {0}]
Call == SelectingCall \cup InsertingCall \cup DeletingCall

ASSUME MarkAssumption ==
  /\ Absent \notin Entries \cup Row
  /\ Idle \notin Call \cup [request : Requests, done : BOOLEAN]

TypeOK ==
  /\ rows \in [Keys -> Row \cup {Absent}]
  /\ call \in [Threads -> Call \cup {Idle}]
  /\ clock \in 0..MaxClock
  /\ raced \in SUBSET Keys

Init ==
  /\ rows = [k \in Keys |-> Absent]
  /\ call = [t \in Threads |-> Idle]
  /\ clock = 0
  /\ raced = {}

Upserting(t, k) ==
  /\ call[t] # Idle
  /\ call[t].pc \in {"select", "insert"}
  /\ call[t].request.key = k

At(t, pc) == call[t] # Idle /\ call[t].pc = pc

(***************************************************************************)
(* upsert_record                                                           *)
(***************************************************************************)

\* now = _now(), before the connection is opened.  Time does not run back,
\* and two calls may read the same instant.
BeginUpsert(t, k, e) ==
  /\ call[t] = Idle
  /\ \E now \in {clock, clock + 1} \cap Times :
       /\ clock' = now
       /\ call' = [call EXCEPT ![t] =
                     [pc |-> "select", request |-> [op |-> "upsert", key |-> k, entry |-> e],
                      now |-> now, created |-> 0]]
  /\ raced' = IF \E u \in Threads : Upserting(u, k) THEN raced \cup {k} ELSE raced
  /\ UNCHANGED rows

\* Variants: the clock is read again; a missing row has no default.
StampFor_SecondClock(t) ==
  LET k == call[t].request.key
  IN  IF rows[k] = Absent THEN (IF clock < MaxClock THEN clock + 1 ELSE clock)
      ELSE rows[k].created
StampFor_NoDefault(t) ==
  LET k == call[t].request.key
  IN  IF rows[k] = Absent THEN -1 ELSE rows[k].created

\* SELECT created_at: the row's own stamp if there is a row, else now.
StampFor(t) ==
  LET k == call[t].request.key
  IN  IF rows[k] = Absent THEN call[t].now ELSE rows[k].created

\* A variant: created_at is always now.
SelectCreatedAt_Skipped(t) ==
  /\ At(t, "select")
  /\ call' = [call EXCEPT ![t].pc = "insert", ![t].created = call[t].now]
  /\ UNCHANGED <<rows, clock, raced>>

SelectCreatedAt(t) ==
  /\ At(t, "select")
  /\ call' = [call EXCEPT ![t].pc = "insert", ![t].created = StampFor(t)]
  /\ UNCHANGED <<rows, clock, raced>>

\* A variant: an update of data_json and the stamps only.
InsertOrReplace_KeepScope(t) ==
  /\ At(t, "insert")
  /\ LET r == call[t].request
         scope == IF rows[r.key] = Absent THEN r.entry.scope ELSE rows[r.key].scope
     IN  rows' = [rows EXCEPT ![r.key] =
                    [scope |-> scope, data |-> r.entry.data,
                     created |-> call[t].created, updated |-> call[t].now]]
  /\ call' = [call EXCEPT ![t].pc = "done"]
  /\ UNCHANGED <<clock, raced>>

\* INSERT OR REPLACE: the whole row, scope columns included, is replaced.
InsertOrReplace(t) ==
  /\ At(t, "insert")
  /\ LET r == call[t].request
     IN  rows' = [rows EXCEPT ![r.key] =
                    [scope |-> r.entry.scope, data |-> r.entry.data,
                     created |-> call[t].created, updated |-> call[t].now]]
  /\ call' = [call EXCEPT ![t].pc = "done"]
  /\ UNCHANGED <<clock, raced>>

(***************************************************************************)
(* delete_record, delete_records, reset: one DELETE statement each         *)
(***************************************************************************)

BeginDelete(t, f) ==
  /\ call[t] = Idle
  /\ call' = [call EXCEPT ![t] =
                [pc |-> "delete", request |-> [op |-> "delete", filter |-> f],
                 now |-> 0, created |-> 0]]
  /\ UNCHANGED <<rows, clock, raced>>

Hit(f) == {k \in Keys : rows[k] # Absent /\ Selected(k, rows[k].scope, f)}

DeleteRows(t) ==
  /\ At(t, "delete")
  /\ LET gone == Hit(call[t].request.filter)
     IN  /\ rows' = [k \in Keys |-> IF k \in gone THEN Absent ELSE rows[k]]
         /\ raced' = raced \cup {k \in gone : \E u \in Threads : Upserting(u, k)}
  /\ call' = [call EXCEPT ![t].pc = "done"]
  /\ UNCHANGED clock

(***************************************************************************)
(* How a call ends                                                         *)
(***************************************************************************)

\* conn.close() and the return to the handler.
Return(t) ==
  /\ At(t, "done")
  /\ call' = [call EXCEPT ![t] = Idle]
  /\ UNCHANGED <<rows, clock, raced>>

\* A statement raises (the database stays locked past the busy timeout, the
\* disk is full): the finally clause closes the connection, nothing changed.
StatementFails(t) ==
  /\ call[t] # Idle
  /\ call[t].pc \in {"select", "insert", "delete"}
  /\ call' = [call EXCEPT ![t] = Idle]
  /\ UNCHANGED <<rows, clock, raced>>

Crash ==
  /\ call' = [t \in Threads |-> Idle]
  /\ UNCHANGED <<rows, clock, raced>>

Next ==
  \/ \E t \in Threads :
       \/ \E k \in Keys, e \in Entries : BeginUpsert(t, k, e)
       \/ SelectCreatedAt(t)
       \/ InsertOrReplace(t)
       \/ \E f \in Filters : BeginDelete(t, f)
       \/ DeleteRows(t)
       \/ Return(t)
       \/ StatementFails(t)
  \/ Crash

Spec == Init /\ [][Next]_vars

(***************************************************************************)
(* Properties                                                              *)
(***************************************************************************)

Present(k) == rows[k] # Absent

\* As long as no upsert of a key overlapped another write of that key, its row
\* was last updated at or after its creation.
UncontendedStamps ==
  \A k \in Keys \ raced : Present(k) => rows[k].created <= rows[k].updated

\* ... and every update of it keeps created_at and moves updated_at forward:
\* the contract upsert_record's docstring states, for sequential clients.
UncontendedUpdate ==
  [][\A k \in Keys \ raced' :
       Present(k) /\ Present(k)' =>
         /\ rows'[k].created = rows[k].created
         /\ rows'[k].updated >= rows[k].updated]_vars

\* What makes that inductive: an upsert of an unraced key is alone on its key,
\* began after the row's last update, and selected the stamp still in the row.
InStep(t, k) ==
  /\ call[t].now \in 1..clock
  /\ Present(k) => rows[k].updated <= call[t].now
  /\ call[t].pc = "insert" =>
       call[t].created = IF Present(k) THEN rows[k].created ELSE call[t].now

UncontendedCalls ==
  \A k \in Keys \ raced :
    /\ \A t, u \in Threads : Upserting(t, k) /\ Upserting(u, k) => t = u
    /\ \A t \in Threads : Upserting(t, k) => InStep(t, k)
    /\ Present(k) => rows[k].updated <= clock

\* The table is an atomic map: forget the stamps, and a call is submitted,
\* takes effect once (at its INSERT or its DELETE), and returns.
EntryOf(k) ==
  IF rows[k] = Absent THEN Absent ELSE [scope |-> rows[k].scope, data |-> rows[k].data]

PendingOf(t) ==
  IF call[t] = Idle THEN Idle
  ELSE [request |-> call[t].request, done |-> call[t].pc = "done"]

Map == INSTANCE RecordMap WITH
         map <- [k \in Keys |-> EntryOf(k)],
         pending <- [t \in Threads |-> PendingOf(t)]

\* Concurrent calls into app/db.py, failing statements and crashes included,
\* behave like calls into an atomic map that survives restarts.
RefinesMap == Map!Spec
=============================================================================
