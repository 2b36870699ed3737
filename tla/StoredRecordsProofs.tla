------------------------- MODULE StoredRecordsProofs -------------------------
(***************************************************************************)
(* Theorems about StoredRecords, for every set of threads, keys, scopes    *)
(* and payloads and every bound on the clock.                              *)
(***************************************************************************)
EXTENDS StoredRecords, TLAPS

\* What a step leaves of the state when it changes the call of t alone.
LEMMA OnlyCallChanges ==
  ASSUME TypeOK, NEW t \in Threads, NEW c \in Call \cup {Idle},
         call' = [call EXCEPT ![t] = c], UNCHANGED <<rows, clock, raced>>
  PROVE  TypeOK'
BY DEF TypeOK

\* The phases of a call, read off its pc.
LEMMA Phases ==
  ASSUME TypeOK, NEW t \in Threads, call[t] # Idle
  PROVE  /\ call[t].pc = "select" => call[t] \in SelectingCall
         /\ call[t].pc = "insert" => call[t] \in InsertingCall
         /\ call[t].pc = "delete" => call[t] \in DeletingCall
         /\ call[t] \in Call
BY DEF TypeOK, Call, SelectingCall, InsertingCall, DeletingCall

\* What SELECT created_at makes of a call.
LEMMA SelectedCall ==
  ASSUME TypeOK, NEW t \in Threads, call[t] \in SelectingCall
  PROVE  [call[t] EXCEPT !.pc = "insert", !.created = StampFor(t)] \in InsertingCall
<1>1. StampFor(t) \in Times
  BY DEF StampFor, TypeOK, SelectingCall, Upserts, Row
<1>. QED
  BY <1>1 DEF SelectingCall, InsertingCall

\* A thread is running at most one call, with the fields that call has; every
\* row is complete and its stamps are times the clock has shown.
THEOREM TypeCorrect == Spec => []TypeOK
<1>1. Init => TypeOK
  BY BoundAssumption DEF Init, TypeOK
<1>2. TypeOK /\ [Next]_vars => TypeOK'
  <2> SUFFICES ASSUME TypeOK, [Next]_vars PROVE TypeOK'
    OBVIOUS
  <2>1. ASSUME NEW t \in Threads, NEW k \in Keys, NEW e \in Entries, BeginUpsert(t, k, e)
        PROVE  TypeOK'
    <3>1. [op |-> "upsert", key |-> k, entry |-> e] \in Upserts
      BY DEF Upserts
    <3>2. PICK now \in Times :
            /\ clock' = now
            /\ call' = [call EXCEPT ![t] =
                          [pc |-> "select",
                           request |-> [op |-> "upsert", key |-> k, entry |-> e],
                           now |-> now, created |-> 0]]
      BY <2>1 DEF BeginUpsert
    <3>3. call' \in [Threads -> Call \cup {Idle}]
      BY <3>1, <3>2 DEF TypeOK, Call, SelectingCall
    <3>4. raced' \in SUBSET Keys /\ rows' = rows
      BY <2>1 DEF BeginUpsert, TypeOK
    <3>. QED
      BY <3>2, <3>3, <3>4, BoundAssumption DEF Times, TypeOK
  <2>2. ASSUME NEW t \in Threads, SelectCreatedAt(t) PROVE TypeOK'
    <3>1. call[t] \in SelectingCall
      BY <2>2, Phases DEF SelectCreatedAt, At
    <3>2. [call[t] EXCEPT !.pc = "insert", !.created = StampFor(t)] \in Call
      BY <3>1, SelectedCall DEF Call
    <3>. QED
      BY <2>2, <3>2, OnlyCallChanges DEF SelectCreatedAt, TypeOK
  <2>3. ASSUME NEW t \in Threads, InsertOrReplace(t) PROVE TypeOK'
    <3>1. call[t] \in InsertingCall
      BY <2>3, Phases DEF InsertOrReplace, At
    <3>2. [call[t] EXCEPT !.pc = "done"] \in Call
      BY <3>1 DEF InsertingCall, Call
    <3>3. [scope |-> call[t].request.entry.scope, data |-> call[t].request.entry.data,
           created |-> call[t].created, updated |-> call[t].now] \in Row
      BY <3>1 DEF InsertingCall, Upserts, Entries, Row
    <3>4. rows' \in [Keys -> Row \cup {Absent}]
      BY <2>3, <3>1, <3>3 DEF InsertOrReplace, TypeOK
    <3>. QED
      BY <2>3, <3>2, <3>4 DEF InsertOrReplace, TypeOK
  <2>4. ASSUME NEW t \in Threads, NEW f \in Filters, BeginDelete(t, f) PROVE TypeOK'
    <3>1. [pc |-> "delete", request |-> [op |-> "delete", filter |-> f],
           now |-> 0, created |-> 0] \in Call
      BY DEF Call, DeletingCall, Deletes
    <3>. QED
      BY <2>4, <3>1, OnlyCallChanges DEF BeginDelete
  <2>5. ASSUME NEW t \in Threads, DeleteRows(t) PROVE TypeOK'
    <3>1. call[t] \in DeletingCall
      BY <2>5, Phases DEF DeleteRows, At
    <3>2. [call[t] EXCEPT !.pc = "done"] \in Call
      BY <3>1 DEF DeletingCall, Call
    <3>3. call' \in [Threads -> Call \cup {Idle}]
      BY <2>5, <3>2 DEF DeleteRows, TypeOK
    <3>4. rows' \in [Keys -> Row \cup {Absent}] /\ raced' \in SUBSET Keys
      BY <2>5 DEF DeleteRows, Hit, TypeOK
    <3>. QED
      BY <2>5, <3>3, <3>4 DEF DeleteRows, TypeOK
  <2>6. ASSUME NEW t \in Threads, Return(t) PROVE TypeOK'
    BY <2>6, OnlyCallChanges DEF Return
  <2>7. ASSUME NEW t \in Threads, StatementFails(t) PROVE TypeOK'
    BY <2>7, OnlyCallChanges DEF StatementFails
  <2>8. CASE Crash
    BY <2>8 DEF Crash, TypeOK
  <2>9. CASE UNCHANGED vars
    BY <2>9 DEF vars, TypeOK
  <2>. QED
    BY <2>1, <2>2, <2>3, <2>4, <2>5, <2>6, <2>7, <2>8, <2>9 DEF Next
<1>. QED
  BY <1>1, <1>2, PTL DEF Spec

(***************************************************************************)
(* The contract of created_at and updated_at.                              *)
(***************************************************************************)

Contract == TypeOK /\ UncontendedStamps /\ UncontendedCalls

\* A step that only takes an upsert out of progress, or moves a call that is no
\* upsert, keeps the contract.
LEMMA ContractIgnores ==
  ASSUME Contract, NEW t \in Threads, NEW c \in Call \cup {Idle},
         \A k \in Keys : ~ (c # Idle /\ c.pc \in {"select", "insert"} /\ c.request.key = k),
         call' = [call EXCEPT ![t] = c], UNCHANGED <<rows, clock, raced>>
  PROVE  (UncontendedStamps /\ UncontendedCalls)'
<1>1. \A u \in Threads, k \in Keys : Upserting(u, k)' => u # t /\ Upserting(u, k)
  BY DEF Upserting, Contract, TypeOK
<1>2. \A u \in Threads, k \in Keys : Upserting(u, k)' => (InStep(u, k)' <=> InStep(u, k))
  BY <1>1 DEF InStep, Present, Contract, TypeOK
<1>. QED
  BY <1>1, <1>2 DEF Contract, UncontendedStamps, UncontendedCalls, Present

LEMMA ContractStep == Contract /\ [Next]_vars => (UncontendedStamps /\ UncontendedCalls)'
<1> SUFFICES ASSUME Contract, [Next]_vars
             PROVE  (UncontendedStamps /\ UncontendedCalls)'
  OBVIOUS
<1>t. TypeOK
  BY DEF Contract
<1>1. ASSUME NEW t \in Threads, NEW k0 \in Keys, NEW e \in Entries, BeginUpsert(t, k0, e)
      PROVE  (UncontendedStamps /\ UncontendedCalls)'
  <2>1. PICK now \in {clock, clock + 1} \cap Times :
          /\ clock' = now
          /\ call' = [call EXCEPT ![t] =
                        [pc |-> "select",
                         request |-> [op |-> "upsert", key |-> k0, entry |-> e],
                         now |-> now, created |-> 0]]
    BY <1>1 DEF BeginUpsert
  <2>2. rows' = rows /\ raced \subseteq raced' /\ call[t] = Idle
    BY <1>1 DEF BeginUpsert
  <2>3. clock <= clock' /\ clock' \in Times /\ clock \in 0..MaxClock
    BY <2>1, <1>t, BoundAssumption DEF Times, TypeOK
  <2>4. \A u \in Threads \ {t} : call'[u] = call[u]
    BY <2>1, <1>t DEF TypeOK
  <2>5. call'[t] = [pc |-> "select",
                    request |-> [op |-> "upsert", key |-> k0, entry |-> e],
                    now |-> clock', created |-> 0]
    BY <2>1, <1>t DEF TypeOK
  <2>6. ASSUME NEW k \in Keys \ raced', NEW u \in Threads, Upserting(u, k)'
        PROVE  /\ InStep(u, k)'
               /\ \A v \in Threads : Upserting(v, k)' => u = v
    <3>1. CASE k = k0
      <4>1. \A v \in Threads : ~ Upserting(v, k)
        BY <1>1, <3>1, <2>6 DEF BeginUpsert
      <4>2. \A v \in Threads : Upserting(v, k)' => v = t
        BY <4>1, <2>4 DEF Upserting
      <4>3. Present(k) => rows[k].updated <= clock /\ rows[k].updated \in Times
        BY <2>2, <2>6, <1>t DEF Contract, UncontendedCalls, TypeOK, Present, Row
      <4>4. InStep(t, k)'
        BY <4>3, <2>2, <2>3, <2>5, BoundAssumption DEF InStep, Present, Times
      <4>. QED
        BY <4>2, <4>4, <2>6
    <3>2. CASE k # k0
      <4>1. \A v \in Threads : Upserting(v, k)' => v # t /\ Upserting(v, k)
        BY <3>2, <2>4, <2>5 DEF Upserting
      <4>2. u # t /\ Upserting(u, k) /\ InStep(u, k)
        BY <4>1, <2>2, <2>6 DEF Contract, UncontendedCalls
      <4>3. InStep(u, k)'
        BY <4>2, <2>2, <2>3, <2>4, BoundAssumption DEF InStep, Present, Times
      <4>. QED
        BY <4>1, <4>2, <4>3, <2>2 DEF Contract, UncontendedCalls
    <3>. QED
      BY <3>1, <3>2
  <2>7. \A k \in Keys \ raced' : Present(k)' =>
          rows'[k].created <= rows'[k].updated /\ rows'[k].updated <= clock'
    BY <2>2, <2>3, <1>t, BoundAssumption
       DEF Contract, UncontendedStamps, UncontendedCalls, Present, TypeOK, Row, Times
  <2>. QED
    BY <2>6, <2>7 DEF UncontendedStamps, UncontendedCalls
<1>2. ASSUME NEW t \in Threads, SelectCreatedAt(t)
      PROVE  (UncontendedStamps /\ UncontendedCalls)'
  <2>1. call[t] \in SelectingCall
    BY <1>2, <1>t, Phases DEF SelectCreatedAt, At
  <2>a. /\ \A u \in Threads \ {t} : call'[u] = call[u]
        /\ call'[t] = [call[t] EXCEPT !.pc = "insert", !.created = StampFor(t)]
    BY <1>2, <1>t DEF SelectCreatedAt, TypeOK
  <2>b. call'[t].pc = "insert" /\ call'[t].request = call[t].request
    BY <2>1, <2>a DEF SelectingCall
  <2>d. call'[t] # Idle
    BY <1>2, <2>1, <2>a, <1>t, SelectedCall, MarkAssumption DEF Call
  <2>2. \A u \in Threads, k \in Keys : Upserting(u, k)' <=> Upserting(u, k)
    BY <1>2, <2>a, <2>b, <2>d DEF SelectCreatedAt, At, Upserting
  <2>3. ASSUME NEW u \in Threads, NEW k \in Keys, Upserting(u, k), InStep(u, k)
        PROVE  InStep(u, k)'
    <3>1. CASE u = t
      BY <1>2, <2>1, <2>3, <3>1, <1>t
         DEF SelectCreatedAt, StampFor, Upserting, InStep, Present, TypeOK, SelectingCall
    <3>2. CASE u # t
      BY <1>2, <2>3, <3>2, <1>t DEF SelectCreatedAt, InStep, Present, TypeOK
    <3>. QED
      BY <3>1, <3>2
  <2>. QED
    BY <1>2, <2>2, <2>3
       DEF SelectCreatedAt, Contract, UncontendedStamps, UncontendedCalls, Present
<1>3. ASSUME NEW t \in Threads, InsertOrReplace(t)
      PROVE  (UncontendedStamps /\ UncontendedCalls)'
  <2> DEFINE k0 == call[t].request.key
  <2>1. call[t] \in InsertingCall /\ k0 \in Keys /\ Upserting(t, k0)
    BY <1>3, <1>t, Phases DEF InsertOrReplace, At, InsertingCall, Upserts, Upserting
  <2>2. /\ rows'[k0].created = call[t].created
        /\ rows'[k0].updated = call[t].now
        /\ \A k \in Keys \ {k0} : rows'[k] = rows[k]
        /\ clock' = clock /\ raced' = raced
    BY <1>3, <2>1, <1>t DEF InsertOrReplace, TypeOK
  <2>3. /\ \A u \in Threads \ {t} : call'[u] = call[u]
        /\ call'[t].pc = "done"
    BY <1>3, <1>t, <2>1 DEF InsertOrReplace, TypeOK, InsertingCall
  <2>4. \A u \in Threads, k \in Keys : Upserting(u, k)' => u # t /\ Upserting(u, k)
    BY <2>3 DEF Upserting
  <2>5. ASSUME NEW k \in Keys \ raced
        PROVE  /\ \A u \in Threads : Upserting(u, k)' => InStep(u, k)'
               /\ Present(k)' =>
                    rows'[k].created <= rows'[k].updated /\ rows'[k].updated <= clock'
    <3>1. CASE k = k0
      <4>1. \A u \in Threads : ~ Upserting(u, k)'
        BY <2>1, <2>4, <2>5, <3>1 DEF Contract, UncontendedCalls
      <4>2. InStep(t, k)
        BY <2>1, <2>5, <3>1 DEF Contract, UncontendedCalls
      <4>3. call[t].created = IF Present(k) THEN rows[k].created ELSE call[t].now
        BY <4>2, <1>3 DEF InStep, InsertOrReplace, At
      <4>4. Present(k) => rows[k].created <= rows[k].updated /\ rows[k] \in Row
        BY <2>5, <1>t DEF Contract, UncontendedStamps, Present, TypeOK
      <4>5. call[t].created <= call[t].now /\ call[t].now <= clock
        BY <4>2, <4>3, <4>4, <2>1, <1>t, BoundAssumption
           DEF InStep, Row, Times, InsertingCall, TypeOK
      <4>. QED
        BY <4>1, <4>5, <2>2, <3>1
    <3>2. CASE k # k0
      <4>1. \A u \in Threads : Upserting(u, k)' => InStep(u, k)'
        BY <2>2, <2>3, <2>4, <2>5, <3>2 DEF Contract, UncontendedCalls, InStep, Present
      <4>. QED
        BY <4>1, <2>2, <2>5, <3>2
           DEF Contract, UncontendedStamps, UncontendedCalls, Present
    <3>. QED
      BY <3>1, <3>2
  <2>. QED
    BY <2>2, <2>4, <2>5 DEF Contract, UncontendedStamps, UncontendedCalls
<1>4. ASSUME NEW t \in Threads, NEW f \in Filters, BeginDelete(t, f)
      PROVE  (UncontendedStamps /\ UncontendedCalls)'
  <2>1. [pc |-> "delete", request |-> [op |-> "delete", filter |-> f],
         now |-> 0, created |-> 0] \in Call
    BY DEF Call, DeletingCall, Deletes
  <2> DEFINE c == [pc |-> "delete", request |-> [op |-> "delete", filter |-> f],
                   now |-> 0, created |-> 0]
  <2>2. c.pc = "delete"
    OBVIOUS
  <2>3. \A k \in Keys : ~ (c # Idle /\ c.pc \in {"select", "insert"} /\ c.request.key = k)
    BY <2>2
  <2>. QED
    BY <1>4, <2>1, <2>3, ContractIgnores DEF BeginDelete
<1>5. ASSUME NEW t \in Threads, DeleteRows(t)
      PROVE  (UncontendedStamps /\ UncontendedCalls)'
  <2> DEFINE gone == Hit(call[t].request.filter)
  <2>1. call[t] \in DeletingCall
    BY <1>5, <1>t, Phases DEF DeleteRows, At
  <2>2. /\ \A k \in Keys \ gone : rows'[k] = rows[k]
        /\ \A k \in gone : rows'[k] = Absent
        /\ clock' = clock /\ raced \subseteq raced'
    BY <1>5, <1>t DEF DeleteRows, TypeOK, Hit
  <2>3. /\ \A u \in Threads \ {t} : call'[u] = call[u]
        /\ call'[t].pc = "done"
    BY <1>5, <1>t, <2>1 DEF DeleteRows, TypeOK, DeletingCall
  <2>4. \A u \in Threads, k \in Keys : Upserting(u, k)' => u # t /\ Upserting(u, k)
    BY <2>3 DEF Upserting
  <2>5. \A k \in gone \ raced' : \A u \in Threads : ~ Upserting(u, k)
    BY <1>5 DEF DeleteRows
  <2>6. \A k \in Keys \ raced', u \in Threads : Upserting(u, k)' => InStep(u, k)'
    BY <2>2, <2>3, <2>4, <2>5 DEF Contract, UncontendedCalls, InStep, Present
  <2>7. \A k \in Keys \ raced' : Present(k)' =>
          rows'[k].created <= rows'[k].updated /\ rows'[k].updated <= clock'
    BY <2>2 DEF Contract, UncontendedStamps, UncontendedCalls, Present
  <2>. QED
    BY <2>2, <2>4, <2>6, <2>7 DEF Contract, UncontendedStamps, UncontendedCalls
<1>6. ASSUME NEW t \in Threads, Return(t) \/ StatementFails(t)
      PROVE  (UncontendedStamps /\ UncontendedCalls)'
  BY <1>6, ContractIgnores DEF Return, StatementFails
<1>7. CASE Crash
  <2>1. \A u \in Threads, k \in Keys : ~ Upserting(u, k)'
    BY <1>7 DEF Crash, Upserting
  <2>. QED
    BY <1>7, <2>1 DEF Crash, Contract, UncontendedStamps, UncontendedCalls, Present
<1>8. CASE UNCHANGED vars
  BY <1>8 DEF vars, Contract, UncontendedStamps, UncontendedCalls, Present, InStep, Upserting
<1>. QED
  BY <1>1, <1>2, <1>3, <1>4, <1>5, <1>6, <1>7, <1>8 DEF Next

\* No row of a key whose writes never overlapped is older at its last update
\* than at its creation, however many threads write other keys.
THEOREM StampsCorrect == Spec => []UncontendedStamps
<1>1. Init => UncontendedStamps /\ UncontendedCalls
  BY DEF Init, UncontendedStamps, UncontendedCalls, Present, Upserting
<1>. QED
  BY <1>1, ContractStep, TypeCorrect, PTL DEF Spec, Contract

\* Every update of such a key keeps created_at and never moves updated_at back.
THEOREM UpdatesCorrect == Spec => UncontendedUpdate
<1> DEFINE Kept == \A k \in Keys \ raced' :
             Present(k) /\ Present(k)' =>
               /\ rows'[k].created = rows[k].created
               /\ rows'[k].updated >= rows[k].updated
<1>1. Contract /\ [Next]_vars => [Kept]_vars
  <2> SUFFICES ASSUME Contract, Next, NEW k \in Keys \ raced', Present(k), Present(k)'
               PROVE  /\ rows'[k].created = rows[k].created
                      /\ rows'[k].updated >= rows[k].updated
    OBVIOUS
  <2>t. TypeOK /\ rows[k] \in Row
    BY DEF Contract, TypeOK, Present
  <2>1. ASSUME NEW t \in Threads, InsertOrReplace(t), k = call[t].request.key
        PROVE  rows'[k].created = rows[k].created /\ rows'[k].updated >= rows[k].updated
    <3>1. call[t] \in InsertingCall /\ Upserting(t, k)
      BY <2>1, <2>t, Phases DEF InsertOrReplace, At, Upserting
    <3>2. InStep(t, k)
      BY <2>1, <3>1 DEF InsertOrReplace, Contract, UncontendedCalls
    <3>3. rows'[k].created = call[t].created /\ rows'[k].updated = call[t].now
      BY <2>1, <2>t DEF InsertOrReplace, TypeOK
    <3>. QED
      BY <2>1, <3>1, <3>2, <3>3, <2>t
         DEF InsertOrReplace, At, InStep, Row, Times, InsertingCall
  <2>2. CASE rows'[k] = rows[k]
    BY <2>2, <2>t DEF Row, Times
  <2>3. (\E t \in Threads : InsertOrReplace(t) /\ k = call[t].request.key) \/ rows'[k] = rows[k]
    BY <2>t DEF Next, BeginUpsert, SelectCreatedAt, InsertOrReplace, BeginDelete, DeleteRows,
                Return, StatementFails, Crash, TypeOK, Present
  <2>. QED
    BY <2>1, <2>2, <2>3
<1>2. Init => UncontendedStamps /\ UncontendedCalls
  BY DEF Init, UncontendedStamps, UncontendedCalls, Present, Upserting
<1>3. Spec => []Contract
  BY <1>2, ContractStep, TypeCorrect, PTL DEF Spec, Contract
<1>. QED
  BY <1>1, <1>3, PTL DEF Spec, UncontendedUpdate

(***************************************************************************)
(* Refinement: the statements of app/db.py implement the atomic map.       *)
(***************************************************************************)

\* What a call looks like to the map: its request, and whether it is done.
LEMMA PendingShape ==
  ASSUME TypeOK, NEW t \in Threads, call[t] # Idle
  PROVE  /\ call[t].pc = "done" => PendingOf(t) = [request |-> call[t].request, done |-> TRUE]
         /\ call[t].pc # "done" => PendingOf(t) = [request |-> call[t].request, done |-> FALSE]
         /\ PendingOf(t) # Idle
         /\ call[t].request \in Requests
<1>1. call[t].request \in Requests
  BY Phases DEF Call, SelectingCall, InsertingCall, DeletingCall, Requests
<1>2. ASSUME call[t].pc = "done"
      PROVE  PendingOf(t) = [request |-> call[t].request, done |-> TRUE]
  <2>1. (call[t].pc = "done") = TRUE
    BY <1>2
  <2>. QED
    BY <2>1, Zenon DEF PendingOf
<1>3. ASSUME call[t].pc # "done"
      PROVE  PendingOf(t) = [request |-> call[t].request, done |-> FALSE]
  <2>1. (call[t].pc = "done") = FALSE
    BY <1>3
  <2>. QED
    BY <2>1, Zenon DEF PendingOf
<1>4. \A b \in BOOLEAN : [request |-> call[t].request, done |-> b] # Idle
  BY <1>1, MarkAssumption
<1>. QED
  BY <1>1, <1>2, <1>3, <1>4

\* Updating one field of a record known field by field.
LEMMA SetDone ==
  ASSUME NEW x, NEW r, NEW a, NEW b, x = [request |-> r, done |-> a]
  PROVE  [x EXCEPT !.done = b] = [request |-> r, done |-> b]
<1>1. PICK S : r \in S /\ a \in S /\ b \in S
  <2>1. r \in {r, a, b} /\ a \in {r, a, b} /\ b \in {r, a, b}
    OBVIOUS
  <2>. QED
    BY <2>1, Zenon
<1>. QED
  BY <1>1, SMT

LEMMA Completed ==
  ASSUME NEW x, NEW r, x = [request |-> r, done |-> FALSE]
  PROVE  [x EXCEPT !.done = TRUE] = [request |-> r, done |-> TRUE]
<1>1. PICK a : a = FALSE
  OBVIOUS
<1>2. PICK b : b = TRUE
  OBVIOUS
<1>3. x = [request |-> r, done |-> a]
  BY <1>1, Zenon
<1>4. [x EXCEPT !.done = b] = [request |-> r, done |-> b]
  BY <1>3, SetDone
<1>. QED
  BY <1>2, <1>4, Zenon

\* Overlapping or not, failing or cut off by a crash, calls into app/db.py act
\* on scope and data like calls into an atomic map that survives restarts: an
\* upsert takes effect at its INSERT OR REPLACE, a delete at its DELETE.
THEOREM RefinementCorrect == Spec => RefinesMap
<1> DEFINE m == [k \in Keys |-> EntryOf(k)]
           p == [t \in Threads |-> PendingOf(t)]
<1>s. Map!Keys = Keys /\ Map!Requests = Requests
  BY DEF Map!Keys, Keys, Map!Requests, Requests, Map!Upserts, Upserts, Map!Deletes, Deletes,
         Map!Entries, Entries, Map!Scopes, Scopes, Map!Filters, Filters
<1>1. Init => Map!Init
  BY <1>s DEF Init, Map!Init, EntryOf, PendingOf
<1>2. TypeOK /\ TypeOK' /\ [Next]_vars => [Map!Next]_(Map!vars)
  <2> SUFFICES ASSUME TypeOK, TypeOK', [Next]_vars PROVE [Map!Next]_(Map!vars)
    OBVIOUS
  <2>a. ASSUME NEW t \in Threads, NEW c, call' = [call EXCEPT ![t] = c]
        PROVE  p' = [p EXCEPT ![t] = IF c = Idle THEN Idle
                                     ELSE [request |-> c.request, done |-> c.pc = "done"]]
    BY <2>a DEF TypeOK, PendingOf
  <2>b. rows' = rows => m' = m
    BY DEF EntryOf
  <2>c. ASSUME NEW t \in Threads, call[t] # Idle
        PROVE  /\ call[t].pc = "done" => p[t] = [request |-> call[t].request, done |-> TRUE]
               /\ call[t].pc # "done" => p[t] = [request |-> call[t].request, done |-> FALSE]
               /\ p[t] # Idle
    BY <2>c, PendingShape
  <2>1. ASSUME NEW t \in Threads, NEW k \in Keys, NEW e \in Entries, BeginUpsert(t, k, e)
        PROVE  Map!Submit(t, [op |-> "upsert", key |-> k, entry |-> e])
    <3> DEFINE r == [op |-> "upsert", key |-> k, entry |-> e]
    <3>1. PICK now \in Times :
            call' = [call EXCEPT ![t] = [pc |-> "select", request |-> r,
                                         now |-> now, created |-> 0]]
      BY <2>1 DEF BeginUpsert
    <3> DEFINE c == [pc |-> "select", request |-> r, now |-> now, created |-> 0]
    <3>2. c \in Call
      BY DEF Call, SelectingCall, Upserts
    <3>3. c # Idle /\ c.request = r /\ c.pc = "select"
      BY <3>2, MarkAssumption
    <3> HIDE DEF c, r
    <3>4. p' = [p EXCEPT ![t] = [request |-> r, done |-> FALSE]]
      BY <3>1, <3>3, <2>a DEF c
    <3>5. p[t] = Idle /\ m' = m
      BY <2>1, <2>b DEF BeginUpsert, PendingOf
    <3>. QED
      BY <3>4, <3>5 DEF Map!Submit, r
  <2>2. ASSUME NEW t \in Threads, SelectCreatedAt(t) PROVE UNCHANGED <<m, p>>
    <3> DEFINE c == [call[t] EXCEPT !.pc = "insert", !.created = StampFor(t)]
    <3>1. call[t] \in SelectingCall
      BY <2>2, Phases DEF SelectCreatedAt, At
    <3>2. c \in Call /\ c.request = call[t].request /\ c.pc = "insert"
      BY <3>1, SelectedCall DEF Call, SelectingCall
    <3>3. call' = [call EXCEPT ![t] = c]
      BY <2>2 DEF SelectCreatedAt, TypeOK
    <3>4. c # Idle
      BY <3>2, MarkAssumption
    <3> HIDE DEF c
    <3>5. (c.pc = "done") = FALSE /\ (call[t].pc = "done") = FALSE
      BY <3>2, <2>2 DEF SelectCreatedAt, At
    <3>6. p' = [p EXCEPT ![t] = [request |-> c.request, done |-> c.pc = "done"]]
      BY <3>3, <3>4, <2>a
    <3>7. p[t] = [request |-> call[t].request, done |-> FALSE]
      BY <2>2, <2>c DEF SelectCreatedAt, At
    <3>9. p' = [p EXCEPT ![t] = [request |-> call[t].request, done |-> FALSE]]
      BY <3>2, <3>5, <3>6, Zenon
    <3>8. p' = p
      BY <3>7, <3>9
    <3>. QED
      BY <3>8, <2>2, <2>b DEF SelectCreatedAt
  <2>3. ASSUME NEW t \in Threads, InsertOrReplace(t) PROVE Map!TakeEffect(t)
    <3> DEFINE c == [call[t] EXCEPT !.pc = "done"]
               r == call[t].request
    <3>1. call[t] \in InsertingCall
      BY <2>3, Phases DEF InsertOrReplace, At
    <3>2. c \in Call /\ c.request = r /\ c.pc = "done" /\ r \in Upserts
      BY <3>1 DEF Call, InsertingCall
    <3>3. call' = [call EXCEPT ![t] = c] /\ c # Idle
      BY <2>3, <3>2, MarkAssumption DEF InsertOrReplace, TypeOK
    <3>a. (c.pc = "done") = TRUE /\ (call[t].pc = "done") = FALSE /\ call[t] # Idle
      BY <2>3, <3>2 DEF InsertOrReplace, At
    <3> HIDE DEF c
    <3>4. p[t] = [request |-> r, done |-> FALSE] /\ p[t] # Idle
      BY <3>a, <2>c
    <3>b. p' = [p EXCEPT ![t] = [request |-> c.request, done |-> c.pc = "done"]]
      BY <3>3, <2>a
    <3>c. p' = [p EXCEPT ![t] = [request |-> r, done |-> TRUE]]
      BY <3>a, <3>b, <3>2, Zenon
    <3>d. [p[t] EXCEPT !.done = TRUE] = [request |-> r, done |-> TRUE]
      BY <3>4, Completed
    <3>5. p' = [p EXCEPT ![t].done = TRUE]
      BY <3>c, <3>d, Zenon
    <3>6. m' = [m EXCEPT ![r.key] = r.entry]
      <4>1. r.key \in Keys /\ r.entry \in Entries
            /\ r.entry = [scope |-> r.entry.scope, data |-> r.entry.data]
        BY <3>2 DEF Upserts, Entries
      <4>2. \A k \in Keys \ {r.key} : rows'[k] = rows[k]
        BY <2>3 DEF InsertOrReplace, TypeOK
      <4>3. /\ rows'[r.key] = [scope |-> r.entry.scope, data |-> r.entry.data,
                               created |-> call[t].created, updated |-> call[t].now]
            /\ rows'[r.key] \in Row
        BY <2>3, <3>1, <4>1 DEF InsertOrReplace, TypeOK, InsertingCall, Row, Entries
      <4>4. rows'[r.key] # Absent
        BY <4>3, MarkAssumption
      <4>5. \A k \in Keys : k = r.key => EntryOf(k)' = r.entry
        BY <4>1, <4>3, <4>4 DEF EntryOf
      <4>6. \A k \in Keys \ {r.key} : EntryOf(k)' = EntryOf(k)
        BY <4>2 DEF EntryOf
      <4>. QED
        BY <4>1, <4>5, <4>6
    <3>7. r.op = "upsert"
      BY <3>2 DEF Upserts
    <3> HIDE DEF m, p, r
    <3>8. ~ p[t].done /\ p[t].request = r
      BY <3>4
    <3>. QED
      BY <3>4, <3>5, <3>6, <3>7, <3>8 DEF Map!TakeEffect, Map!Apply, m, p
  <2>4. ASSUME NEW t \in Threads, NEW f \in Filters, BeginDelete(t, f)
        PROVE  Map!Submit(t, [op |-> "delete", filter |-> f])
    <3> DEFINE r == [op |-> "delete", filter |-> f]
               c == [pc |-> "delete", request |-> r, now |-> 0, created |-> 0]
    <3>1. call' = [call EXCEPT ![t] = c] /\ p[t] = Idle /\ m' = m
      BY <2>4, <2>b DEF BeginDelete, PendingOf
    <3>2. c \in Call
      BY DEF Call, DeletingCall, Deletes
    <3>3. c # Idle /\ c.request = r /\ c.pc = "delete"
      BY <3>2, MarkAssumption
    <3> HIDE DEF c, r
    <3>4. p' = [p EXCEPT ![t] = [request |-> r, done |-> FALSE]]
      BY <3>1, <3>3, <2>a
    <3>. QED
      BY <3>1, <3>4 DEF Map!Submit, r
  <2>5. ASSUME NEW t \in Threads, DeleteRows(t) PROVE Map!TakeEffect(t)
    <3> DEFINE c == [call[t] EXCEPT !.pc = "done"]
               r == call[t].request
    <3>1. call[t] \in DeletingCall
      BY <2>5, Phases DEF DeleteRows, At
    <3>2. c \in Call /\ c.request = r /\ c.pc = "done" /\ r \in Deletes
      BY <3>1 DEF Call, DeletingCall
    <3>3. call' = [call EXCEPT ![t] = c] /\ c # Idle
      BY <2>5, <3>2, MarkAssumption DEF DeleteRows, TypeOK
    <3>a. (c.pc = "done") = TRUE /\ (call[t].pc = "done") = FALSE /\ call[t] # Idle
      BY <2>5, <3>2 DEF DeleteRows, At
    <3> HIDE DEF c
    <3>4. p[t] = [request |-> r, done |-> FALSE] /\ p[t] # Idle
      BY <3>a, <2>c
    <3>b. p' = [p EXCEPT ![t] = [request |-> c.request, done |-> c.pc = "done"]]
      BY <3>3, <2>a
    <3>c. p' = [p EXCEPT ![t] = [request |-> r, done |-> TRUE]]
      BY <3>a, <3>b, <3>2, Zenon
    <3>d. [p[t] EXCEPT !.done = TRUE] = [request |-> r, done |-> TRUE]
      BY <3>4, Completed
    <3>5. p' = [p EXCEPT ![t].done = TRUE]
      BY <3>c, <3>d, Zenon
    <3>6. m' = [k \in Keys |-> IF m[k] # Absent /\ Selected(k, m[k].scope, r.filter)
                                THEN Absent ELSE m[k]]
      <4>1. ASSUME NEW k \in Keys
            PROVE  /\ (m[k] # Absent) <=> (rows[k] # Absent)
                   /\ rows[k] # Absent => m[k].scope = rows[k].scope
        BY MarkAssumption DEF EntryOf, TypeOK, Row, Entries
      <4>2. ASSUME NEW k \in Keys
            PROVE  m'[k] = IF k \in Hit(r.filter) THEN Absent ELSE m[k]
        BY <2>5 DEF DeleteRows, EntryOf
      <4>. QED
        BY <4>1, <4>2 DEF Hit
    <3>. QED
      BY <1>s, <3>2, <3>4, <3>5, <3>6
         DEF Map!TakeEffect, Map!Apply, Deletes, Map!Selected, Selected, Map!ScopeMatches,
             ScopeMatches, Map!ColumnMatches, ColumnMatches
  <2>6. ASSUME NEW t \in Threads, Return(t) PROVE Map!Return(t)
    <3>1. p[t] # Idle /\ p[t].done
      BY <2>6, <2>c DEF Return, At
    <3>2. p' = [p EXCEPT ![t] = Idle] /\ m' = m
      BY <2>6, <2>a, <2>b DEF Return
    <3>. QED
      BY <3>1, <3>2 DEF Map!Return
  <2>7. ASSUME NEW t \in Threads, StatementFails(t) PROVE Map!Fail(t)
    <3>1. p[t] # Idle /\ ~ p[t].done
      BY <2>7, <2>c DEF StatementFails
    <3>2. p' = [p EXCEPT ![t] = Idle] /\ m' = m
      BY <2>7, <2>a, <2>b DEF StatementFails
    <3>. QED
      BY <3>1, <3>2 DEF Map!Fail
  <2>8. CASE Crash
    BY <2>8, <2>b DEF Crash, PendingOf, Map!Next, Map!Crash
  <2>9. CASE UNCHANGED vars
    BY <2>9, <2>b DEF vars, PendingOf, Map!vars
  <2>. QED
    BY <1>s, <2>1, <2>2, <2>3, <2>4, <2>5, <2>6, <2>7, <2>8, <2>9
       DEF Next, Map!Next, Map!vars, Requests, Upserts, Deletes
<1>. QED
  BY <1>1, <1>2, TypeCorrect, PTL DEF Spec, RefinesMap, Map!Spec
=============================================================================
