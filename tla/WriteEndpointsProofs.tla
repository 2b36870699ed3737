------------------------ MODULE WriteEndpointsProofs ------------------------
(***************************************************************************)
(* Theorems about WriteEndpoints, for every set of threads, types, scopes  *)
(* and bodies.                                                             *)
(***************************************************************************)
EXTENDS WriteEndpoints, TLAPS

\* A request names a scope of the table.
LEMMA ScopesOfType == ASSUME NEW type \in ResourceTypes PROVE ScopesOf(type) \subseteq Scopes
BY DEF ScopesOf, Scopes, Anywhere

\* What the two calls into the store do, key by key.
LEMMA Upserted ==
  ASSUME NEW r, r.op = "upsert"
  PROVE  Store!Apply(r) = [rows EXCEPT ![r.key] = r.entry]
BY DEF Store!Apply

LEMMA Deleted ==
  ASSUME TypeOK, NEW r, r.op = "delete", r.filter.type # None
  PROVE  /\ Store!Apply(r) \in [Keys -> Entries \cup {Absent}]
         /\ \A k \in Keys : k.type # r.filter.type => Store!Apply(r)[k] = rows[k]
         /\ \A k \in Keys : Store!Apply(r)[k] \in {rows[k], Absent}
BY DEF Store!Apply, Store!Keys, Keys, TypeOK, Store!Selected, Store!ColumnMatches

\* The item being handled.
LEMMA ItemType ==
  ASSUME TypeOK, NEW t \in Threads, handler[t] # Idle
  PROVE  /\ handler[t] \in Handlers
         /\ handler[t].type \in ResourceTypes
         /\ handler[t].scope \in Scopes
         /\ handler[t].body \in Seq(Items)
         /\ handler[t].at \in Nat \ {0}
         /\ InBody(t) => /\ Item(t) \in Items
                         /\ handler[t].at \in 1..Len(handler[t].body)
                         /\ [type |-> handler[t].type, id |-> Item(t).id] \in Keys
                         /\ [scope |-> handler[t].scope, data |-> Item(t).data] \in Entries
<1>1. handler[t] \in Handlers
  BY DEF TypeOK
<1>2. /\ handler[t].type \in ResourceTypes /\ handler[t].scope \in Scopes
      /\ handler[t].body \in Seq(Items) /\ handler[t].at \in Nat \ {0}
  BY <1>1 DEF Handlers
<1>3. ASSUME InBody(t) PROVE Item(t) \in Items /\ handler[t].at \in 1..Len(handler[t].body)
  BY <1>2, <1>3 DEF InBody, Item
<1>4. ASSUME InBody(t)
      PROVE  /\ [type |-> handler[t].type, id |-> Item(t).id] \in Keys
             /\ [scope |-> handler[t].scope, data |-> Item(t).data] \in Entries
  BY <1>2, <1>3, <1>4, ShapeAssumption DEF Items, Keys, Entries
<1>. QED
  BY <1>1, <1>2, <1>3, <1>4

\* Candidates are keys of the type they were read for.
LEMMA CandidateKeys ==
  ASSUME TypeOK, NEW type \in ResourceTypes, NEW scope
  PROVE  /\ Candidates(type, scope) \subseteq Keys
         /\ \A k \in Candidates(type, scope) : k.type = type
BY DEF Candidates, Listed, TypeOK, Keys

\* Every thread handles at most one well-formed request, every row is complete,
\* and the ids still to be drawn are drawn only once.
THEOREM TypeCorrect == Spec => []TypeOK
<1>1. Init => TypeOK
  BY ShapeAssumption DEF Init, TypeOK
<1>2. TypeOK /\ [Next]_vars => TypeOK'
  <2> SUFFICES ASSUME TypeOK, [Next]_vars PROVE TypeOK'
    OBVIOUS
  <2>1. ASSUME NEW t \in Threads, NEW type \in ResourceTypes, NEW scope \in ScopesOf(type),
               NEW body \in Bodies[type], Receive(t, type, scope, body)
        PROVE  TypeOK'
    <3>1. [type |-> type, scope |-> scope, body |-> body, phase |-> "validate", at |-> 1,
           read |-> {}, seen |-> {}] \in Handlers
      BY ScopesOfType, ShapeAssumption DEF Handlers, Phases
    <3>2. handler' \in [Threads -> Handlers \cup {Idle}]
      BY <2>1, <3>1 DEF Receive, TypeOK
    <3>. QED
      BY <2>1, <3>2 DEF Receive, TypeOK
  <2>2. ASSUME NEW t \in Threads, NEW type \in ResourceTypes, ReadCandidates(t, type)
        PROVE  TypeOK'
    <3>1. handler[t] \in Handlers
      BY <2>2 DEF ReadCandidates, In, TypeOK
    <3>2. Candidates(type, handler[t].scope) \subseteq Keys
      BY CandidateKeys
    <3>3. [handler[t] EXCEPT !.read = @ \cup {type},
                             !.seen = @ \cup Candidates(type, handler[t].scope)] \in Handlers
      BY <3>1, <3>2 DEF Handlers
    <3>4. handler' \in [Threads -> Handlers \cup {Idle}]
      BY <2>2, <3>3 DEF ReadCandidates, TypeOK
    <3>. QED
      BY <2>2, <3>4 DEF ReadCandidates, TypeOK
  <2>3. ASSUME NEW t \in Threads, PassItem(t) PROVE TypeOK'
    <3>1. handler[t] \in Handlers
      BY <2>3 DEF PassItem, In, TypeOK
    <3> DEFINE next == handler[t].at + 1
               read == IF handler[t].type \in BatchTypes THEN handler[t].read ELSE {}
               seen == IF handler[t].type \in BatchTypes THEN handler[t].seen ELSE {}
    <3>a. next \in Nat \ {0} /\ read \in SUBSET ResourceTypes /\ seen \in SUBSET Keys
      BY <3>1 DEF Handlers
    <3>b. handler' = [handler EXCEPT ![t] =
                        [handler[t] EXCEPT !.at = next, !.read = read, !.seen = seen]]
      BY <2>3 DEF PassItem, TypeOK
    <3> HIDE DEF next, read, seen
    <3>2. [handler[t] EXCEPT !.at = next, !.read = read, !.seen = seen] \in Handlers
      BY <3>1, <3>a DEF Handlers
    <3>3. handler' \in [Threads -> Handlers \cup {Idle}]
      BY <3>b, <3>2 DEF TypeOK
    <3>. QED
      BY <2>3, <3>3 DEF PassItem, TypeOK
  <2>4. ASSUME NEW t \in Threads, Reject(t) PROVE TypeOK'
    <3>1. handler[t] \in Handlers
      BY <2>4 DEF Reject, In, TypeOK
    <3>2. [handler[t] EXCEPT !.phase = "rejected"] \in Handlers
      BY <3>1 DEF Handlers, Phases
    <3>3. handler' \in [Threads -> Handlers \cup {Idle}]
      BY <2>4, <3>2 DEF Reject, TypeOK
    <3>. QED
      BY <2>4, <3>3 DEF Reject, TypeOK
  <2>5. ASSUME NEW t \in Threads, EndValidation(t) PROVE TypeOK'
    <3>1. handler[t] \in Handlers
      BY <2>5 DEF EndValidation, In, TypeOK
    <3> DEFINE ph == IF handler[t].type \in ReplacedTypes THEN "clear" ELSE "write"
    <3>a. ph \in {"clear", "write"}
      OBVIOUS
    <3>b. handler' = [handler EXCEPT ![t].phase = ph, ![t].at = 1]
      BY <2>5 DEF EndValidation
    <3> HIDE DEF ph
    <3>2. handler' = [handler EXCEPT ![t] = [handler[t] EXCEPT !.phase = ph, !.at = 1]]
      BY <3>1, <3>b DEF TypeOK
    <3>3. [handler[t] EXCEPT !.phase = ph, !.at = 1] \in Handlers
      <4>1. ph \in Phases /\ 1 \in Nat \ {0}
        BY <3>a DEF Phases
      <4>. QED
        BY <3>1, <4>1 DEF Handlers
    <3>4. handler' \in [Threads -> Handlers \cup {Idle}]
      BY <3>2, <3>3 DEF TypeOK
    <3>. QED
      BY <2>5, <3>4 DEF EndValidation, TypeOK
  <2>6. ASSUME NEW t \in Threads, ClearList(t) PROVE TypeOK'
    <3>1. handler[t] \in Handlers /\ handler[t].type # None
      BY <2>6, ItemType, NoneAssumption DEF ClearList, In
    <3>2. [handler[t] EXCEPT !.phase = "write"] \in Handlers
      BY <3>1 DEF Handlers, Phases
    <3>3. rows' \in [Keys -> Entries \cup {Absent}]
      BY <2>6, <3>1, Deleted DEF ClearList
    <3>4. Replacing(handler[t].type, handler[t].scope.client) \subseteq Threads
      BY DEF Replacing
    <3>5. handler' \in [Threads -> Handlers \cup {Idle}]
      BY <2>6, <3>2 DEF ClearList, TypeOK
    <3>. QED
      BY <2>6, <3>3, <3>4, <3>5 DEF ClearList, TypeOK
  <2>7. ASSUME NEW t \in Threads, WriteItem(t) PROVE TypeOK'
    <3>1. /\ handler[t] \in Handlers
          /\ [type |-> handler[t].type, id |-> Item(t).id] \in Keys
          /\ [scope |-> handler[t].scope, data |-> Item(t).data] \in Entries
      BY <2>7, ItemType DEF WriteItem, In
    <3>2. [handler[t] EXCEPT !.at = @ + 1] \in Handlers
      BY <3>1 DEF Handlers
    <3>3. rows' \in [Keys -> Entries \cup {Absent}]
      BY <2>7, <3>1, Upserted DEF WriteItem, TypeOK
    <3>4. handler' \in [Threads -> Handlers \cup {Idle}]
      BY <2>7, <3>2 DEF WriteItem, TypeOK
    <3>5. \A type, client : Replacing(type, client) \subseteq Threads
      BY DEF Replacing
    <3>6. contested' \subseteq Threads /\ lost' \subseteq Keys
      BY <2>7, <3>1, <3>5 DEF WriteItem, TypeOK
    <3>. QED
      BY <2>7, <3>3, <3>4, <3>6 DEF WriteItem, TypeOK
  <2>8. ASSUME NEW t \in Threads, Respond(t) \/ StatementFails(t) PROVE TypeOK'
    BY <2>8 DEF Respond, StatementFails, TypeOK
  <2>9. ASSUME NEW type \in ResourceTypes, RegenerateList(type) PROVE TypeOK'
    BY <2>9, ShapeAssumption DEF RegenerateList, MemoryKeys, TypeOK
  <2>10. ASSUME NEW type \in ResourceTypes, AdminAdd(type) PROVE TypeOK'
    BY <2>10, ShapeAssumption DEF AdminAdd, TypeOK
  <2>11. ASSUME NEW type \in ResourceTypes, AdminDelete(type) PROVE TypeOK'
    <3>1. PICK id \in memory[type] :
            /\ memory' = [memory EXCEPT ![type] = @ \ {id}]
            /\ lost' = lost \cup {[type |-> type, id |-> id]}
      BY <2>11 DEF AdminDelete
    <3>2. [type |-> type, id |-> id] \in Keys
      BY <3>1 DEF TypeOK, Keys
    <3>. QED
      BY <2>11, <3>1, <3>2 DEF AdminDelete, TypeOK
  <2>12. CASE Restart
    BY <2>12, ShapeAssumption DEF Restart, MemoryKeys, TypeOK
  <2>13. CASE UNCHANGED vars
    BY <2>13 DEF vars, TypeOK
  <2>. QED
    BY <2>1, <2>2, <2>3, <2>4, <2>5, <2>6, <2>7, <2>8, <2>9, <2>10, <2>11, <2>12, <2>13 DEF Next
<1>. QED
  BY <1>1, <1>2, PTL DEF Spec

(***************************************************************************)
(* A rejected request changed nothing.                                     *)
(***************************************************************************)

NothingChangedYet ==
  \A t \in Threads : In(t, "validate") \/ In(t, "clear") \/ In(t, "rejected") => t \notin changed

\* A request that is answered with 422 neither stored nor deleted anything: the
\* whole body is validated before the first call that changes the store.
THEOREM RejectionCorrect == Spec => []RejectedWritesNothing
<1>1. Init => NothingChangedYet
  BY DEF Init, NothingChangedYet
<1>2. TypeOK /\ NothingChangedYet /\ [Next]_vars => NothingChangedYet'
  <2> SUFFICES ASSUME TypeOK, NothingChangedYet, [Next]_vars PROVE NothingChangedYet'
    OBVIOUS
  <2>0. ASSUME NEW t \in Threads, NEW c, handler' = [handler EXCEPT ![t] = c],
               changed' \subseteq changed \cup {t},
               c # Idle /\ c.phase \in {"validate", "clear", "rejected"} => t \notin changed'
        PROVE  NothingChangedYet'
    BY <2>0 DEF NothingChangedYet, In, TypeOK
  <2>1. ASSUME NEW t \in Threads, NEW type, NEW scope, NEW body, Receive(t, type, scope, body)
        PROVE  NothingChangedYet'
    BY <2>1, <2>0 DEF Receive
  <2>2. ASSUME NEW t \in Threads, NEW type, ReadCandidates(t, type) PROVE NothingChangedYet'
    BY <2>2 DEF ReadCandidates, NothingChangedYet, In, TypeOK, Handlers
  <2>3. ASSUME NEW t \in Threads, PassItem(t) PROVE NothingChangedYet'
    BY <2>3 DEF PassItem, NothingChangedYet, In, TypeOK, Handlers
  <2>4. ASSUME NEW t \in Threads, Reject(t) PROVE NothingChangedYet'
    BY <2>4 DEF Reject, NothingChangedYet, In, TypeOK
  <2>5. ASSUME NEW t \in Threads, EndValidation(t) PROVE NothingChangedYet'
    BY <2>5 DEF EndValidation, NothingChangedYet, In, TypeOK
  <2>6. ASSUME NEW t \in Threads, ClearList(t) PROVE NothingChangedYet'
    <3>1. handler'[t].phase = "write" /\ \A u \in Threads \ {t} : handler'[u] = handler[u]
      BY <2>6, ItemType DEF ClearList, In, TypeOK, Handlers
    <3>. QED
      BY <2>6, <3>1 DEF ClearList, NothingChangedYet, In
  <2>7. ASSUME NEW t \in Threads, WriteItem(t) PROVE NothingChangedYet'
    <3>1. handler'[t].phase = "write" /\ \A u \in Threads \ {t} : handler'[u] = handler[u]
      BY <2>7, ItemType DEF WriteItem, In, TypeOK, Handlers
    <3>. QED
      BY <2>7, <3>1 DEF WriteItem, NothingChangedYet, In
  <2>8. ASSUME NEW t \in Threads, Respond(t) \/ StatementFails(t) PROVE NothingChangedYet'
    BY <2>8, <2>0 DEF Respond, StatementFails
  <2>9. CASE UNCHANGED <<handler, changed>>
    BY <2>9 DEF NothingChangedYet, In
  <2>10. CASE Restart
    BY <2>10 DEF Restart, NothingChangedYet, In
  <2>. QED
    BY <2>1, <2>2, <2>3, <2>4, <2>5, <2>6, <2>7, <2>8, <2>9, <2>10
       DEF Next, vars, RegenerateList, AdminAdd, AdminDelete
<1>3. NothingChangedYet => RejectedWritesNothing
  BY DEF NothingChangedYet, RejectedWritesNothing
<1>. QED
  BY <1>1, <1>2, <1>3, TypeCorrect, PTL DEF Spec

(***************************************************************************)
(* References resolve.                                                     *)
(***************************************************************************)

\* The items a request has checked: all of them once validation is over.
Passed(h, i) == h.phase \in {"clear", "write"} \/ (h.phase = "validate" /\ i < h.at)

\* What a request relies on until it is answered.
Sound(h) ==
  h # Idle =>
    /\ h.phase = "clear" => h.type \in ReplacedTypes
    /\ \A ref \in h.seen : ref.type \notin ReplacedTypes /\ Vouched(ref, h.scope)
    /\ \A i \in 1..Len(h.body) : \A ref \in h.body[i].data :
         /\ ref.type \notin ReplacedTypes
         /\ Passed(h, i) => Vouched(ref, h.scope)

StoredSound ==
  \A k \in Keys : rows[k] # Absent =>
    \A ref \in rows[k].data : ref.type \notin ReplacedTypes /\ Vouched(ref, rows[k].scope)

\* Lists generated under fixed ids are the same after every restart.
FixedLists == \A type \in ResourceTypes \ MemoryTypes : memory[type] = Generated[type]

AllSound == FixedLists /\ StoredSound /\ \A t \in Threads : Sound(handler[t])

\* What was vouched for stays vouched for: rows are only ever replaced, lists
\* that are cleared are never referred to, and what memory drops is lost.
LEMMA VouchedStays ==
  ASSUME TypeOK, AllSound, [Next]_vars, NEW ref \in Keys, NEW scope,
         ref.type \notin ReplacedTypes, Vouched(ref, scope)
  PROVE  Vouched(ref, scope)'
<1>t. ref.type \in ResourceTypes /\ ref.id \in RecordIds
  BY DEF Keys
<1>1. CASE ref \in lost
  BY <1>1 DEF Vouched, Next, Receive, ReadCandidates, PassItem, Reject, EndValidation, ClearList,
              WriteItem, Respond, StatementFails, RegenerateList, AdminAdd, AdminDelete, Restart,
              vars
<1>2. CASE UNCHANGED <<rows, memory, lost>>
  BY <1>2 DEF Vouched, Candidates, Listed
<1>3. ASSUME NEW t \in Threads, ClearList(t) PROVE Vouched(ref, scope)'
  <2>1. handler[t].type \in ReplacedTypes /\ handler[t].type # None
    BY <1>3, ItemType, NoneAssumption DEF ClearList, In, AllSound, Sound
  <2>2. rows'[ref] = rows[ref] /\ memory' = memory /\ lost' = lost
    BY <1>3, <2>1, Deleted DEF ClearList
  <2>. QED
    BY <2>2 DEF Vouched, Candidates, Listed
<1>4. ASSUME NEW t \in Threads, WriteItem(t) PROVE Vouched(ref, scope)'
  <2> DEFINE key == [type |-> handler[t].type, id |-> Item(t).id]
             entry == [scope |-> handler[t].scope, data |-> Item(t).data]
  <2>1. key \in Keys /\ entry \in Entries /\ entry # Absent
    BY <1>4, ItemType, MarkAssumption DEF WriteItem, In
  <2>2. rows' = [rows EXCEPT ![key] = entry] /\ memory' = memory /\ lost \subseteq lost'
    BY <1>4, Upserted DEF WriteItem
  <2>3. rows[key] # Absent /\ rows[key].scope # entry.scope => key \in lost'
    BY <1>4 DEF WriteItem
  <2> HIDE DEF key, entry
  <2>4. CASE ref = key
    BY <2>1, <2>2, <2>3, <2>4 DEF Vouched, Candidates, Listed, TypeOK
  <2>5. CASE ref # key
    BY <2>1, <2>2, <2>5 DEF Vouched, Candidates, Listed, TypeOK
  <2>. QED
    BY <2>4, <2>5
<1>5. ASSUME NEW type \in ResourceTypes,
             RegenerateList(type) \/ AdminAdd(type) \/ AdminDelete(type)
      PROVE  Vouched(ref, scope)'
  <2>1. rows' = rows /\ lost \subseteq lost'
    BY <1>5 DEF RegenerateList, AdminAdd, AdminDelete
  <2>2. ref.id \in memory[ref.type] => ref.id \in memory'[ref.type] \/ ref \in lost'
    BY <1>5, <1>t DEF RegenerateList, AdminAdd, AdminDelete, MemoryKeys, TypeOK, Keys
  <2>. QED
    BY <2>1, <2>2, <1>t DEF Vouched, Candidates, Listed, Keys
<1>6. CASE Restart
  <2>1. rows' = rows /\ lost' = lost \cup MemoryKeys(MemoryTypes)
    BY <1>6 DEF Restart
  <2>2. ref.type \notin MemoryTypes => memory'[ref.type] = memory[ref.type]
    BY <1>6, <1>t DEF Restart, AllSound, FixedLists
  <2>3. ref.id \in memory[ref.type] /\ ref.type \in MemoryTypes => ref \in lost'
    BY <2>1 DEF MemoryKeys
  <2>. QED
    BY <2>1, <2>2, <2>3, <1>t DEF Vouched, Candidates, Listed, Keys
<1>. QED
  BY <1>1, <1>2, <1>3, <1>4, <1>5, <1>6
     DEF Next, Receive, ReadCandidates, PassItem, Reject, EndValidation, Respond, StatementFails,
         vars

\* What a request relies on holds after every step of anybody.
LEMMA SoundStays ==
  ASSUME TypeOK, AllSound, [Next]_vars, NEW h \in Handlers \cup {Idle}, Sound(h)
  PROVE  Sound(h)'
<1>. SUFFICES ASSUME h # Idle PROVE Sound(h)'
  BY DEF Sound
<1>1. /\ \A ref \in h.seen : ref \in Keys
      /\ \A i \in 1..Len(h.body) : \A ref \in h.body[i].data : ref \in Keys
  <2>1. h.body \in Seq(Items) /\ h.seen \in SUBSET Keys
    BY DEF Handlers
  <2>2. \A i \in 1..Len(h.body) : h.body[i] \in Items
    BY <2>1
  <2>. QED
    BY <2>1, <2>2 DEF Items
<1>3. \A ref \in Keys : ref.type \notin ReplacedTypes /\ Vouched(ref, h.scope)
                       => Vouched(ref, h.scope)'
  BY VouchedStays
<1>4. \A ref \in h.seen : ref.type \notin ReplacedTypes /\ Vouched(ref, h.scope)'
  BY <1>1, <1>3 DEF Sound
<1>5. \A i \in 1..Len(h.body) : \A ref \in h.body[i].data :
        ref.type \notin ReplacedTypes /\ (Passed(h, i) => Vouched(ref, h.scope)')
  BY <1>1, <1>3 DEF Sound
<1>6. h.phase = "clear" => h.type \in ReplacedTypes
  BY DEF Sound
<1>. QED
  BY <1>4, <1>5, <1>6 DEF Sound, Passed

\* So do the references of an entry.
LEMMA EntryStays ==
  ASSUME TypeOK, AllSound, [Next]_vars, NEW e \in Entries,
         \A ref \in e.data : ref.type \notin ReplacedTypes /\ Vouched(ref, e.scope)
  PROVE  \A ref \in e.data : ref.type \notin ReplacedTypes /\ Vouched(ref, e.scope)'
<1>1. \A ref \in e.data : ref \in Keys
  BY ShapeAssumption DEF Entries
<1>. QED
  BY <1>1, VouchedStays

LEMMA AllSoundStep == TypeOK /\ AllSound /\ [Next]_vars => AllSound'
<1> SUFFICES ASSUME TypeOK, AllSound, [Next]_vars PROVE AllSound'
  OBVIOUS
<1>f. FixedLists'
  <2>1. CASE memory' = memory
    BY <2>1 DEF AllSound, FixedLists
  <2>2. ASSUME NEW type \in ResourceTypes, RegenerateList(type) \/ AdminAdd(type) \/ AdminDelete(type)
        PROVE  FixedLists'
    <3>1. type \in MemoryTypes /\ \A other \in ResourceTypes : other # type => memory'[other] = memory[other]
      BY <2>2, ShapeAssumption DEF RegenerateList, AdminAdd, AdminDelete, TypeOK
    <3>. QED
      BY <3>1 DEF AllSound, FixedLists
  <2>3. CASE Restart
    BY <2>3 DEF Restart, FixedLists
  <2>4. ASSUME NEW t \in Threads,
               \/ \E type \in ResourceTypes : \E scope \in ScopesOf(type), body \in Bodies[type] :
                    Receive(t, type, scope, body)
               \/ \E type \in ResourceTypes : ReadCandidates(t, type)
               \/ PassItem(t) \/ Reject(t) \/ EndValidation(t)
               \/ ClearList(t) \/ WriteItem(t) \/ Respond(t) \/ StatementFails(t)
        PROVE  memory' = memory
    <3>1. CASE \E type \in ResourceTypes : \E scope \in ScopesOf(type), body \in Bodies[type] :
                 Receive(t, type, scope, body)
      BY <3>1 DEF Receive
    <3>2. CASE \E type \in ResourceTypes : ReadCandidates(t, type)
      BY <3>2 DEF ReadCandidates
    <3>3. CASE PassItem(t) \/ Reject(t) \/ EndValidation(t) \/ Respond(t) \/ StatementFails(t)
      BY <3>3 DEF PassItem, Reject, EndValidation, Respond, StatementFails
    <3>4. CASE ClearList(t) \/ WriteItem(t)
      BY <3>4 DEF ClearList, WriteItem
    <3>. QED
      BY <2>4, <3>1, <3>2, <3>3, <3>4
  <2>. QED
    BY <2>1, <2>2, <2>3, <2>4 DEF Next, vars
<1>k. ASSUME \A k \in Keys : rows'[k] \in {rows[k], Absent} PROVE StoredSound'
  <2> SUFFICES ASSUME NEW k \in Keys, rows'[k] # Absent, NEW ref \in rows'[k].data
               PROVE  ref.type \notin ReplacedTypes /\ Vouched(ref, rows[k].scope)'
    BY DEF StoredSound
  <2>1. PICK e \in Entries : rows[k] = e /\ rows'[k] = e
    BY <1>k DEF TypeOK
  <2>2. \A r \in e.data : r.type \notin ReplacedTypes /\ Vouched(r, e.scope)
    BY <2>1 DEF AllSound, StoredSound
  <2>3. \A r \in e.data : r.type \notin ReplacedTypes /\ Vouched(r, e.scope)'
    BY <2>2, EntryStays
  <2>. QED
    BY <2>1, <2>3
<1>u. ASSUME NEW u \in Threads, handler'[u] = handler[u] PROVE Sound(handler[u])'
  <2>1. PICK h \in Handlers \cup {Idle} : handler[u] = h /\ handler'[u] = h
    BY <1>u DEF TypeOK
  <2>2. Sound(h)'
    BY <2>1, SoundStays DEF AllSound
  <2>. QED
    BY <2>1, <2>2 DEF Sound
<1>q. ASSUME UNCHANGED <<rows, memory, lost>>
      PROVE  StoredSound' /\ \A ref, scope : Vouched(ref, scope)' <=> Vouched(ref, scope)
  BY <1>q DEF Vouched, Candidates, Listed, AllSound, StoredSound
<1>i. ASSUME NEW t \in Threads, handler' = [handler EXCEPT ![t] = Idle],
             UNCHANGED <<rows, memory, lost>>
      PROVE  AllSound'
  BY <1>f, <1>i, <1>q, <1>u DEF AllSound, Sound, TypeOK
<1>1. ASSUME NEW t \in Threads, NEW type \in ResourceTypes, NEW scope \in ScopesOf(type),
             NEW body \in Bodies[type], Receive(t, type, scope, body)
      PROVE  AllSound'
  <2>1. handler'[t] = [type |-> type, scope |-> scope, body |-> body, phase |-> "validate",
                       at |-> 1, read |-> {}, seen |-> {}]
        /\ \A u \in Threads \ {t} : handler'[u] = handler[u]
    BY <1>1 DEF Receive, TypeOK
  <2>2. \A i \in 1..Len(body) : \A ref \in body[i].data : ref.type \notin ReplacedTypes
    BY ShapeAssumption
  <2>3. Sound(handler[t])'
    BY <2>1, <2>2 DEF Sound, Passed
  <2>. QED
    BY <1>1, <1>f, <1>q, <1>u, <2>1, <2>3 DEF AllSound, Receive
<1>2. ASSUME NEW t \in Threads, NEW type \in ResourceTypes, ReadCandidates(t, type)
      PROVE  AllSound'
  <2> DEFINE h == handler[t]
             found == Candidates(type, h.scope)
  <2>1. h \in Handlers /\ h # Idle /\ Sound(h)
    BY <1>2, ItemType DEF ReadCandidates, In, AllSound
  <2>2. /\ handler'[t] = [h EXCEPT !.read = @ \cup {type}, !.seen = @ \cup found]
        /\ \A u \in Threads \ {t} : handler'[u] = handler[u]
    BY <1>2 DEF ReadCandidates, TypeOK
  <2>3. \A ref \in found : ref.type \notin ReplacedTypes /\ Vouched(ref, h.scope)
    <3>1. type \notin ReplacedTypes
      BY <1>2, <2>1, ItemType, ShapeAssumption DEF ReadCandidates
    <3>. QED
      BY <3>1, CandidateKeys DEF Vouched
  <2>4. /\ handler'[t].seen = h.seen \cup found /\ handler'[t].scope = h.scope
        /\ handler'[t].body = h.body /\ handler'[t].phase = h.phase
        /\ handler'[t].at = h.at /\ handler'[t].type = h.type
    BY <2>1, <2>2 DEF Handlers
  <2>5. Sound(handler[t])'
    <3>1. UNCHANGED <<rows, memory, lost>>
      BY <1>2 DEF ReadCandidates
    <3> HIDE DEF found, h
    <3>2. PICK c : c = h
      OBVIOUS
    <3>3. \A ref \in c.seen \cup found : ref.type \notin ReplacedTypes /\ Vouched(ref, c.scope)
      BY <2>1, <2>3, <3>2 DEF Sound
    <3>4. \A i \in 1..Len(c.body) : \A ref \in c.body[i].data :
            ref.type \notin ReplacedTypes /\ (Passed(c, i) => Vouched(ref, c.scope))
      BY <2>1, <3>2 DEF Sound
    <3>5. c.phase = "clear" => c.type \in ReplacedTypes
      BY <2>1, <3>2 DEF Sound
    <3>6. \A ref, scope : Vouched(ref, scope) => Vouched(ref, scope)'
      BY <1>q, <3>1
    <3>. QED
      BY <2>4, <3>2, <3>3, <3>4, <3>5, <3>6 DEF Sound, Passed
  <2>. QED
    BY <1>2, <1>f, <1>q, <1>u, <2>2, <2>5 DEF AllSound, ReadCandidates
<1>3. ASSUME NEW t \in Threads, PassItem(t) PROVE AllSound'
  <2>0. PICK h \in Handlers : handler[t] = h /\ h # Idle /\ Sound(h)
    BY <1>3, ItemType DEF PassItem, In, AllSound
  <2>1. /\ \A u \in Threads \ {t} : handler'[u] = handler[u]
        /\ handler'[t].phase = "validate" /\ h.phase = "validate" /\ handler'[t].at = h.at + 1
        /\ handler'[t].body = h.body /\ handler'[t].scope = h.scope
        /\ handler'[t].seen \in SUBSET h.seen
    <3> DEFINE read == IF h.type \in BatchTypes THEN h.read ELSE {}
               seen == IF h.type \in BatchTypes THEN h.seen ELSE {}
    <3>1. /\ handler' = [handler EXCEPT ![t] =
                           [h EXCEPT !.at = h.at + 1, !.read = read, !.seen = seen]]
          /\ h.phase = "validate" /\ seen \in SUBSET h.seen
      BY <1>3, <2>0 DEF PassItem, In, TypeOK
    <3> HIDE DEF read, seen
    <3>. QED
      BY <2>0, <3>1 DEF TypeOK, Handlers
  <2>2. UNCHANGED <<rows, memory, lost>>
    BY <1>3 DEF PassItem
  <2>3. \A ref \in h.body[h.at].data : Vouched(ref, h.scope)
    BY <1>3, <2>0 DEF PassItem, Item, Sound
  <2>4. \A i \in 1..Len(h.body) : i < h.at + 1 => i < h.at \/ i = h.at
    <3>1. h.at \in Nat /\ Len(h.body) \in Nat
      BY DEF Handlers
    <3>. QED
      BY <3>1
  <2>5. \A i \in 1..Len(h.body) : \A ref \in h.body[i].data :
          ref.type \notin ReplacedTypes /\ (i < h.at + 1 => Vouched(ref, h.scope))
    BY <2>0, <2>1, <2>3, <2>4 DEF Sound, Passed
  <2>6. Sound(handler[t])'
    BY <1>q, <2>0, <2>1, <2>2, <2>5 DEF Sound, Passed
  <2>. QED
    BY <1>f, <1>q, <1>u, <2>1, <2>2, <2>6 DEF AllSound
<1>4. ASSUME NEW t \in Threads, Reject(t) PROVE AllSound'
  <2>0. PICK h \in Handlers : handler[t] = h /\ h # Idle /\ Sound(h)
    BY <1>4, ItemType DEF Reject, In, AllSound
  <2>1. /\ \A u \in Threads \ {t} : handler'[u] = handler[u]
        /\ handler'[t].phase = "rejected"
        /\ handler'[t].body = h.body /\ handler'[t].scope = h.scope /\ handler'[t].seen = h.seen
    BY <1>4, <2>0 DEF Reject, TypeOK, Handlers
  <2>2. UNCHANGED <<rows, memory, lost>>
    BY <1>4 DEF Reject
  <2>3. Sound(handler[t])'
    BY <1>q, <2>0, <2>1, <2>2 DEF Sound, Passed
  <2>. QED
    BY <1>f, <1>q, <1>u, <2>1, <2>2, <2>3 DEF AllSound
<1>5. ASSUME NEW t \in Threads, EndValidation(t) PROVE AllSound'
  <2>0. PICK h \in Handlers : handler[t] = h /\ h # Idle /\ Sound(h)
    BY <1>5, ItemType DEF EndValidation, In, AllSound
  <2>1. /\ \A u \in Threads \ {t} : handler'[u] = handler[u]
        /\ handler'[t].phase = "clear" => h.type \in ReplacedTypes
        /\ handler'[t].type = h.type /\ h.phase = "validate"
        /\ handler'[t].body = h.body /\ handler'[t].scope = h.scope /\ handler'[t].seen = h.seen
    <3> DEFINE ph == IF h.type \in ReplacedTypes THEN "clear" ELSE "write"
    <3>1. /\ handler' = [handler EXCEPT ![t] = [h EXCEPT !.phase = ph, !.at = 1]]
          /\ h.phase = "validate" /\ (ph = "clear" => h.type \in ReplacedTypes)
      BY <1>5, <2>0 DEF EndValidation, In, TypeOK
    <3> HIDE DEF ph
    <3>. QED
      BY <2>0, <3>1 DEF TypeOK, Handlers
  <2>2. UNCHANGED <<rows, memory, lost>>
    BY <1>5 DEF EndValidation
  <2>3. \A i \in 1..Len(h.body) : i < h.at
    <3>1. h.at \in Nat /\ Len(h.body) \in Nat
      BY DEF Handlers
    <3>. QED
      BY <1>5, <2>0, <3>1 DEF EndValidation, InBody
  <2>4. \A i \in 1..Len(h.body) : \A ref \in h.body[i].data :
          ref.type \notin ReplacedTypes /\ Vouched(ref, h.scope)
    BY <2>0, <2>1, <2>3 DEF Sound, Passed
  <2>5. Sound(handler[t])'
    BY <1>q, <2>0, <2>1, <2>2, <2>4 DEF Sound, Passed
  <2>. QED
    BY <1>f, <1>q, <1>u, <2>1, <2>2, <2>5 DEF AllSound
<1>6. ASSUME NEW t \in Threads, ClearList(t) PROVE AllSound'
  <2>0. PICK h \in Handlers : handler[t] = h /\ h # Idle /\ Sound(h) /\ h.type # None
    BY <1>6, ItemType, NoneAssumption DEF ClearList, In, AllSound
  <2>1. /\ \A u \in Threads \ {t} : handler'[u] = handler[u]
        /\ handler'[t].phase = "write" /\ h.phase = "clear"
        /\ handler'[t].body = h.body /\ handler'[t].scope = h.scope /\ handler'[t].seen = h.seen
    BY <1>6, <2>0 DEF ClearList, In, TypeOK, Handlers
  <2>2. StoredSound'
    BY <1>6, <1>k, <2>0, Deleted DEF ClearList
  <2>3. Sound(h)'
    BY <2>0, SoundStays
  <2>4. Sound(handler[t])'
    BY <2>0, <2>1, <2>3 DEF Sound, Passed
  <2>. QED
    BY <1>f, <1>u, <2>1, <2>2, <2>4 DEF AllSound
<1>7. ASSUME NEW t \in Threads, WriteItem(t) PROVE AllSound'
  <2>0. PICK h \in Handlers : handler[t] = h /\ h # Idle /\ Sound(h)
    BY <1>7, ItemType DEF WriteItem, In, AllSound
  <2>1. /\ \A u \in Threads \ {t} : handler'[u] = handler[u]
        /\ handler'[t].phase = "write" /\ h.phase = "write"
        /\ handler'[t].body = h.body /\ handler'[t].scope = h.scope /\ handler'[t].seen = h.seen
    BY <1>7, <2>0 DEF WriteItem, In, TypeOK, Handlers
  <2>2. Sound(h)'
    BY <2>0, SoundStays
  <2>3. Sound(handler[t])'
    BY <2>0, <2>1, <2>2 DEF Sound, Passed
  <2>4. PICK key \in Keys, e \in Entries :
          /\ rows' = [rows EXCEPT ![key] = e]
          /\ e.scope = h.scope /\ e.data = Item(t).data
    BY <1>7, <2>0, ItemType, Upserted DEF WriteItem, In
  <2>5. \A ref \in e.data : ref.type \notin ReplacedTypes /\ Vouched(ref, e.scope)
    BY <1>7, <2>0, <2>1, <2>4, ItemType DEF WriteItem, Item, Sound, Passed
  <2>6. \A ref \in e.data : ref.type \notin ReplacedTypes /\ Vouched(ref, e.scope)'
    BY <2>5, EntryStays
  <2>7. StoredSound'
    <3> SUFFICES ASSUME NEW k \in Keys, rows'[k] # Absent, NEW ref \in rows'[k].data
                 PROVE  ref.type \notin ReplacedTypes /\ Vouched(ref, rows[k].scope)'
      BY DEF StoredSound
    <3>1. CASE k = key
      BY <2>4, <2>6, <3>1 DEF TypeOK
    <3>2. CASE k # key
      <4>1. PICK o \in Entries : rows[k] = o /\ rows'[k] = o
        BY <2>4, <3>2 DEF TypeOK
      <4>2. \A r \in o.data : r.type \notin ReplacedTypes /\ Vouched(r, o.scope)
        BY <4>1 DEF AllSound, StoredSound
      <4>3. \A r \in o.data : r.type \notin ReplacedTypes /\ Vouched(r, o.scope)'
        BY <4>2, EntryStays
      <4>. QED
        BY <4>1, <4>3
    <3>. QED
      BY <3>1, <3>2
  <2>. QED
    BY <1>f, <1>u, <2>1, <2>3, <2>7 DEF AllSound
<1>8. ASSUME NEW t \in Threads, Respond(t) \/ StatementFails(t) PROVE AllSound'
  BY <1>8, <1>i DEF Respond, StatementFails
<1>9. CASE rows' = rows /\ handler' = handler
  BY <1>9, <1>f, <1>k, <1>u DEF AllSound
<1>10. CASE Restart
  <2>1. StoredSound'
    BY <1>10, <1>k DEF Restart
  <2>2. \A t \in Threads : handler'[t] = Idle
    BY <1>10 DEF Restart
  <2>. QED
    BY <1>f, <2>1, <2>2 DEF AllSound, Sound
<1>. QED
  BY <1>1, <1>2, <1>3, <1>4, <1>5, <1>6, <1>7, <1>8, <1>9, <1>10
     DEF Next, vars, RegenerateList, AdminAdd, AdminDelete

\* Whatever requests, resets and restarts overlap, a stored record refers only
\* to what its scope shows, or to what was shown when it was validated and has
\* since been reset, restarted away or written over from another scope.
THEOREM ReferencesCorrect == Spec => []ReferencesResolve
<1>1. Init => AllSound
  BY ShapeAssumption DEF Init, AllSound, FixedLists, StoredSound, Sound
<1>2. AllSound => ReferencesResolve
  BY DEF AllSound, StoredSound, ReferencesResolve
<1>. QED
  BY <1>1, <1>2, AllSoundStep, TypeCorrect, PTL DEF Spec

(***************************************************************************)
(* A whole list is replaced by the list it was given.                      *)
(***************************************************************************)

\* The last of the first n items under its id.
LastOf(body, n, i) == i \in 1..n /\ \A l \in i + 1..n : body[l].id # body[i].id

InList(store, k, type, client) ==
  k.type = type /\ store[k] # Absent /\ store[k].scope.client = client

KeyOf(h, i) == [type |-> h.type, id |-> h.body[i].id]

\* The list of a request's client is what its first items make: every entry has an
\* item, the last one under its id, and every item has an entry.
ListIs(store, h) ==
  LET n == h.at - 1
  IN  /\ n <= Len(h.body)
      /\ \A k \in Keys : InList(store, k, h.type, h.scope.client) =>
           \E i \in 1..n : LastOf(h.body, n, i) /\ h.body[i].id = k.id
      /\ \A i \in 1..n : InList(store, KeyOf(h, i), h.type, h.scope.client)
      /\ \A i \in 1..n : LastOf(h.body, n, i) => store[KeyOf(h, i)].data = h.body[i].data

\* What holds of a request that replaces a list, while nobody else touches it.
ReplaceSound(h, store, alone) ==
  h # Idle =>
    /\ h.phase = "clear" => h.type \in ReplacedTypes /\ h.at = 1
    /\ h.type \in ReplacedTypes =>
         /\ h.scope.client # None /\ h.scope.fy = None
         /\ h.phase = "write" /\ alone => ListIs(store, h)

ReplacesSound == \A t \in Threads : ReplaceSound(handler[t], rows, t \notin contested)

LEMMA KeysOfItems ==
  ASSUME NEW h \in Handlers, NEW i \in 1..Len(h.body)
  PROVE  /\ KeyOf(h, i) \in Keys /\ KeyOf(h, i).type = h.type /\ KeyOf(h, i).id = h.body[i].id
         /\ h.body[i] \in Items
<1>1. h.body \in Seq(Items) /\ h.type \in ResourceTypes
  BY DEF Handlers
<1>2. h.body[i] \in Items
  BY <1>1
<1> QED
  BY <1>1, <1>2 DEF KeyOf, Keys, Items

\* A list that nobody touches stays what it is.
LEMMA ListStays ==
  ASSUME NEW h \in Handlers, NEW s1, NEW s2, ListIs(s1, h),
         \A k \in Keys : InList(s2, k, h.type, h.scope.client) <=> InList(s1, k, h.type, h.scope.client),
         \A k \in Keys : InList(s1, k, h.type, h.scope.client) => s2[k] = s1[k]
  PROVE  ListIs(s2, h)
<1> DEFINE n == h.at - 1
<1>1. n \in Nat /\ n <= Len(h.body) /\ Len(h.body) \in Nat
  BY DEF Handlers, ListIs
<1>2. \A i \in 1..n : KeyOf(h, i) \in Keys
  BY <1>1, KeysOfItems
<1>3. \A k \in Keys : InList(s2, k, h.type, h.scope.client) =>
        \E i \in 1..n : LastOf(h.body, n, i) /\ h.body[i].id = k.id
  BY DEF ListIs
<1>4. \A i \in 1..n : InList(s1, KeyOf(h, i), h.type, h.scope.client)
  BY DEF ListIs
<1>5. \A i \in 1..n : InList(s2, KeyOf(h, i), h.type, h.scope.client)
  BY <1>2, <1>4
<1>6. \A i \in 1..n : LastOf(h.body, n, i) => s2[KeyOf(h, i)].data = h.body[i].data
  BY <1>2, <1>4 DEF ListIs
<1> QED
  BY <1>1, <1>3, <1>5, <1>6 DEF ListIs

\* A request that is not the one that acts is as it was, if nobody touched its list.
LEMMA Bystander ==
  ASSUME TypeOK, ReplacesSound, NEW t \in Threads, handler'[t] = handler[t],
         t \in contested => t \in contested', t \notin contested' => \/ handler[t] = Idle
           \/ handler[t].type \notin ReplacedTypes
           \/ \A k \in Keys : k.type = handler[t].type =>
                \/ rows'[k] = rows[k]
                \/ /\ ~ InList(rows, k, handler[t].type, handler[t].scope.client)
                   /\ ~ InList(rows', k, handler[t].type, handler[t].scope.client)
  PROVE  ReplaceSound(handler'[t], rows', t \notin contested')
<1> SUFFICES ASSUME handler[t] # Idle
             PROVE  ReplaceSound(handler[t], rows', t \notin contested')
  BY DEF ReplaceSound
<1>1. PICK h \in Handlers : h = handler[t]
  BY DEF TypeOK
<1>2. ReplaceSound(h, rows, t \notin contested)
  BY <1>1 DEF ReplacesSound
<1>3. ASSUME h.type \in ReplacedTypes, h.phase = "write", t \notin contested'
      PROVE  ListIs(rows', h)
  <2>1. ListIs(rows, h)
    BY <1>1, <1>2, <1>3 DEF ReplaceSound
  <2>2. /\ \A k \in Keys : InList(rows', k, h.type, h.scope.client)
                             <=> InList(rows, k, h.type, h.scope.client)
        /\ \A k \in Keys : InList(rows, k, h.type, h.scope.client) => rows'[k] = rows[k]
    BY <1>1, <1>3 DEF InList
  <2> QED
    BY <2>1, <2>2, ListStays
<1> QED
  BY <1>1, <1>2, <1>3 DEF ReplaceSound

\* What a step of thread t leaves to be shown.
LEMMA OneActs ==
  ASSUME TypeOK, ReplacesSound, NEW t \in Threads, NEW c,
         handler' = [handler EXCEPT ![t] = c], rows' = rows, contested \subseteq contested' \cup {t},
         ReplaceSound(c, rows', t \notin contested')
  PROVE  ReplacesSound'
<1>1. handler'[t] = c /\ \A u \in Threads \ {t} : handler'[u] = handler[u]
  BY DEF TypeOK
<1>2. \A u \in Threads \ {t} : ReplaceSound(handler'[u], rows', u \notin contested')
  BY <1>1, Bystander
<1> QED
  BY <1>1, <1>2 DEF ReplacesSound

\* The list is cleared: the first zero items make the empty list.
LEMMA ClearListReplaces ==
  ASSUME TypeOK, ReplacesSound, NEW t \in Threads, ClearList(t) PROVE ReplacesSound'
<1>1. PICK h \in Handlers :
        /\ handler[t] = h /\ h # Idle /\ h.phase = "clear"
        /\ ReplaceSound(h, rows, t \notin contested)
  BY ItemType DEF ClearList, In, ReplacesSound
<1>2. /\ h.type \in ReplacedTypes /\ h.at = 1 /\ h.scope.client # None /\ h.scope.fy = None
      /\ h.type # None
  BY <1>1, ItemType, NoneAssumption DEF ReplaceSound
<1> DEFINE g == [h EXCEPT !.phase = "write"]
<1>3. /\ handler' = [handler EXCEPT ![t] = g]
      /\ contested' = contested \cup (Replacing(h.type, h.scope.client) \ {t})
      /\ rows' = Store!Apply([op |-> "delete",
                              filter |-> [type |-> h.type, id |-> None, scope |-> h.scope]])
  BY <1>1 DEF ClearList, TypeOK
<1>4. /\ g \in Handlers /\ g # Idle /\ g.type = h.type /\ g.scope = h.scope /\ g.at = 1
      /\ g.body = h.body /\ g.phase = "write"
  BY <1>2, MarkAssumption DEF Handlers, Phases
<1> HIDE DEF g
<1>5. \A k \in Keys : rows'[k] = IF /\ rows[k] # Absent /\ k.type = h.type
                                    /\ rows[k].scope.client = h.scope.client
                                 THEN Absent ELSE rows[k]
  BY <1>2, <1>3 DEF Store!Apply, Store!Keys, Keys, Store!Selected, Store!ScopeMatches,
     Store!ColumnMatches
<1>6. ListIs(rows', g)
  <2>1. g.at - 1 = 0 /\ Len(g.body) \in Nat
    BY <1>4 DEF Handlers
  <2>2. \A k \in Keys : ~ InList(rows', k, g.type, g.scope.client)
    BY <1>4, <1>5 DEF InList
  <2> QED
    BY <2>1, <2>2 DEF ListIs
<1>7. ReplaceSound(g, rows', t \notin contested')
  BY <1>2, <1>4, <1>6 DEF ReplaceSound
<1>8. handler'[t] = g /\ \A u \in Threads \ {t} : handler'[u] = handler[u]
  BY <1>3 DEF TypeOK
<1>9. ASSUME NEW u \in Threads \ {t}
      PROVE  ReplaceSound(handler'[u], rows', u \notin contested')
  <2>1. ASSUME u \notin contested', handler[u] # Idle, handler[u].type \in ReplacedTypes,
               NEW k \in Keys, k.type = handler[u].type
        PROVE  rows'[k] = rows[k] \/ ( /\ ~ InList(rows, k, handler[u].type, handler[u].scope.client)
                                       /\ ~ InList(rows', k, handler[u].type, handler[u].scope.client))
    <3>1. ~ (handler[u].type = h.type /\ handler[u].scope.client = h.scope.client)
      BY <1>3, <2>1 DEF Replacing
    <3> QED
      BY <1>5, <2>1, <3>1 DEF InList
  <2> QED
    BY <1>3, <1>8, <2>1, Bystander
<1> QED
  BY <1>7, <1>8, <1>9 DEF ReplacesSound

\* An item is stored: the list is what one item more makes.
LEMMA WriteItemReplaces ==
  ASSUME TypeOK, ReplacesSound, NEW t \in Threads, WriteItem(t) PROVE ReplacesSound'
<1>1. PICK h \in Handlers :
        /\ handler[t] = h /\ h # Idle /\ h.phase = "write"
        /\ ReplaceSound(h, rows, t \notin contested)
  BY ItemType DEF WriteItem, In, ReplacesSound
<1> DEFINE n == h.at - 1
           key == KeyOf(h, h.at)
           entry == [scope |-> h.scope, data |-> h.body[h.at].data]
           g == [h EXCEPT !.at = h.at + 1]
<1>2. h.at \in 1..Len(h.body) /\ h.at \in Nat \ {0} /\ Len(h.body) \in Nat
  BY <1>1, ItemType DEF WriteItem
<1>3. /\ key \in Keys /\ key.type = h.type /\ key.id = h.body[h.at].id
      /\ entry \in Entries /\ entry # Absent
  BY <1>1, <1>2, KeysOfItems, ItemType, MarkAssumption DEF WriteItem, Item
<1>4. /\ handler' = [handler EXCEPT ![t] = g]
      /\ rows' = [rows EXCEPT ![key] = entry]
      /\ contested \subseteq contested'
      /\ \A u \in Threads \ {t} : u \notin contested' =>
           /\ u \notin Replacing(h.type, h.scope.client)
           /\ rows[key] # Absent /\ rows[key].scope # h.scope
                => u \notin Replacing(h.type, rows[key].scope.client)
  <2>1. handler' = [handler EXCEPT ![t] = g]
    BY <1>1 DEF WriteItem, TypeOK
  <2>2. rows' = [rows EXCEPT ![key] = entry]
    BY <1>1, Upserted DEF WriteItem, Item, KeyOf
  <2>3. /\ contested \subseteq contested'
        /\ \A u \in Threads \ {t} : u \notin contested' =>
             /\ u \notin Replacing(h.type, h.scope.client)
             /\ rows[key] # Absent /\ rows[key].scope # h.scope
                  => u \notin Replacing(h.type, rows[key].scope.client)
    BY <1>1 DEF WriteItem, Item, KeyOf
  <2> QED
    BY <2>1, <2>2, <2>3
<1>5. /\ g \in Handlers /\ g # Idle /\ g.type = h.type /\ g.scope = h.scope /\ g.at = h.at + 1
      /\ g.body = h.body /\ g.phase = "write"
  BY <1>1, <1>2, MarkAssumption DEF Handlers
<1>6. entry.scope = h.scope /\ entry.data = h.body[h.at].data
  OBVIOUS
<1> HIDE DEF g, key, entry
<1>7. rows'[key] = entry /\ \A k \in Keys \ {key} : rows'[k] = rows[k]
  BY <1>3, <1>4 DEF TypeOK
<1>8. \A i \in 1..h.at : KeyOf(h, i) \in Keys /\ KeyOf(h, i).id = h.body[i].id
  BY <1>2, KeysOfItems
<1>9. \A i \in 1..h.at : KeyOf(g, i) = KeyOf(h, i)
  BY <1>5 DEF KeyOf
<1>10. ASSUME ListIs(rows, h) PROVE ListIs(rows', g)
  <2>1. n \in Nat /\ n = h.at - 1 /\ g.at - 1 = h.at /\ \A i \in 1..h.at : i = h.at \/ i \in 1..n
    BY <1>2, <1>5
  <2>2. ASSUME NEW k \in Keys, InList(rows', k, h.type, h.scope.client)
        PROVE  \E i \in 1..h.at : LastOf(h.body, h.at, i) /\ h.body[i].id = k.id
    <3>1. CASE k = key
      BY <1>2, <1>3, <3>1 DEF LastOf
    <3>2. CASE k # key
      <4>1. k.id # h.body[h.at].id
        BY <1>3, <2>2, <3>2 DEF InList, Keys
      <4>2. InList(rows, k, h.type, h.scope.client)
        BY <1>7, <2>2, <3>2 DEF InList
      <4>3. PICK i \in 1..n : LastOf(h.body, n, i) /\ h.body[i].id = k.id
        BY <1>10, <2>1, <4>2 DEF ListIs
      <4>4. i \in 1..h.at /\ LastOf(h.body, h.at, i)
        BY <1>2, <2>1, <4>1, <4>3 DEF LastOf
      <4> QED
        BY <4>3, <4>4
    <3> QED
      BY <3>1, <3>2
  <2>3. ASSUME NEW i \in 1..h.at PROVE InList(rows', KeyOf(h, i), h.type, h.scope.client)
    <3>1. KeyOf(h, i) = key \/ i \in 1..n
      BY <2>1 DEF key
    <3>2. InList(rows', key, h.type, h.scope.client)
      BY <1>3, <1>6, <1>7 DEF InList
    <3>3. i \in 1..n => InList(rows, KeyOf(h, i), h.type, h.scope.client)
      BY <1>10, <2>1 DEF ListIs
    <3> QED
      BY <1>7, <1>8, <3>1, <3>2, <3>3 DEF InList
  <2>4. ASSUME NEW i \in 1..h.at, LastOf(h.body, h.at, i)
        PROVE  rows'[KeyOf(h, i)].data = h.body[i].data
    <3>1. CASE i = h.at
      BY <1>6, <1>7, <3>1 DEF key
    <3>2. CASE i # h.at
      <4>1. i \in 1..n /\ LastOf(h.body, n, i) /\ h.body[i].id # h.body[h.at].id
        BY <1>2, <2>1, <2>4, <3>2 DEF LastOf
      <4>2. KeyOf(h, i) # key
        BY <1>3, <1>8, <4>1
      <4>3. rows[KeyOf(h, i)].data = h.body[i].data
        BY <1>10, <2>1, <4>1 DEF ListIs
      <4> QED
        BY <1>7, <1>8, <4>2, <4>3
    <3> QED
      BY <3>1, <3>2
  <2> QED
    BY <1>2, <1>5, <1>9, <2>1, <2>2, <2>3, <2>4 DEF ListIs
<1>11. ReplaceSound(g, rows', t \notin contested')
  BY <1>1, <1>4, <1>5, <1>10 DEF ReplaceSound
<1>12. handler'[t] = g /\ \A u \in Threads \ {t} : handler'[u] = handler[u]
  BY <1>4 DEF TypeOK
<1>13. ASSUME NEW u \in Threads \ {t}
       PROVE  ReplaceSound(handler'[u], rows', u \notin contested')
  <2>1. ASSUME u \notin contested', handler[u] # Idle, handler[u].type \in ReplacedTypes,
               key.type = handler[u].type
        PROVE  /\ ~ InList(rows, key, handler[u].type, handler[u].scope.client)
               /\ ~ InList(rows', key, handler[u].type, handler[u].scope.client)
    <3>1. handler[u].scope.client # h.scope.client
      BY <1>3, <1>4, <2>1 DEF Replacing
    <3>2. rows[key] # Absent => rows[key].scope.client # handler[u].scope.client
      BY <1>3, <1>4, <2>1, <3>1 DEF Replacing
    <3> QED
      BY <1>6, <1>7, <3>1, <3>2 DEF InList
  <2> QED
    BY <1>4, <1>7, <1>12, <2>1, Bystander
<1> QED
  BY <1>11, <1>12, <1>13 DEF ReplacesSound

LEMMA ReplacesSoundStep == TypeOK /\ ReplacesSound /\ [Next]_vars => ReplacesSound'
<1> SUFFICES ASSUME TypeOK, ReplacesSound, [Next]_vars PROVE ReplacesSound'
  OBVIOUS
<1>1. ASSUME NEW t \in Threads, NEW type \in ResourceTypes, NEW scope \in ScopesOf(type),
             NEW body \in Bodies[type], Receive(t, type, scope, body)
      PROVE  ReplacesSound'
  <2> DEFINE g == [type |-> type, scope |-> scope, body |-> body, phase |-> "validate", at |-> 1,
                   read |-> {}, seen |-> {}]
  <2>1. type \in ReplacedTypes => scope.client # None /\ scope.fy = None
    BY ShapeAssumption, NoneAssumption DEF ScopesOf
  <2>2. ReplaceSound(g, rows', t \notin contested')
    BY <2>1 DEF ReplaceSound
  <2> QED
    BY <1>1, <2>2, OneActs DEF Receive
<1>2. ASSUME NEW t \in Threads,
             \/ \E type \in ResourceTypes : ReadCandidates(t, type)
             \/ PassItem(t) \/ Reject(t) \/ EndValidation(t)
      PROVE  ReplacesSound'
  <2>1. PICK h \in Handlers :
          /\ handler[t] = h /\ h # Idle /\ h.phase = "validate"
          /\ ReplaceSound(h, rows, t \notin contested)
    BY <1>2, ItemType DEF ReadCandidates, PassItem, Reject, EndValidation, In, ReplacesSound
  <2>2. /\ rows' = rows /\ contested' = contested
        /\ handler' = [handler EXCEPT ![t] = handler'[t]]
        /\ handler'[t].type = h.type /\ handler'[t].scope = h.scope
        /\ \/ handler'[t].phase \in {"validate", "rejected"}
           \/ handler'[t].phase = "clear" /\ handler'[t].at = 1 /\ h.type \in ReplacedTypes
           \/ handler'[t].phase = "write" /\ h.type \notin ReplacedTypes
    <3>1. CASE \E type \in ResourceTypes : ReadCandidates(t, type)
      <4>1. PICK type \in ResourceTypes : ReadCandidates(t, type)
        BY <3>1
      <4> DEFINE read == h.read \cup {type}
                 seen == h.seen \cup Candidates(type, h.scope)
      <4>2. /\ handler' = [handler EXCEPT ![t] = [h EXCEPT !.read = read, !.seen = seen]]
            /\ rows' = rows /\ contested' = contested
        BY <2>1, <4>1 DEF ReadCandidates, TypeOK
      <4> HIDE DEF read, seen
      <4> QED
        BY <2>1, <4>2 DEF TypeOK, Handlers
    <3>2. CASE PassItem(t)
      <4> DEFINE read == IF h.type \in BatchTypes THEN h.read ELSE {}
                 seen == IF h.type \in BatchTypes THEN h.seen ELSE {}
      <4>1. /\ handler' = [handler EXCEPT ![t] =
                             [h EXCEPT !.at = h.at + 1, !.read = read, !.seen = seen]]
            /\ rows' = rows /\ contested' = contested
        BY <2>1, <3>2 DEF PassItem, TypeOK
      <4> HIDE DEF read, seen
      <4> QED
        BY <2>1, <4>1 DEF TypeOK, Handlers
    <3>3. CASE Reject(t)
      BY <2>1, <3>3 DEF Reject, TypeOK, Handlers
    <3>4. CASE EndValidation(t)
      <4> DEFINE ph == IF h.type \in ReplacedTypes THEN "clear" ELSE "write"
      <4>1. /\ handler' = [handler EXCEPT ![t] = [h EXCEPT !.phase = ph, !.at = 1]]
            /\ rows' = rows /\ contested' = contested
            /\ \/ ph = "clear" /\ h.type \in ReplacedTypes
               \/ ph = "write" /\ h.type \notin ReplacedTypes
        BY <2>1, <3>4 DEF EndValidation, TypeOK
      <4> HIDE DEF ph
      <4> QED
        BY <2>1, <4>1 DEF TypeOK, Handlers
    <3> QED
      BY <1>2, <3>1, <3>2, <3>3, <3>4
  <2>3. ReplaceSound(handler'[t], rows', t \notin contested')
    BY <2>1, <2>2 DEF ReplaceSound
  <2>4. PICK c : c = handler'[t]
    OBVIOUS
  <2> QED
    BY <2>2, <2>3, <2>4, OneActs
<1>3. ASSUME NEW t \in Threads, ClearList(t) PROVE ReplacesSound'
  BY <1>3, ClearListReplaces
<1>4. ASSUME NEW t \in Threads, WriteItem(t) PROVE ReplacesSound'
  BY <1>4, WriteItemReplaces
<1>5. ASSUME NEW t \in Threads, Respond(t) \/ StatementFails(t) PROVE ReplacesSound'
  <2>1. handler' = [handler EXCEPT ![t] = Idle] /\ rows' = rows /\ contested' = contested
    BY <1>5 DEF Respond, StatementFails
  <2>2. ReplaceSound(Idle, rows', t \notin contested')
    BY DEF ReplaceSound
  <2> QED
    BY <2>1, <2>2, OneActs
<1>6. CASE UNCHANGED <<rows, handler, contested>>
  BY <1>6 DEF ReplacesSound
<1>7. CASE Restart
  BY <1>7 DEF Restart, ReplacesSound, ReplaceSound
<1> QED
  BY <1>1, <1>2, <1>3, <1>4, <1>5, <1>6, <1>7
     DEF Next, vars, RegenerateList, AdminAdd, AdminDelete

\* A list that is what all items make is the list of the body.
LEMMA WholeList ==
  ASSUME TypeOK, NEW t \in Threads, Accepted(t), ListIs(rows, handler[t])
  PROVE  Replaced(t)
<1>1. PICK h \in Handlers : handler[t] = h /\ h # Idle
  BY ItemType DEF Accepted, In
<1> DEFINE n == Len(h.body)
           own == {k \in Keys : InList(rows, k, h.type, h.scope.client)}
           last == {i \in 1..n : LastOf(h.body, n, i)}
<1>2. h.at - 1 = n /\ n \in Nat
  BY <1>1 DEF Accepted, InBody, ListIs, Handlers
<1>3. /\ \A k \in own : \E i \in last : h.body[i].id = k.id
      /\ \A i \in last : KeyOf(h, i) \in own /\ KeyOf(h, i).id = h.body[i].id
                         /\ rows[KeyOf(h, i)].data = h.body[i].data
  BY <1>1, <1>2, KeysOfItems DEF ListIs
<1>4. \A k \in own, i \in last : h.body[i].id = k.id => k = KeyOf(h, i)
  BY DEF InList, KeyOf, Keys
<1>5. last = {j \in 1..n : \A l \in j + 1..n : h.body[l].id # h.body[j].id}
  BY DEF LastOf
<1>6. ListOf(h.type, h.scope.client) = {[id |-> k.id, data |-> rows[k].data] : k \in own}
  BY DEF ListOf, InList
<1>7. AsList(h.body) = {[id |-> h.body[i].id, data |-> h.body[i].data] : i \in last}
  BY <1>5 DEF AsList
<1> HIDE DEF own, last
<1>8. {[id |-> k.id, data |-> rows[k].data] : k \in own}
        = {[id |-> h.body[i].id, data |-> h.body[i].data] : i \in last}
  BY <1>3, <1>4
<1> QED
  BY <1>1, <1>6, <1>7, <1>8 DEF Replaced

\* A PUT of a whole list that no other request touched meanwhile leaves exactly the
\* list of its body, under each id its last item, for bodies of any length.
THEOREM ReplaceCorrect == Spec => []UncontestedReplace
<1>1. Init => ReplacesSound
  BY DEF Init, ReplacesSound, ReplaceSound
<1>2. TypeOK /\ ReplacesSound => UncontestedReplace
  BY WholeList DEF ReplacesSound, ReplaceSound, UncontestedReplace, Accepted, In
<1> QED
  BY <1>1, <1>2, ReplacesSoundStep, TypeCorrect, PTL DEF Spec
=============================================================================
