--------------------------- MODULE WriteEndpoints ---------------------------
(***************************************************************************)
(* The write handlers of routers/accounting.py and routers/master_data.py. *)
(* They all have one shape: read the candidate ids of every resource the   *)
(* body refers to, reject the request if a reference names none of them,   *)
(* then store the items one by one.  Two of them differ a little:          *)
(*                                                                         *)
(*   - a bulk PUT of creditors or debitors reads the candidates anew for   *)
(*     every item, a posting-proposal batch once for all items;            *)
(*   - PUT .../responsibilities deletes the client's list before it stores *)
(*     the new one.                                                        *)
(*                                                                         *)
(* Each handler runs on a thread of the server's pool.  A call into        *)
(* app/db.py is one step here (StoredRecords implements RecordMap), and so *)
(* is a read or a replacement of a list in memory; anything may happen     *)
(* between two of them.                                                    *)
(*                                                                         *)
(* A payload is the set of references it makes; the rest of a body decides *)
(* nothing.                                                                *)
(***************************************************************************)
EXTENDS RecordSchema, Integers, Sequences

CONSTANTS
  Threads,       \* threads that may run a write handler
  Absent,        \* marks a key with no row
  Idle,          \* marks a thread that runs no handler
  References,    \* [ResourceTypes -> SUBSET ResourceTypes]: what a body may refer to
  GlobalTypes,   \* master data: listed without a scope
  ReplacedTypes, \* client_responsibilities: written as a whole list
  BatchTypes,    \* posting proposals: candidates are read once per request
  MemoryTypes,   \* addressees, master-data clients: generated with random ids
  AdminTypes,    \* master-data clients: edited on the admin page
  Generated,     \* [ResourceTypes -> SUBSET RecordIds]: the ids generated at start
  FreshIds,      \* the ids uuid4() may still draw (bounds resets and creations)
  Bodies         \* [ResourceTypes -> sets of bodies]: the requests clients send

Anywhere == [client |-> None, fy |-> None]

\* The scopes a request for a resource of this type names in its path.
ScopesOf(type) ==
  CASE type \in GlobalTypes   -> {Anywhere}
    [] type \in ReplacedTypes -> [client : Clients, fy : {None}]
    [] OTHER                  -> [client : Clients, fy : FiscalYears]

\* A reference names a resource of some type by its id, as a key does.
Items == [id : RecordIds, data : SUBSET Keys]

ASSUME ShapeAssumption ==
  /\ Data = SUBSET Keys
  /\ References \in [ResourceTypes -> SUBSET ResourceTypes]
  /\ Generated \in [ResourceTypes -> SUBSET RecordIds]
  /\ Bodies \in [ResourceTypes -> SUBSET Seq(Items)]
  /\ FreshIds \subseteq RecordIds
  /\ AdminTypes \subseteq MemoryTypes
  /\ GlobalTypes \cap ReplacedTypes = {}
  \* Nothing refers to a responsibility.
  /\ \A type \in ResourceTypes : References[type] \cap ReplacedTypes = {}
  \* The fields of a body refer to the types its endpoint validates.
  /\ \A type \in ResourceTypes : \A body \in Bodies[type] : \A i \in 1..Len(body) :
       \A ref \in body[i].data : ref.type \in References[type]

VARIABLES
  rows,      \* the stored records (RecordMap's map)
  memory,    \* per type: the ids of the generated records
  unused,    \* the ids uuid4() has not drawn
  handler,   \* per thread: the request it is handling, or Idle
  lost,      \* history: what a row or list once offered and then took away
  changed,   \* history: the threads whose request changed the store
  contested  \* history: the threads whose list another request touched

vars == <<rows, memory, unused, handler, lost, changed, contested>>

Phases == {"validate", "clear", "write", "rejected"}

Handlers ==
  [type : ResourceTypes, scope : Scopes, body : Seq(Items), phase : Phases, at : Nat \ {0},
   read : SUBSET ResourceTypes, seen : SUBSET Keys]

ASSUME MarkAssumption == Absent \notin Entries /\ Idle \notin Handlers

TypeOK ==
  /\ rows \in [Keys -> Entries \cup {Absent}]
  /\ memory \in [ResourceTypes -> SUBSET RecordIds]
  /\ unused \subseteq FreshIds
  /\ handler \in [Threads -> Handlers \cup {Idle}]
  /\ lost \subseteq Keys
  /\ changed \subseteq Threads
  /\ contested \subseteq Threads

\* The record store; only its Apply is used here.
Store == INSTANCE RecordMap WITH map <- rows, pending <- handler

Init ==
  /\ rows = [k \in Keys |-> Absent]
  /\ memory = Generated
  /\ unused = FreshIds
  /\ handler = [t \in Threads |-> Idle]
  /\ lost = {}
  /\ changed = {}
  /\ contested = {}

(***************************************************************************)
(* db.merge_with_stored: the generated records, with the stored rows of    *)
(* the scope over them.  Validation only looks at the ids.                 *)
(***************************************************************************)

\* list_records(): rows of a type that the filter of a GET in scope lets through.
Listed(type, scope) ==
  {k \in Keys : /\ k.type = type
                /\ rows[k] # Absent
                /\ ScopeMatches(rows[k].scope, IF type \in GlobalTypes THEN Anywhere ELSE scope)}

Candidates(type, scope) == [type : {type}, id : memory[type]] \cup Listed(type, scope)

(***************************************************************************)
(* A request                                                               *)
(***************************************************************************)

\* A variant of a request: its list is cleared before anything is validated.
Receive_ClearFirst(t, type, scope, body) ==
  /\ handler[t] = Idle
  /\ \A i \in 1..Len(body) : body[i].id \notin unused
  /\ \A i \in 1..Len(body) : \A ref \in body[i].data : ref.id \notin unused
  /\ handler' = [handler EXCEPT ![t] =
       [type |-> type, scope |-> scope, body |-> body, phase |-> "validate", at |-> 1,
        read |-> {}, seen |-> {}]]
  /\ rows' = IF type \in ReplacedTypes
             THEN Store!Apply([op |-> "delete",
                               filter |-> [type |-> type, id |-> None, scope |-> scope]])
             ELSE rows
  /\ changed' = IF type \in ReplacedTypes THEN changed \cup {t} ELSE changed \ {t}
  /\ contested' = contested \ {t}
  /\ UNCHANGED <<memory, unused, lost>>

\* The body was parsed.  An id the body leaves out will be drawn by uuid4(); it
\* stands in the body from the start, since nobody can name it before.
Receive(t, type, scope, body) ==
  LET ids == {body[i].id : i \in 1..Len(body)}
  IN  /\ handler[t] = Idle
      /\ \A i, j \in 1..Len(body) :
           i # j /\ body[i].id = body[j].id => body[i].id \notin unused
      /\ \A i \in 1..Len(body) : \A ref \in body[i].data : ref.id \notin unused
      /\ handler' = [handler EXCEPT ![t] =
           [type |-> type, scope |-> scope, body |-> body, phase |-> "validate", at |-> 1,
            read |-> {}, seen |-> {}]]
      /\ unused' = unused \ ids
      /\ changed' = changed \ {t}
      /\ contested' = contested \ {t}
      /\ UNCHANGED <<rows, memory, lost>>

In(t, phase) == handler[t] # Idle /\ handler[t].phase = phase

InBody(t) == handler[t].at <= Len(handler[t].body)
Item(t) == handler[t].body[handler[t].at]

\* A variant: the stored rows of all scopes.
ReadCandidates_AnyScope(t, type) ==
  /\ In(t, "validate") /\ InBody(t)
  /\ type \in References[handler[t].type] \ handler[t].read
  /\ handler' = [handler EXCEPT
       ![t].read = @ \cup {type},
       ![t].seen = @ \cup [type : {type}, id : memory[type]]
                     \cup {k \in Keys : k.type = type /\ rows[k] # Absent}]
  /\ UNCHANGED <<rows, memory, unused, lost, changed, contested>>

\* One _merged_... helper: the ids a GET in this scope would show now.  The
\* endpoints read their resources in different orders.
ReadCandidates(t, type) ==
  /\ In(t, "validate") /\ InBody(t)
  /\ type \in References[handler[t].type] \ handler[t].read
  /\ handler' = [handler EXCEPT
       ![t].read = @ \cup {type},
       ![t].seen = @ \cup Candidates(type, handler[t].scope)]
  /\ UNCHANGED <<rows, memory, unused, lost, changed, contested>>

\* The code validates each field right after reading its candidates; a rejection
\* ends the request without effect, so its place does not matter.
AllRead(t) == References[handler[t].type] \subseteq handler[t].read

\* A variant: an item that passes is stored at once.
PassItem_WriteAtOnce(t) ==
  /\ In(t, "validate") /\ InBody(t) /\ AllRead(t)
  /\ Item(t).data \subseteq handler[t].seen
  /\ LET key == [type |-> handler[t].type, id |-> Item(t).id]
     IN  rows' = [rows EXCEPT ![key] = [scope |-> handler[t].scope, data |-> Item(t).data]]
  /\ handler' = [handler EXCEPT ![t].at = @ + 1, ![t].read = {}, ![t].seen = {}]
  /\ changed' = changed \cup {t}
  /\ UNCHANGED <<memory, unused, lost, contested>>

\* Every reference of the item is among the candidates.
PassItem(t) ==
  /\ In(t, "validate") /\ InBody(t) /\ AllRead(t)
  /\ Item(t).data \subseteq handler[t].seen
  /\ handler' = [handler EXCEPT
       ![t].at = @ + 1,
       ![t].read = IF handler[t].type \in BatchTypes THEN @ ELSE {},
       ![t].seen = IF handler[t].type \in BatchTypes THEN @ ELSE {}]
  /\ UNCHANGED <<rows, memory, unused, lost, changed, contested>>

\* HTTPException(422), raised in the validation loop.
Reject(t) ==
  /\ In(t, "validate") /\ InBody(t) /\ AllRead(t)
  /\ ~ (Item(t).data \subseteq handler[t].seen)
  /\ handler' = [handler EXCEPT ![t].phase = "rejected"]
  /\ UNCHANGED <<rows, memory, unused, lost, changed, contested>>

\* A variant: items are counted from 0.
EndValidation_FromZero(t) ==
  /\ In(t, "validate") /\ ~ InBody(t)
  /\ handler' = [handler EXCEPT ![t].phase = "write", ![t].at = 0]
  /\ UNCHANGED <<rows, memory, unused, lost, changed, contested>>

\* Nothing is stored before every item has passed.
EndValidation(t) ==
  /\ In(t, "validate") /\ ~ InBody(t)
  /\ handler' = [handler EXCEPT
       ![t].phase = IF handler[t].type \in ReplacedTypes THEN "clear" ELSE "write",
       ![t].at = 1]
  /\ UNCHANGED <<rows, memory, unused, lost, changed, contested>>

\* The handlers that are replacing a list which holds, or is about to hold, a
\* record of this type and client.
Replacing(type, client) ==
  {t \in Threads : /\ handler[t] # Idle
                   /\ type \in ReplacedTypes
                   /\ handler[t].type = type
                   /\ handler[t].scope.client = client}

\* A variant: the old list stays.
ClearList_Skipped(t) ==
  /\ In(t, "clear")
  /\ handler' = [handler EXCEPT ![t].phase = "write"]
  /\ UNCHANGED <<rows, memory, unused, lost, changed, contested>>

\* delete_records(resource_type, client_id = ...)
ClearList(t) ==
  /\ In(t, "clear")
  /\ LET h == handler[t]
     IN  /\ rows' = Store!Apply([op |-> "delete",
                                 filter |-> [type |-> h.type, id |-> None, scope |-> h.scope]])
         /\ contested' = contested \cup (Replacing(h.type, h.scope.client) \ {t})
  /\ handler' = [handler EXCEPT ![t].phase = "write"]
  /\ changed' = changed \cup {t}
  /\ UNCHANGED <<memory, unused, lost>>

\* _write_record: an upsert under the item's own id, in the request's scope.  A
\* row of another scope with that id moves: the scope is not part of the key.
WriteItem(t) ==
  /\ In(t, "write") /\ InBody(t)
  /\ LET h == handler[t]
         key == [type |-> h.type, id |-> Item(t).id]
         moves == rows[key] # Absent /\ rows[key].scope # h.scope
         clients == {h.scope.client} \cup IF moves THEN {rows[key].scope.client} ELSE {}
     IN  /\ rows' = Store!Apply([op |-> "upsert", key |-> key,
                                 entry |-> [scope |-> h.scope, data |-> Item(t).data]])
         /\ lost' = IF moves THEN lost \cup {key} ELSE lost
         /\ contested' = contested \cup
              {u \in Threads \ {t} : \E client \in clients : u \in Replacing(h.type, client)}
  /\ handler' = [handler EXCEPT ![t].at = @ + 1]
  /\ changed' = changed \cup {t}
  /\ UNCHANGED <<memory, unused>>

Accepted(t) == In(t, "write") /\ ~ InBody(t)

Respond(t) ==
  /\ Accepted(t) \/ In(t, "rejected")
  /\ handler' = [handler EXCEPT ![t] = Idle]
  /\ UNCHANGED <<rows, memory, unused, lost, changed, contested>>

\* A statement raises: 500, and what was stored before stays stored.
StatementFails(t) ==
  /\ handler[t] # Idle
  /\ In(t, "validate") \/ In(t, "clear") \/ In(t, "write")
  /\ handler' = [handler EXCEPT ![t] = Idle]
  /\ UNCHANGED <<rows, memory, unused, lost, changed, contested>>

(***************************************************************************)
(* Everything else that changes what a reference may name                  *)
(***************************************************************************)

MemoryKeys(types) == {k \in Keys : k.type \in types /\ k.id \in memory[k.type]}

\* One assignment of data_store.reset(): a new list, with new ids.
RegenerateList(type) ==
  /\ type \in MemoryTypes
  /\ \E ids \in SUBSET unused :
       /\ ids # {}
       /\ memory' = [memory EXCEPT ![type] = ids]
       /\ unused' = unused \ ids
  /\ lost' = lost \cup MemoryKeys({type})
  /\ UNCHANGED <<rows, handler, changed, contested>>

\* data_store.add_master_data, delete_master_data, each as one step.
AdminAdd(type) ==
  /\ type \in AdminTypes
  /\ \E id \in unused :
       /\ memory' = [memory EXCEPT ![type] = @ \cup {id}]
       /\ unused' = unused \ {id}
  /\ UNCHANGED <<rows, handler, lost, changed, contested>>

AdminDelete(type) ==
  /\ type \in AdminTypes
  /\ \E id \in memory[type] :
       /\ memory' = [memory EXCEPT ![type] = @ \ {id}]
       /\ lost' = lost \cup {[type |-> type, id |-> id]}
  /\ UNCHANGED <<rows, unused, handler, changed, contested>>

\* The process dies and starts again: the table is a file, the lists are not.
Restart ==
  /\ \E lists \in [MemoryTypes -> (SUBSET unused) \ {{}}] :
       /\ \A m, n \in MemoryTypes : m # n => lists[m] \cap lists[n] = {}
       /\ memory' = [type \in ResourceTypes |->
                       IF type \in MemoryTypes THEN lists[type] ELSE Generated[type]]
       /\ unused' = unused \ UNION {lists[type] : type \in MemoryTypes}
  /\ lost' = lost \cup MemoryKeys(MemoryTypes)
  /\ handler' = [t \in Threads |-> Idle]
  /\ changed' = {}
  /\ contested' = {}
  /\ UNCHANGED rows

Next ==
  \/ \E t \in Threads :
       \/ \E type \in ResourceTypes : \E scope \in ScopesOf(type), body \in Bodies[type] :
            Receive(t, type, scope, body)
       \/ \E type \in ResourceTypes : ReadCandidates(t, type)
       \/ PassItem(t)
       \/ Reject(t)
       \/ EndValidation(t)
       \/ ClearList(t)
       \/ WriteItem(t)
       \/ Respond(t)
       \/ StatementFails(t)
  \/ \E type \in ResourceTypes :
       \/ RegenerateList(type)
       \/ AdminAdd(type)
       \/ AdminDelete(type)
  \/ Restart

Spec == Init /\ [][Next]_vars

(***************************************************************************)
(* Properties                                                              *)
(***************************************************************************)

\* A reference names something a GET shows in this scope, or something that was
\* shown and then taken away by a reset, a restart or a write elsewhere.
Vouched(ref, scope) == ref \in Candidates(ref.type, scope) \cup lost

\* The references of every stored record resolve in its own scope, however the
\* handlers interleave, unless their target was taken away after it was stored.
ReferencesResolve ==
  \A k \in Keys : rows[k] # Absent =>
    \A ref \in rows[k].data : Vouched(ref, rows[k].scope)

\* A request answered with 422 stored and deleted nothing, however long its body.
RejectedWritesNothing ==
  \A t \in Threads : In(t, "rejected") => t \notin changed

\* The list a whole body makes: under each id, its last item.
AsList(body) ==
  {[id |-> body[i].id, data |-> body[i].data] :
     i \in {j \in 1..Len(body) : \A l \in j+1..Len(body) : body[l].id # body[j].id}}

ListOf(type, client) ==
  {[id |-> k.id, data |-> rows[k].data] :
     k \in {j \in Keys : j.type = type /\ rows[j] # Absent /\ rows[j].scope.client = client}}

Replaced(t) ==
  ListOf(handler[t].type, handler[t].scope.client) = AsList(handler[t].body)

\* A PUT of a client's responsibilities that nobody disturbed leaves exactly the
\* list it was given.
UncontestedReplace ==
  \A t \in Threads \ contested :
    Accepted(t) /\ handler[t].type \in ReplacedTypes => Replaced(t)
=============================================================================
