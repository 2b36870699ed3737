---------------------------- MODULE RecordSchema ----------------------------
(***************************************************************************)
(* The shape of the one generic table of app/db.py and of what its callers *)
(* can ask of it.  A payload (data_json) is a model value: the store never *)
(* looks inside it.                                                        *)
(***************************************************************************)
CONSTANTS
  ResourceTypes, \* the resource_type column: one per resource family
  RecordIds,     \* the record_id column
  Clients,       \* the values of the client_id column
  FiscalYears,   \* the values of the fiscal_year_id column
  Data,          \* the payloads
  None           \* SQL NULL in a column, Python None in an argument

ASSUME NoneAssumption == None \notin Clients \cup FiscalYears \cup RecordIds \cup ResourceTypes

\* PRIMARY KEY (resource_type, record_id): the scope is not part of it.
Keys == [type : ResourceTypes, id : RecordIds]

\* Master data is written without a scope, responsibilities with a client,
\* accounting records with a client and a fiscal year.
Scopes ==
  [client : {None}, fy : {None}] \cup [client : Clients, fy : {None}]
    \cup [client : Clients, fy : FiscalYears]

\* What a caller writes under a key, timestamps left aside.
Entries == [scope : Scopes, data : Data]

\* A WHERE clause; an omitted column is None.  delete_record() fixes the id,
\* delete_records() a type and possibly a scope, reset() nothing.
Filters ==
  [type : ResourceTypes, id : RecordIds, scope : {[client |-> None, fy |-> None]}]
    \cup [type : ResourceTypes, id : {None}, scope : Scopes]
    \cup [type : {None}, id : {None}, scope : {[client |-> None, fy |-> None]}]

\* `column = ?`, left out of the clause when the argument is None.  A NULL
\* column equals no argument.
ColumnMatches(column, argument) == argument = None \/ column = argument

ScopeMatches(scope, wanted) ==
  /\ ColumnMatches(scope.client, wanted.client)
  /\ ColumnMatches(scope.fy, wanted.fy)

Selected(key, scope, f) ==
  /\ ColumnMatches(key.type, f.type)
  /\ ColumnMatches(key.id, f.id)
  /\ ScopeMatches(scope, f.scope)

Upserts == [op : {"upsert"}, key : Keys, entry : Entries]
Deletes == [op : {"delete"}, filter : Filters]
Requests == Upserts \cup Deletes
=============================================================================
