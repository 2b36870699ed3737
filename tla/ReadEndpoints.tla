--------------------------- MODULE ReadEndpoints ---------------------------
(***************************************************************************)
(* The GET endpoints of routers/accounting.py, master_data.py and dms.py:  *)
(* a GET merges the generated records with the stored ones, withholds what *)
(* its gates withhold, and renders the rest as JSON or XML.  Two steps     *)
(* load the settings, which PUT requests save meanwhile.                   *)
(*                                                                         *)
(* Records of two resources never meet in these handlers, so a behaviour   *)
(* is about the GETs of one resource, whichever it is.                     *)
(***************************************************************************)
EXTENDS Settings, RecordShapes

CONSTANTS
  Listed,      \* the resources looked at
  Watched,     \* those whose GETs meet changes of the settings
  Generated,   \* ids of generated records
  Ids,         \* ids that are written
  MaxStored,   \* bounds the writes
  Unreadable   \* what comes of loading a file that load_settings cannot read

ASSUME ReadAssumption ==
  /\ Listed \subseteq Resources
  /\ Watched \subseteq Listed
  /\ MaxStored \in Nat
  /\ Unreadable \notin Values

VARIABLES
  resource,  \* the resource of this behaviour
  stored,    \* the fields of each stored record
  get        \* the last GET request

readVars == <<resource, stored, get>>

\* The new resources of routers/accounting.py and the employees: nothing is
\* generated for them.
StoredOnly == {"employees", "cost_center_properties", "cost_sequences",
               "cost_accounting_records", "various_addresses"}

GeneratedIds == IF resource \in StoredOnly THEN {} ELSE Generated

\* What load_settings would do now.
Now == IF Readable THEN Loaded ELSE Unreadable

Pending(pc) == get # Idle /\ get.pc = pc

Init ==
  /\ SettingsInit
  /\ resource \in Listed
  /\ stored = <<>>
  /\ get = Idle

\* upsert_record of an id that is not stored yet
Stored(i, fields) == [j \in DOMAIN stored \cup {i} |-> IF j = i THEN fields ELSE stored[j]]

\* A variant: the id that was resolved is left out of the data.
Write_NoId(i, sent) ==
  /\ resource \in Writable
  /\ i \notin DOMAIN stored
  /\ Cardinality(DOMAIN stored) < MaxStored
  /\ stored' = Stored(i, sent)
  /\ UNCHANGED <<settingsVars, resource, get>>

\* A write endpoint stores the fields that were sent, and the id.
Write(i, sent) ==
  /\ resource \in Writable
  /\ i \notin DOMAIN stored
  /\ Cardinality(DOMAIN stored) < MaxStored
  /\ stored' = Stored(i, sent \cup {"id"})
  /\ UNCHANGED <<settingsVars, resource, get>>

\* get.before and get.seen are history: what was stored when the GET began, and
\* which settings could be loaded since.  An active override would be the answer.
Get(accept, expand) ==
  /\ ~ \E pc \in {"merge", "gate", "format"} : Pending(pc)
  /\ expand => resource \in Partners
  /\ get' = [pc |-> "merge", accept |-> accept, expand |-> expand,
             before |-> stored, seen |-> {Now}, records |-> {}]
  /\ UNCHANGED <<settingsVars, resource, stored>>

Without(record, fields) ==
  [record EXCEPT !.fields = [a \in DOMAIN @ |-> IF a \in fields THEN "none" ELSE @[a]]]

StoredInstances ==
  {[id |-> i, fields |-> RecordToDataclass(resource, stored[i])] : i \in DOMAIN stored}

\* A variant: stored records are appended and replace nothing.
MergeWithStored_Append ==
  {[id |-> i, fields |-> GeneratedRecord(resource)] : i \in GeneratedIds} \cup StoredInstances

\* merge_with_stored
MergeWithStored ==
  {[id |-> i, fields |-> GeneratedRecord(resource)] : i \in GeneratedIds \ DOMAIN stored}
    \cup StoredInstances

\* _apply_expand_gate
ApplyExpandGate(records) ==
  IF resource \in Partners /\ ~ get.expand
  THEN {Without(r, NilFields) : r \in records} ELSE records

Merge ==
  /\ Pending("merge")
  /\ get' = [get EXCEPT !.pc = IF resource = "cost_centers" THEN "gate" ELSE "format",
                        !.records = ApplyExpandGate(MergeWithStored)]
  /\ UNCHANGED <<settingsVars, resource, stored>>

\* A file that cannot be read is answered with 500.
Fail == get' = [get EXCEPT !.pc = "failed", !.records = {}]

\* get_cost_centers: legacy settings withhold the cost rates.
VersionGate ==
  /\ Pending("gate")
  /\ \/ ~ Readable /\ Fail
     \/ /\ Readable
        /\ get' = [get EXCEPT !.pc = "format", !.records =
             IF Loaded.version = "legacy" THEN {Without(r, {"cost_rates"}) : r \in @} ELSE @]
  /\ UNCHANGED <<settingsVars, resource, stored>>

Render(format) ==
  get' = [get EXCEPT !.pc = "answered",
    !.records = {[id |-> r.id, format |-> format, shown |-> Shown(resource, format, r.fields)] :
                   r \in @}]

NamesFormat == resource \in JsonOnly \/ get.accept \in {"json", "xml"}

\* A variant: the format is the one of the settings the process started with.
Negotiate_Default ==
  /\ Pending("format")
  /\ \/ /\ NamesFormat
        /\ Render(IF resource \in JsonOnly THEN "json" ELSE get.accept)
     \/ ~ NamesFormat /\ Render(Default.format)
  /\ UNCHANGED <<settingsVars, resource, stored>>

\* _negotiate_format, and the answer
Negotiate ==
  /\ Pending("format")
  /\ \/ /\ NamesFormat
        /\ Render(IF resource \in JsonOnly THEN "json" ELSE get.accept)
     \/ ~ NamesFormat /\ ~ Readable /\ Fail
     \/ ~ NamesFormat /\ Readable /\ Render(Loaded.format)
  /\ UNCHANGED <<settingsVars, resource, stored>>

\* get_addressee and get_employee.  An addressee is answered as it is stored.
GetById(i) ==
  /\ ~ \E pc \in {"merge", "gate", "format"} : Pending(pc)
  /\ resource \in {"addressees", "employees"}
  /\ LET asStored == resource = "addressees"
         shown == IF i \notin DOMAIN stored THEN Shown(resource, "json", GeneratedRecord(resource))
                  ELSE IF asStored THEN stored[i]
                  ELSE Shown(resource, "json", RecordToDataclass(resource, stored[i]))
     IN  get' = [pc |-> IF i \in GeneratedIds \cup DOMAIN stored THEN "one" ELSE "404",
                 before |-> stored,
                 records |-> IF i \in GeneratedIds \cup DOMAIN stored
                             THEN {[id |-> i, shown |-> shown]} ELSE {}]
  /\ UNCHANGED <<settingsVars, resource, stored>>

Observe ==
  get' = IF \E pc \in {"merge", "gate", "format"} : Pending(pc)
         THEN [get EXCEPT !.seen = @ \cup {Now'}] ELSE get

ChangeSettings ==
  /\ resource \in Watched
  /\ SettingsNext
  /\ Observe
  /\ UNCHANGED <<resource, stored>>

\* The settings file and the stored records outlive the process, the GET does not.
Crash ==
  /\ resource \in Watched
  /\ Die
  /\ get' = Idle
  /\ UNCHANGED <<resource, stored>>

\* What a client may send: as little as is valid, everything, or all but the objects.
Sendable ==
  LET body == Bodies[resource]
  IN  {body.requires, body.accepts, body.requires \cup (body.accepts \ Shapes[resource].nested)}

Next ==
  \/ resource \in Writable /\ \E i \in Ids : \E sent \in Sendable : Write(i, sent)
  \/ \E accept \in {"json", "xml", "any"}, expand \in BOOLEAN : Get(accept, expand)
  \/ \E i \in Generated \cup Ids : GetById(i)
  \/ Merge
  \/ VersionGate
  \/ Negotiate
  \/ ChangeSettings
  \/ Crash

vars == <<settingsVars, readVars>>
Spec == Init /\ [][Next]_vars
-----------------------------------------------------------------------------
\* The settings file, the threads, the store and the GET have the shape that the
\* handlers give them: what is stored has an id and is what a write endpoint accepts.
ReadTypeOK ==
  /\ SettingsTypeOK
  /\ resource \in Listed
  /\ DOMAIN stored \subseteq Ids
  /\ \A i \in DOMAIN stored :
       "id" \in stored[i] /\ stored[i] \subseteq Bodies[resource].accepts \cup {"id"}
  /\ get # Idle =>
       /\ get.pc \in {"merge", "gate", "format", "answered", "failed", "one", "404"}
       /\ \A r \in get.records : r.id \in Generated \cup Ids

\* A list never holds two records of one id, holds every record that was stored
\* when the GET began, and every generated record (merge_with_stored).
RecordsMerged ==
  Pending("answered") =>
    /\ \A r, q \in get.records : r.id = q.id => r = q
    /\ GeneratedIds \cup DOMAIN get.before \subseteq {r.id : r \in get.records}
    /\ {r.id : r \in get.records} \subseteq GeneratedIds \cup DOMAIN stored

\* Fields that are meant to be kept and not listed.
Withheld ==
  CASE resource \in Partners -> Shapes[resource].nested
    [] resource = "cost_centers" -> {"cost_rates"}
    [] resource = "addressees" -> AddresseeWriteOnly
    [] OTHER -> {}

\* No field that a client sent is lost on the way through the field map, the
\* dataclass and the serializers: one of the two forms of the list shows it, or
\* the GET by id (record_to_dataclass drops what it does not know, silently).  The other
\* form may lack it: the XML of stocktakings has nine of their fields.
SentIsShown ==
  /\ Pending("answered") =>
       \A r \in get.records : r.id \in DOMAIN get.before =>
         \A key \in get.before[r.id] \ Withheld :
           \E a \in Attributes(resource), format \in {"json", "xml"} :
             /\ key \in KeysOf(resource, a)
             /\ a \in Fields(resource, format)
             /\ format = r.format => a \in r.shown
  /\ Pending("one") =>
       \A r \in get.records : r.id \in DOMAIN get.before =>
         get.before[r.id] \subseteq r.shown

\* The nested fields of a business partner are shown only on expand=all, and never
\* of a stored one (its raw objects would be rendered as Python).  Cost rates are
\* shown only if the settings asked for the modern version during the GET.
GatesHold ==
  Pending("answered") => \A r \in get.records :
    /\ resource \in Partners /\ r.shown \cap Shapes[resource].nested # {} =>
         get.expand /\ r.id \notin DOMAIN get.before
    /\ resource = "cost_centers" /\ "cost_rates" \in r.shown =>
         \E v \in get.seen : v # Unreadable /\ v.version = "modern"

\* A GET is answered in the format it names.  Otherwise the format is that of
\* settings that were in force during it, and it fails only if the file could not
\* be read at some time during it.  If they did not change, a list of cost
\* centers follows one and the same settings in its format and its fields.
AnswerOfSettings ==
  /\ Pending("answered") /\ NamesFormat =>
       \A r \in get.records : r.format = IF resource \in JsonOnly THEN "json" ELSE get.accept
  /\ Pending("answered") /\ ~ NamesFormat =>
       \E v \in get.seen \ {Unreadable} :
         \A r \in get.records :
           /\ r.format = v.format
           /\ Cardinality(get.seen) = 1 /\ resource = "cost_centers" /\ r.format = "json" =>
                (v.version = "modern" \/ "cost_rates" \notin r.shown)
  /\ Pending("failed") =>
       /\ Unreadable \in get.seen
       /\ resource = "cost_centers" \/ ~ NamesFormat
=============================================================================
