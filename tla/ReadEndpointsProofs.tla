------------------------- MODULE ReadEndpointsProofs -------------------------
(***************************************************************************)
(* Theorems about the GET endpoints and the settings file that PUT         *)
(* requests save meanwhile, for any number of savers, settings, records,   *)
(* writes and crashes, and for every resource.                             *)
(*                                                                         *)
(* SInv is about the settings alone; no step of a GET touches it.  OnItsWay*)
(* follows a record from the merge through the gates, and Now, what a load *)
(* would give, stays among what a running GET has seen.                    *)
(***************************************************************************)
EXTENDS ReadEndpoints, FiniteSetTheorems, TLAPS

\* Exactly one thread is between truncating the file and writing it.
OneSaving == \E s \in Savers : Saving = {s}

Truncated == [text |-> Empty, length |-> 0]

\* Unless disturbed, the file is what the last save left, or what its first step did.
FileSound ==
  disturbed \/ (Saving = {} /\ Readable /\ Loaded = kept) \/ (OneSaving /\ file = Truncated)

\* Whoever is about to write has a file to write to.
Opened == Saving # {} => file # Absent

SInv == SettingsTypeOK /\ disturbed \in BOOLEAN /\ FileSound /\ Opened
-----------------------------------------------------------------------------
LEMMA SettingsInitHolds == SettingsInit => SInv
<1> SUFFICES ASSUME SettingsInit PROVE SInv
  OBVIOUS
<1>1. \A s \in Savers : saver[s] = Idle
  BY DEF SettingsInit
<1>2. SettingsTypeOK
  BY <1>1, SettingsAssumption DEF SettingsInit, SettingsTypeOK, At
<1>3. Saving = {}
  BY <1>1 DEF Saving, At
<1> QED
  BY <1>2, <1>3 DEF SettingsInit, SInv, FileSound, Opened, Readable, Loaded

\* A step that changes what one thread is doing, and who is saving only as told.
LEMMA SavingStep ==
  ASSUME SettingsTypeOK, NEW s \in Savers, NEW r \in Requests \cup {Idle},
         saver' = [saver EXCEPT ![s] = r]
  PROVE  /\ saver' \in [Savers -> Requests \cup {Idle}]
         /\ saver'[s] = r /\ \A u \in Savers \ {s} : saver'[u] = saver[u]
         /\ (r # Idle /\ r.pc = "write") => Saving' = Saving \cup {s}
         /\ ~ (r # Idle /\ r.pc = "write") => Saving' = Saving \ {s}
<1>1. /\ saver' \in [Savers -> Requests \cup {Idle}]
      /\ saver'[s] = r /\ \A u \in Savers \ {s} : saver'[u] = saver[u]
  BY DEF SettingsTypeOK
<1> QED
  BY <1>1 DEF Saving, At

\* The requests of the threads stay requests for valid settings once they are checked.
LEMMA RequestsStep ==
  ASSUME SettingsTypeOK, NEW s \in Savers, NEW r \in Requests \cup {Idle},
         saver' = [saver EXCEPT ![s] = r],
         r # Idle => r.pc = "load" \/ r.value \in Values,
         file' \in Files \cup {Absent}, saves' \in 0..MaxSaves, crashes' \in 0..MaxCrashes,
         kept' \in Values
  PROVE  SettingsTypeOK'
<1>1. /\ saver' \in [Savers -> Requests \cup {Idle}]
      /\ saver'[s] = r /\ \A u \in Savers \ {s} : saver'[u] = saver[u]
  BY SavingStep
<1>2. \A u \in Savers : At(u, "open")' \/ At(u, "write")' => saver'[u].value \in Values
  BY <1>1 DEF SettingsTypeOK, At
<1> QED
  BY <1>1, <1>2 DEF SettingsTypeOK

\* A step before the file is touched changes neither the file nor who is saving.
LEMMA PutHolds ==
  ASSUME SInv, NEW s \in Savers, NEW v \in Values \cup {Invalid}, PutSettings(s, v)
  PROVE  SInv'
<1> DEFINE r == [pc |-> "load", value |-> v]
<1>1. r \in Requests /\ r.pc = "load"
  BY DEF Requests
<1>2. saver[s] = Idle /\ saver' = [saver EXCEPT ![s] = r]
      /\ UNCHANGED <<file, crashes, disturbed, kept>>
  BY DEF PutSettings
<1>3. saves' \in 0..MaxSaves
  BY SettingsAssumption DEF PutSettings, SInv, SettingsTypeOK
<1> HIDE DEF r
<1>4. SettingsTypeOK'
  BY <1>1, <1>2, <1>3, RequestsStep DEF SInv, SettingsTypeOK
<1>5. Saving' = Saving \ {s}
  BY <1>1, <1>2, SavingStep DEF SInv
<1>6. s \notin Saving
  BY <1>2 DEF Saving, At
<1>7. Saving' = Saving
  BY <1>5, <1>6
<1> QED
  BY <1>2, <1>4, <1>7 DEF SInv, FileSound, OneSaving, Opened, Readable, Loaded

LEMMA LoadHolds ==
  ASSUME SInv, NEW s \in Savers, LoadPrevious(s)
  PROVE  SInv'
<1> DEFINE ok == Readable /\ saver[s].value \in Values
           r == IF ok THEN [saver[s] EXCEPT !.pc = "open"] ELSE Idle
<1>1. At(s, "load") /\ saver[s] \in Requests
  BY DEF LoadPrevious, At, SInv, SettingsTypeOK
<1>2. saver' = [saver EXCEPT ![s] = r] /\ UNCHANGED <<file, saves, crashes, disturbed, kept>>
  BY DEF LoadPrevious
<1>3. ok => r \in Requests /\ r.pc = "open" /\ r.value = saver[s].value
  BY <1>1 DEF Requests
<1>4. r \in Requests \cup {Idle} /\ (r # Idle => r.pc = "open" /\ r.value \in Values)
  BY <1>3
<1> HIDE DEF r, ok
<1>5. SettingsTypeOK'
  BY <1>2, <1>4, RequestsStep DEF SInv, SettingsTypeOK
<1>6. Saving' = Saving \ {s}
  BY <1>2, <1>4, SavingStep DEF SInv
<1>7. s \notin Saving
  BY <1>1 DEF Saving, At
<1>8. Saving' = Saving
  BY <1>6, <1>7
<1> QED
  BY <1>2, <1>5, <1>8 DEF SInv, FileSound, OneSaving, Opened, Readable, Loaded

\* Truncating the file while nobody else is between the two steps starts a sound save.
LEMMA OpenHolds ==
  ASSUME SInv, NEW s \in Savers, OpenFile(s)
  PROVE  SInv'
<1> DEFINE r == [saver[s] EXCEPT !.pc = "write"]
<1>1. At(s, "open") /\ saver[s] \in Requests /\ saver[s].value \in Values
  BY DEF OpenFile, At, SInv, SettingsTypeOK
<1>2. /\ saver' = [saver EXCEPT ![s] = r] /\ file' = Truncated
      /\ disturbed' = (Saving # {}) /\ UNCHANGED <<saves, crashes, kept>>
  BY DEF OpenFile, Truncated
<1>3. r \in Requests /\ r.pc = "write" /\ r.value \in Values
  BY <1>1 DEF Requests
<1>4. Truncated \in Files
  BY DEF Truncated, Files
<1> HIDE DEF r
<1>5. r # Idle
  BY <1>3, MarkerAssumption
<1>6. SettingsTypeOK'
  BY <1>2, <1>3, <1>4, RequestsStep DEF SInv, SettingsTypeOK
<1>7. Saving' = Saving \cup {s}
  BY <1>2, <1>3, <1>5, SavingStep DEF SInv
<1>8. disturbed' \in BOOLEAN /\ (disturbed' \/ (OneSaving /\ file = Truncated)')
  BY <1>2, <1>7 DEF OneSaving, Truncated
<1>9. file' # Absent
  BY <1>2, <1>4, MarkerAssumption
<1> QED
  BY <1>6, <1>8, <1>9 DEF SInv, FileSound, Opened

\* Writing the truncated file leaves exactly the text that was saved.
LEMMA WriteHolds ==
  ASSUME SInv, NEW s \in Savers, WriteText(s)
  PROVE  SInv'
<1> DEFINE v == saver[s].value
           size == IF file.length > Length(v) THEN file.length ELSE Length(v)
           text == [text |-> v, length |-> size]
<1>1. At(s, "write") /\ v \in Values /\ s \in Saving
  BY DEF WriteText, At, Saving, SInv, SettingsTypeOK
<1>2. /\ saver' = [saver EXCEPT ![s] = Idle] /\ file' = text /\ kept' = v
      /\ UNCHANGED <<saves, crashes, disturbed>>
  BY DEF WriteText
<1>3. Length(v) \in Nat \ {0}
  BY <1>1, SettingsAssumption
<1>4. file \in Files
  BY <1>1 DEF SInv, SettingsTypeOK, Opened
<1>5. file.length \in Nat
  BY <1>4 DEF Files
<1>6. size \in Nat
  BY <1>3, <1>5
<1> HIDE DEF size
<1>7. text \in Files /\ text.text = v /\ text.length = size
  BY <1>1, <1>6 DEF Files
<1>8. file = Truncated => size = Length(v)
  BY <1>3 DEF size, Truncated
<1> HIDE DEF text, v
<1>9. SettingsTypeOK'
  BY <1>1, <1>2, <1>7, RequestsStep DEF SInv, SettingsTypeOK
<1>10. Saving' = Saving \ {s}
  BY <1>2, SavingStep, MarkerAssumption DEF SInv
<1>11. file' # Absent
  BY <1>2, <1>7, MarkerAssumption
<1>12. CASE disturbed
  BY <1>2, <1>9, <1>11, <1>12 DEF SInv, FileSound, Opened
<1>13. CASE ~ disturbed
  <2>1. OneSaving /\ file = Truncated
    BY <1>1, <1>13 DEF SInv, FileSound
  <2>2. Saving' = {}
    BY <1>1, <1>10, <2>1 DEF OneSaving
  <2>3. file'.text \in Values /\ file'.length = Length(file'.text) /\ file'.text = kept'
    BY <1>1, <1>2, <1>7, <1>8, <2>1
  <2>4. Readable' /\ Loaded' = kept'
    BY <1>11, <2>3 DEF Readable, Loaded
  <2> QED
    BY <1>2, <1>9, <1>11, <2>2, <2>4 DEF SInv, FileSound, Opened
<1> QED
  BY <1>12, <1>13

\* A process that dies between the two steps of a save disturbs it, and nobody saves afterwards.
LEMMA DieHolds ==
  ASSUME SInv, Die
  PROVE  SInv'
<1>1. /\ saver' = [s \in Savers |-> Idle] /\ disturbed' = (disturbed \/ Saving # {})
      /\ UNCHANGED <<file, saves, kept>>
  BY DEF Die
<1>2. crashes' \in 0..MaxCrashes
  BY SettingsAssumption DEF Die, SInv, SettingsTypeOK
<1>3. \A s \in Savers : saver'[s] = Idle
  BY <1>1
<1>4. Saving' = {}
  BY <1>3 DEF Saving, At
<1>5. SettingsTypeOK'
  BY <1>1, <1>2, <1>3 DEF SInv, SettingsTypeOK, At
<1>6. disturbed' \/ (Readable' /\ Loaded' = kept')
  BY <1>1 DEF SInv, FileSound, OneSaving, Readable, Loaded
<1> QED
  BY <1>1, <1>4, <1>5, <1>6 DEF SInv, FileSound, Opened

\* Every other step leaves the settings alone.
LEMMA SettingsNextHolds == SInv /\ [Next]_vars => SInv'
<1> SUFFICES ASSUME SInv, [Next]_vars PROVE SInv'
  OBVIOUS
<1>1. CASE UNCHANGED settingsVars
  BY <1>1 DEF settingsVars, SInv, SettingsTypeOK, FileSound, Opened, OneSaving, Readable, Loaded,
              Saving, At
<1>2. CASE SettingsNext
  BY <1>2, PutHolds, LoadHolds, OpenHolds, WriteHolds DEF SettingsNext
<1>3. CASE Die
  BY <1>3, DieHolds
<1>4. UNCHANGED settingsVars \/ SettingsNext \/ Die
  <2>1. UNCHANGED vars => UNCHANGED settingsVars
    BY DEF vars, settingsVars
  <2>2. ChangeSettings => SettingsNext
    BY DEF ChangeSettings
  <2>3. Crash => Die
    BY DEF Crash
  <2>4. Next => ChangeSettings \/ Crash \/ UNCHANGED settingsVars
    BY DEF Next, Write, Get, GetById, Merge, VersionGate, Negotiate
  <2> QED
    BY <2>1, <2>2, <2>3, <2>4
<1> QED
  BY <1>1, <1>2, <1>3, <1>4

\* PUT /admin/api/settings and load_settings: unless two saves overlapped or a crash came
\* within one, a load between saves gives the settings of the last save, whole.
THEOREM SettingsSurvive == Spec => []SavesHold
<1>1. Init => SInv
  BY SettingsInitHolds DEF Init
<1>2. SInv => SavesHold
  BY DEF SInv, FileSound, OneSaving, SavesHold
<1> QED
  BY <1>1, <1>2, SettingsNextHolds, PTL DEF Spec
-----------------------------------------------------------------------------
(***************************************************************************)
(* What the proofs need of the shapes.                                     *)
(***************************************************************************)

\* What a business partner holds as an object is what the expand gate takes.
LEMMA PartnerNested ==
  ASSUME NEW r \in Partners
  PROVE  Shapes[r].nested = NilFields /\ NilFields \subseteq Attributes(r)
<1>1. Shapes[r] = Creditor
  BY DEF Shapes, Partners, Debitor
<1>2. Creditor.nested = NilFields /\ NilFields \subseteq Creditor.optional
  BY DEF Creditor, NilFields
<1> QED
  BY <1>1, <1>2 DEF Attributes

LEMMA RatesAreAField == "cost_rates" \in Attributes("cost_centers")
<1>1. Shapes["cost_centers"] = CostCenter
  BY DEF Shapes
<1>2. "cost_rates" \in CostCenter.filled
  BY DEF CostCenter
<1> QED
  BY <1>1, <1>2 DEF Attributes

\* Everything but a client is read from the key of its own name.
LEMMA OwnKeys ==
  ASSUME NEW r, r # "master_data_clients", NEW a
  PROVE  KeysOf(r, a) = {a}
BY DEF KeysOf

\* The resources whose bodies have the fields of the record.
PlainBodies == Writable \ {"master_data_clients", "addressees"}

LEMMA PlainBodiesAre ==
  PlainBodies = {"employees", "cost_centers", "creditors", "debitors", "assets_stocktakings",
                 "terms_of_payment", "cost_center_properties", "cost_sequences",
                 "cost_accounting_records", "various_addresses"}
BY DEF PlainBodies, Writable, Bodies

LEMMA PlainAccepts ==
  ASSUME NEW r \in PlainBodies
  PROVE  Bodies[r].accepts = Attributes(r)
BY PlainBodiesAre
   DEF Bodies, SameFields, CreditorWrite, DebitorWrite, TermOfPaymentWrite,
       AssetStocktakingWrite, CostCenterWrite, CostCenterPropertyWrite, CostSequenceWrite,
       CostAccountingRecordWrite, VariousAddressWrite, EmployeeWrite

LEMMA PlainIds ==
  ASSUME NEW r \in PlainBodies
  PROVE  "id" \in Attributes(r)
<1>1. /\ "id" \in Employee.required /\ "id" \in CostCenter.required
      /\ "id" \in Creditor.required /\ "id" \in AssetStocktaking.required
      /\ "id" \in TermOfPayment.required /\ "id" \in CostCenterProperty.required
      /\ "id" \in CostSequence.required /\ "id" \in CostAccountingRecord.required
      /\ "id" \in VariousAddress.required
  BY DEF Employee, CostCenter, Creditor, AssetStocktaking, TermOfPayment, CostCenterProperty,
         CostSequence, CostAccountingRecord, VariousAddress
<1>2. "id" \in Shapes[r].required
  BY <1>1, PlainBodiesAre DEF Shapes, Debitor
<1> QED
  BY <1>2 DEF Attributes

LEMMA PlainJson ==
  ASSUME NEW r \in PlainBodies
  PROVE  Fields(r, "json") = Attributes(r)
<1>1. r \notin DOMAIN Projections
  BY PlainBodiesAre DEF Projections
<1> QED
  BY <1>1 DEF Fields, JsonFields

\* Every key of ClientWrite is stored for an attribute of the record.
LEMMA ClientKeys ==
  ASSUME NEW key \in Bodies["master_data_clients"].accepts
  PROVE  /\ key \in DOMAIN ClientFieldMap
         /\ ClientFieldMap[key] \in Attributes("master_data_clients")
         /\ "id" \in Bodies["master_data_clients"].accepts
<1>1. Bodies["master_data_clients"] = ClientWrite
  BY DEF Bodies
<1>2. Shapes["master_data_clients"] = ClientResource
  BY DEF Shapes
<1>3. key \in ClientWrite.accepts
  BY <1>1
<1>4. "id" \in ClientWrite.accepts
  BY DEF ClientWrite
<1>5. key \in DOMAIN ClientFieldMap
  BY <1>3 DEF ClientWrite, ClientFieldMap
<1>6. ClientFieldMap[key] \in ClientResource.required \cup ClientResource.optional
                              \cup ClientResource.filled
  BY <1>3 DEF ClientWrite, ClientFieldMap, ClientResource
<1> QED
  BY <1>1, <1>2, <1>4, <1>5, <1>6 DEF Attributes

LEMMA ClientXml == Fields("master_data_clients", "xml") = Attributes("master_data_clients")
<1>1. Shapes["master_data_clients"].nested = {}
  BY DEF Shapes, ClientResource
<1>2. XmlFields("master_data_clients") = Attributes("master_data_clients")
  BY <1>1 DEF XmlFields, Partners
<1> QED
  BY <1>2 DEF Fields

\* Every field that a client may send is read for an attribute that one of the forms
\* has, but for the ones of an addressee that are never listed.
LEMMA SentHasAField ==
  ASSUME NEW r \in Writable, NEW key \in Bodies[r].accepts \cup {"id"},
         r = "addressees" => key \notin AddresseeWriteOnly
  PROVE  \E a \in Attributes(r), format \in {"json", "xml"} :
           key \in KeysOf(r, a) /\ a \in Fields(r, format)
<1>1. CASE r \in PlainBodies
  <2>1. key \in Attributes(r) /\ key \in KeysOf(r, key) /\ key \in Fields(r, "json")
    BY <1>1, PlainAccepts, PlainIds, PlainJson, PlainBodiesAre DEF KeysOf
  <2> QED
    BY <2>1
<1>2. CASE r = "master_data_clients"
  <2>1. key \in DOMAIN ClientFieldMap /\ ClientFieldMap[key] \in Attributes(r)
    <3>1. "id" \in Bodies[r].accepts
      <4>1. Bodies["master_data_clients"] = ClientWrite
        BY DEF Bodies
      <4>2. "id" \in ClientWrite.accepts
        BY DEF ClientWrite
      <4> QED
        BY <1>2, <4>1, <4>2
    <3> QED
      BY <1>2, <3>1, ClientKeys
  <2>2. key \in KeysOf(r, ClientFieldMap[key])
    BY <1>2, <2>1 DEF KeysOf
  <2>3. ClientFieldMap[key] \in Fields(r, "xml")
    BY <1>2, <2>1, ClientXml
  <2> QED
    BY <2>1, <2>2, <2>3
<1>3. CASE r = "addressees"
  <2>1. Bodies[r].accepts = Attributes(r) \cup AddresseeWriteOnly
    BY <1>3 DEF Bodies, AddresseeWrite
  <2>2. "id" \in Attributes(r)
    <3>1. Shapes[r] = Addressee
      BY <1>3 DEF Shapes
    <3>2. "id" \in Addressee.required
      BY DEF Addressee
    <3> QED
      BY <3>1, <3>2 DEF Attributes
  <2>3. Fields(r, "json") = Attributes(r)
    <3>1. r \notin DOMAIN Projections
      BY <1>3 DEF Projections
    <3> QED
      BY <3>1 DEF Fields, JsonFields
  <2>4. key \in Attributes(r) /\ key \in KeysOf(r, key) /\ key \in Fields(r, "json")
    BY <1>3, <2>1, <2>2, <2>3 DEF KeysOf
  <2> QED
    BY <2>4
<1> QED
  BY <1>1, <1>2, <1>3 DEF PlainBodies

\* What a body has to have is what it may have.
LEMMA RequiredAccepted ==
  ASSUME NEW r \in Writable
  PROVE  Bodies[r].requires \subseteq Bodies[r].accepts
<1>1. CASE r = "master_data_clients"
  BY <1>1 DEF Bodies, ClientWrite
<1>2. CASE r = "addressees"
  <2>1. Bodies[r].requires = {"type"}
        /\ Bodies[r].accepts = Attributes("addressees") \cup AddresseeWriteOnly
    BY <1>2 DEF Bodies, AddresseeWrite
  <2>2. Shapes["addressees"] = Addressee
    BY DEF Shapes
  <2>3. "type" \in Addressee.required
    BY DEF Addressee
  <2> QED
    BY <2>1, <2>2, <2>3 DEF Attributes
<1>3. CASE r \in PlainBodies
  <2>1. /\ Bodies["terms_of_payment"].requires = {"caption"}
        /\ Bodies["assets_stocktakings"].requires = {"asset_number", "inventory_number"}
        /\ Bodies["cost_sequences"].requires = {"id", "month"}
        /\ Bodies["cost_accounting_records"].requires = {"account_number", "date"}
        /\ Bodies["employees"].requires = {"name", "natural_person_id"}
        /\ \A q \in {"creditors", "debitors", "cost_centers", "cost_center_properties",
                     "various_addresses"} : Bodies[q].requires = {}
    BY DEF Bodies, SameFields, CreditorWrite, DebitorWrite, TermOfPaymentWrite,
           AssetStocktakingWrite, CostCenterWrite, CostCenterPropertyWrite, CostSequenceWrite,
           CostAccountingRecordWrite, VariousAddressWrite, EmployeeWrite
  <2>2. /\ "caption" \in TermOfPayment.required
        /\ {"asset_number", "inventory_number"} \subseteq AssetStocktaking.required
        /\ {"id", "month"} \subseteq CostSequence.required
        /\ {"account_number", "date"} \subseteq CostAccountingRecord.required
        /\ {"name", "natural_person_id"} \subseteq Employee.required
    BY DEF TermOfPayment, AssetStocktaking, CostSequence, CostAccountingRecord, Employee
  <2>3. /\ Shapes["terms_of_payment"] = TermOfPayment
        /\ Shapes["assets_stocktakings"] = AssetStocktaking
        /\ Shapes["cost_sequences"] = CostSequence
        /\ Shapes["cost_accounting_records"] = CostAccountingRecord
        /\ Shapes["employees"] = Employee
    BY DEF Shapes
  <2>4. Bodies[r].requires \subseteq Attributes(r)
    BY <1>3, <2>1, <2>2, <2>3, PlainBodiesAre DEF Attributes
  <2> QED
    BY <1>3, <2>4, PlainAccepts
<1> QED
  BY <1>1, <1>2, <1>3 DEF PlainBodies
-----------------------------------------------------------------------------
(***************************************************************************)
(* The GET request and what is stored.                                     *)
(***************************************************************************)

\* What _apply_expand_gate and record_to_dataclass take from a partner.
Gated(a) == resource \in Partners /\ a \in NilFields

\* What the version gate takes.
Rates(a) == resource = "cost_centers" /\ a = "cost_rates"

\* A list request has what Get gave it.
ListShape ==
  /\ get = [pc |-> get.pc, accept |-> get.accept, expand |-> get.expand,
            before |-> get.before, seen |-> get.seen, records |-> get.records]
  /\ get.accept \in {"json", "xml", "any"}
  /\ get.pc = "gate" => resource = "cost_centers"
  /\ IsFiniteSet(get.seen)
  /\ get.pc \in {"merge", "gate", "format"} => Now \in get.seen

\* What was stored when the GET began is stored still.
Kept ==
  /\ DOMAIN get.before \subseteq DOMAIN stored
  /\ \A i \in DOMAIN get.before : get.before[i] = stored[i]

\* The records are one per id, for the ids that RecordsMerged asks for.
IdsMerged ==
  /\ \A r, q \in get.records : r.id = q.id => r = q
  /\ GeneratedIds \cup DOMAIN get.before \subseteq {r.id : r \in get.records}
  /\ {r.id : r \in get.records} \subseteq GeneratedIds \cup DOMAIN stored

\* A record on its way to the answer: what the gates take is gone, and of a record
\* that was stored nothing else that was sent.
OnItsWay(r) ==
  /\ r = [id |-> r.id, fields |-> r.fields]
  /\ DOMAIN r.fields = Attributes(resource)
  /\ r.id \in DOMAIN get.before => \A a \in Attributes(resource) :
       /\ Gated(a) => r.fields[a] = "none"
       /\ ~ Gated(a) /\ ~ Rates(a) /\ KeysOf(resource, a) \cap get.before[r.id] # {} =>
            r.fields[a] = "sent"
  /\ ~ get.expand => \A a \in Attributes(resource) : Gated(a) => r.fields[a] = "none"

\* The version gate went by settings that were seen.
RatesGated ==
  resource = "cost_centers" => \E v \in get.seen \cap Values :
    v.version = "legacy" => \A r \in get.records : r.fields["cost_rates"] = "none"

ListOK ==
  /\ ListShape
  /\ get.pc \in {"gate", "format", "answered"} => IdsMerged
  /\ get.pc \in {"gate", "format"} => \A r \in get.records : OnItsWay(r)
  /\ get.pc = "format" => RatesGated
  /\ get.pc \in {"merge", "failed"} => get.records = {}

GetOK ==
  get # Idle =>
    /\ Kept
    /\ \/ get.pc \in {"merge", "gate", "format", "answered", "failed"} /\ ListOK
       \/ get.pc \in {"one", "404"}

\* The ids and the fields that are stored, and for which resources there are any.
StoreOK ==
  /\ DOMAIN stored \subseteq Ids
  /\ \A i \in DOMAIN stored :
       "id" \in stored[i] /\ stored[i] \subseteq Bodies[resource].accepts \cup {"id"}
  /\ DOMAIN stored # {} => resource \in Writable

Answers == RecordsMerged /\ SentIsShown /\ GatesHold /\ AnswerOfSettings

ReadInv == SInv /\ ReadTypeOK /\ StoreOK /\ GetOK /\ Answers
-----------------------------------------------------------------------------
(***************************************************************************)
(* The steps.                                                              *)
(***************************************************************************)

\* A GET that has not been answered yet promises nothing.
LEMMA NoAnswerYet ==
  ASSUME ~ Pending("answered"), ~ Pending("one"), ~ Pending("failed")
  PROVE  Answers
BY DEF Answers, RecordsMerged, SentIsShown, GatesHold, AnswerOfSettings

LEMMA ReadInitHolds == Init => ReadInv
<1> SUFFICES ASSUME Init PROVE ReadInv
  OBVIOUS
<1>1. SInv
  BY SettingsInitHolds DEF Init
<1>2. DOMAIN stored = {} /\ get = Idle /\ resource \in Listed
  BY DEF Init
<1>3. ReadTypeOK /\ StoreOK /\ GetOK
  BY <1>1, <1>2 DEF SInv, ReadTypeOK, StoreOK, GetOK
<1>4. Answers
  BY <1>2, NoAnswerYet DEF Pending
<1> QED
  BY <1>1, <1>3, <1>4 DEF ReadInv

\* A step that only adds to what is stored leaves the GET as sound as it was.
LEMMA StoreGrows ==
  ASSUME ReadInv, StoreOK', SettingsTypeOK', UNCHANGED <<resource, get>>,
         get.pc \in {"merge", "gate", "format"} => Now' = Now,
         DOMAIN stored \subseteq DOMAIN stored',
         \A i \in DOMAIN stored : stored'[i] = stored[i]
  PROVE  ReadTypeOK' /\ GetOK' /\ Answers'
<1>1. GeneratedIds' = GeneratedIds
  BY DEF GeneratedIds
<1>2. ReadTypeOK'
  BY DEF ReadInv, ReadTypeOK, StoreOK
<1>3. GetOK'
  <2>1. CASE get = Idle
    BY <2>1 DEF GetOK
  <2>2. CASE get # Idle
    <3>1. Kept'
      BY <2>2 DEF ReadInv, GetOK, Kept
    <3>2. IdsMerged => IdsMerged'
      BY <1>1 DEF IdsMerged
    <3>3. RatesGated => RatesGated'
      BY DEF RatesGated
    <3>4. \A r : OnItsWay(r) => OnItsWay(r)'
      BY DEF OnItsWay, Gated, Rates
    <3>5. ListShape => ListShape'
      BY DEF ListShape
    <3>6. ListOK => ListOK'
      BY <3>2, <3>3, <3>4, <3>5 DEF ListOK
    <3> QED
      BY <2>2, <3>1, <3>6 DEF ReadInv, GetOK
  <2> QED
    BY <2>1, <2>2
<1>4. RecordsMerged'
  <2> SUFFICES ASSUME Pending("answered") PROVE RecordsMerged'
    BY DEF RecordsMerged, Pending
  <2>1. RecordsMerged
    BY DEF ReadInv, Answers
  <2> QED
    BY <1>1, <2>1 DEF RecordsMerged
<1>5. SentIsShown' /\ GatesHold' /\ AnswerOfSettings'
  BY DEF ReadInv, Answers, SentIsShown, GatesHold, AnswerOfSettings, Pending, Withheld, NamesFormat
<1> QED
  BY <1>2, <1>3, <1>4, <1>5 DEF Answers

LEMMA NowFollows == UNCHANGED settingsVars => Now' = Now
BY DEF settingsVars, Now, Readable, Loaded

LEMMA WriteReads ==
  ASSUME ReadInv, SInv', resource \in Writable, NEW i \in Ids, NEW sent \in Sendable,
         Write(i, sent)
  PROVE  ReadInv'
<1>1. /\ i \notin DOMAIN stored /\ stored' = Stored(i, sent \cup {"id"})
      /\ UNCHANGED <<resource, get>> /\ Now' = Now
  BY NowFollows DEF Write
<1>2. /\ DOMAIN stored' = DOMAIN stored \cup {i}
      /\ stored'[i] = sent \cup {"id"}
      /\ \A j \in DOMAIN stored : stored'[j] = stored[j]
  BY <1>1 DEF Stored
<1>3. sent \subseteq Bodies[resource].accepts
  BY RequiredAccepted DEF Sendable
<1>4. StoreOK'
  BY <1>1, <1>2, <1>3 DEF ReadInv, StoreOK
<1>5. ReadTypeOK' /\ GetOK' /\ Answers'
  BY <1>1, <1>2, <1>4, StoreGrows DEF SInv
<1> QED
  BY <1>4, <1>5 DEF ReadInv

LEMMA GetReads ==
  ASSUME ReadInv, SInv', NEW accept \in {"json", "xml", "any"}, NEW expand \in BOOLEAN,
         Get(accept, expand)
  PROVE  ReadInv'
<1>1. /\ get' = [pc |-> "merge", accept |-> accept, expand |-> expand,
                 before |-> stored, seen |-> {Now}, records |-> {}]
      /\ UNCHANGED <<resource, stored>> /\ Now' = Now
  BY NowFollows DEF Get
<1>2. ReadTypeOK' /\ StoreOK'
  BY <1>1 DEF ReadInv, ReadTypeOK, StoreOK, SInv
<1>3. IsFiniteSet({Now})
  BY FS_Singleton
<1>4. ListShape'
  BY <1>1, <1>3 DEF ListShape
<1>5. ListOK' /\ Kept'
  BY <1>1, <1>4 DEF ListOK, Kept
<1>6. GetOK'
  BY <1>1, <1>5 DEF GetOK
<1>7. Answers'
  BY <1>1 DEF Answers, RecordsMerged, SentIsShown, GatesHold, AnswerOfSettings, Pending
<1> QED
  BY <1>2, <1>6, <1>7 DEF ReadInv

\* What a GET makes of the record of an id, and what it leaves after the expand gate.
Raw(i) ==
  [id |-> i, fields |-> IF i \in DOMAIN stored THEN RecordToDataclass(resource, stored[i])
                        ELSE GeneratedRecord(resource)]

Merged(i) ==
  IF resource \in Partners /\ ~ get.expand THEN Without(Raw(i), NilFields) ELSE Raw(i)

LEMMA MergedRecords ==
  ApplyExpandGate(MergeWithStored) = {Merged(i) : i \in GeneratedIds \cup DOMAIN stored}
<1>1. MergeWithStored = {Raw(i) : i \in GeneratedIds \cup DOMAIN stored}
  <2>1. \A i \in GeneratedIds \ DOMAIN stored :
          Raw(i) = [id |-> i, fields |-> GeneratedRecord(resource)]
    BY DEF Raw
  <2>2. \A i \in DOMAIN stored :
          Raw(i) = [id |-> i, fields |-> RecordToDataclass(resource, stored[i])]
    BY DEF Raw
  <2> HIDE DEF Raw
  <2> QED
    BY <2>1, <2>2 DEF MergeWithStored, StoredInstances
<1>2. CASE resource \in Partners /\ ~ get.expand
  BY <1>1, <1>2 DEF ApplyExpandGate, Merged
<1>3. CASE ~ (resource \in Partners /\ ~ get.expand)
  BY <1>1, <1>3 DEF ApplyExpandGate, Merged
<1> QED
  BY <1>2, <1>3

LEMMA RawFields ==
  ASSUME NEW i
  PROVE  /\ Raw(i) = [id |-> i, fields |-> Raw(i).fields]
         /\ DOMAIN Raw(i).fields = Attributes(resource)
         /\ i \in DOMAIN stored => \A a \in Attributes(resource) :
              /\ Gated(a) => Raw(i).fields[a] = "none"
              /\ ~ Gated(a) /\ KeysOf(resource, a) \cap stored[i] # {} =>
                   Raw(i).fields[a] = "sent"
<1>1. Raw(i) = [id |-> i, fields |-> Raw(i).fields]
  BY DEF Raw
<1>2. i \in DOMAIN stored => Raw(i).fields = RecordToDataclass(resource, stored[i])
  BY DEF Raw
<1>3. i \notin DOMAIN stored => Raw(i).fields = GeneratedRecord(resource)
  BY DEF Raw
<1> HIDE DEF Raw
<1>4. DOMAIN Raw(i).fields = Attributes(resource)
  BY <1>2, <1>3 DEF RecordToDataclass, GeneratedRecord
<1>5. ASSUME i \in DOMAIN stored, NEW a \in Attributes(resource)
      PROVE  Raw(i).fields[a] =
               IF resource \in Partners /\ a \in NilFields THEN "none"
               ELSE IF KeysOf(resource, a) \cap stored[i] # {} THEN "sent"
               ELSE IF a \in Shapes[resource].optional THEN "none" ELSE "default"
  BY <1>2, <1>5 DEF RecordToDataclass
<1> QED
  BY <1>1, <1>4, <1>5 DEF Gated

LEMMA WithoutFields ==
  ASSUME NEW r, r = [id |-> r.id, fields |-> r.fields], NEW F
  PROVE  /\ Without(r, F) = [id |-> r.id, fields |-> Without(r, F).fields]
         /\ DOMAIN Without(r, F).fields = DOMAIN r.fields
         /\ \A a \in DOMAIN r.fields :
              Without(r, F).fields[a] = IF a \in F THEN "none" ELSE r.fields[a]
<1> DEFINE f == [a \in DOMAIN r.fields |-> IF a \in F THEN "none" ELSE r.fields[a]]
<1>1. Without(r, F) = [r EXCEPT !.fields = f]
  BY DEF Without
<1> HIDE DEF f
<1>2. Without(r, F) = [id |-> r.id, fields |-> f]
  BY <1>1
<1>3. Without(r, F).fields = f
  BY <1>2
<1>4. DOMAIN f = DOMAIN r.fields
      /\ \A a \in DOMAIN r.fields : f[a] = IF a \in F THEN "none" ELSE r.fields[a]
  BY DEF f
<1> QED
  BY <1>2, <1>3, <1>4

LEMMA MergedFields ==
  ASSUME NEW i
  PROVE  /\ Merged(i) = [id |-> i, fields |-> Merged(i).fields]
         /\ DOMAIN Merged(i).fields = Attributes(resource)
         /\ i \in DOMAIN stored => \A a \in Attributes(resource) :
              /\ Gated(a) => Merged(i).fields[a] = "none"
              /\ ~ Gated(a) /\ KeysOf(resource, a) \cap stored[i] # {} =>
                   Merged(i).fields[a] = "sent"
         /\ ~ get.expand => \A a \in Attributes(resource) :
              Gated(a) => Merged(i).fields[a] = "none"
<1>1. CASE resource \in Partners /\ ~ get.expand
  <2>1. Merged(i) = Without(Raw(i), NilFields) /\ Raw(i).id = i
    BY <1>1, RawFields DEF Merged
  <2>2. /\ Merged(i) = [id |-> i, fields |-> Merged(i).fields]
        /\ DOMAIN Merged(i).fields = Attributes(resource)
        /\ \A a \in Attributes(resource) :
             Merged(i).fields[a] = IF a \in NilFields THEN "none" ELSE Raw(i).fields[a]
    <3> HIDE DEF Raw, Merged
    <3>1. Raw(i) = [id |-> Raw(i).id, fields |-> Raw(i).fields]
      BY <2>1, RawFields
    <3>2. /\ Without(Raw(i), NilFields) =
               [id |-> Raw(i).id, fields |-> Without(Raw(i), NilFields).fields]
          /\ DOMAIN Without(Raw(i), NilFields).fields = DOMAIN Raw(i).fields
          /\ \A a \in DOMAIN Raw(i).fields :
               Without(Raw(i), NilFields).fields[a] =
                 IF a \in NilFields THEN "none" ELSE Raw(i).fields[a]
      BY <3>1, WithoutFields
    <3>3. DOMAIN Raw(i).fields = Attributes(resource)
      BY RawFields
    <3> QED
      BY <2>1, <3>2, <3>3
  <2> QED
    BY <1>1, <2>2, RawFields DEF Gated
<1>2. CASE ~ (resource \in Partners /\ ~ get.expand)
  <2>1. Merged(i) = Raw(i)
    BY <1>2 DEF Merged
  <2> QED
    BY <1>2, <2>1, RawFields DEF Gated
<1> QED
  BY <1>1, <1>2

LEMMA MergeReads ==
  ASSUME ReadInv, SInv', Merge
  PROVE  ReadInv'
<1> DEFINE next == IF resource = "cost_centers" THEN "gate" ELSE "format"
           all == ApplyExpandGate(MergeWithStored)
<1>1. get # Idle /\ get.pc = "merge" /\ UNCHANGED <<resource, stored>> /\ Now' = Now
  BY NowFollows DEF Merge, Pending
<1>2. ListOK /\ Kept /\ ListShape
  BY <1>1 DEF ReadInv, GetOK, ListOK
<1>3. get' = [get EXCEPT !.pc = next, !.records = all]
  BY DEF Merge
<1>4. all = {Merged(i) : i \in GeneratedIds \cup DOMAIN stored}
  BY MergedRecords
<1>5. \A i \in GeneratedIds \cup DOMAIN stored : Merged(i).id = i
  BY MergedFields
<1>6. next \in {"gate", "format"} /\ (next = "gate" <=> resource = "cost_centers")
  OBVIOUS
<1> HIDE DEF next, all, Merged
<1>7. get' = [pc |-> next, accept |-> get.accept, expand |-> get.expand,
              before |-> get.before, seen |-> get.seen, records |-> all]
  BY <1>2, <1>3 DEF ListShape
<1>8. ListShape' /\ Kept'
  BY <1>1, <1>2, <1>6, <1>7 DEF ListShape, Kept
<1>9. /\ get'.records = all /\ get'.before = get.before /\ get'.expand = get.expand
      /\ get'.pc = next
  BY <1>7
<1>10. GeneratedIds' = GeneratedIds
  BY <1>1 DEF GeneratedIds
<1>11. IdsMerged'
  <2>1. {r.id : r \in all} = GeneratedIds \cup DOMAIN stored
    BY <1>4, <1>5
  <2>2. \A r, q \in all : r.id = q.id => r = q
    BY <1>4, <1>5
  <2> QED
    BY <1>1, <1>2, <1>9, <1>10, <2>1, <2>2 DEF IdsMerged, Kept
<1>12. ASSUME NEW r \in all PROVE OnItsWay(r)'
  <2>1. PICK i \in GeneratedIds \cup DOMAIN stored : r = Merged(i)
    BY <1>4
  <2>2. r.id = i /\ (i \in DOMAIN get.before => i \in DOMAIN stored /\ get.before[i] = stored[i])
    BY <1>2, <1>5, <2>1 DEF Kept
  <2>3. /\ r = [id |-> i, fields |-> r.fields]
        /\ DOMAIN r.fields = Attributes(resource)
        /\ i \in DOMAIN stored => \A a \in Attributes(resource) :
             /\ Gated(a) => r.fields[a] = "none"
             /\ ~ Gated(a) /\ KeysOf(resource, a) \cap stored[i] # {} => r.fields[a] = "sent"
        /\ ~ get.expand => \A a \in Attributes(resource) : Gated(a) => r.fields[a] = "none"
    BY <2>1, MergedFields
  <2>4. \A a : Gated(a)' = Gated(a) /\ Rates(a)' = Rates(a)
    BY <1>1 DEF Gated, Rates
  <2> QED
    BY <1>1, <1>9, <2>2, <2>3, <2>4 DEF OnItsWay
<1>13. RatesGated' \/ next # "format"
  BY <1>1, <1>6 DEF RatesGated
<1>14. GetOK'
  BY <1>6, <1>8, <1>9, <1>11, <1>12, <1>13 DEF GetOK, ListOK
<1>15. ReadTypeOK' /\ StoreOK'
  <2>1. \A r \in all : r.id \in Generated \cup Ids
    BY <1>4, <1>5 DEF GeneratedIds, ReadInv, StoreOK
  <2> QED
    BY <1>1, <1>6, <1>9, <2>1 DEF ReadInv, ReadTypeOK, StoreOK, SInv
<1>16. Answers'
  BY <1>6, <1>9 DEF Answers, RecordsMerged, SentIsShown, GatesHold, AnswerOfSettings, Pending
<1> QED
  BY <1>14, <1>15, <1>16 DEF ReadInv

LEMMA SettingsLoaded ==
  ASSUME SInv, Readable
  PROVE  Loaded \in Values /\ Now = Loaded /\ Now # Unreadable
BY SettingsAssumption, ReadAssumption, MarkerAssumption
   DEF SInv, SettingsTypeOK, Readable, Loaded, Now

\* A GET that meets a file that cannot be read.
LEMMA FailReads ==
  ASSUME ReadInv, SInv', Pending("gate") \/ (Pending("format") /\ ~ NamesFormat), ~ Readable, Fail,
         UNCHANGED <<settingsVars, resource, stored>>
  PROVE  ReadInv'
<1>1. get # Idle /\ get.pc \in {"gate", "format"}
  BY DEF Pending
<1>2. ListOK /\ Kept /\ ListShape
  BY <1>1 DEF ReadInv, GetOK, ListOK
<1>3. get' = [pc |-> "failed", accept |-> get.accept, expand |-> get.expand,
              before |-> get.before, seen |-> get.seen, records |-> {}]
  BY <1>2 DEF Fail, ListShape
<1>4. ListShape' /\ Kept'
  BY <1>1, <1>2, <1>3 DEF ListShape, Kept
<1>5. GetOK'
  BY <1>3, <1>4 DEF GetOK, ListOK
<1>6. ReadTypeOK' /\ StoreOK'
  BY <1>3 DEF ReadInv, ReadTypeOK, StoreOK, SInv
<1>7. Unreadable \in get.seen
  BY <1>1, <1>2 DEF ListShape, Now
<1>8. resource = "cost_centers" \/ ~ NamesFormat
  BY <1>2 DEF Pending, ListShape
<1>9. NamesFormat' = NamesFormat
  BY <1>3 DEF NamesFormat
<1>10. Answers'
  BY <1>3, <1>7, <1>8, <1>9
     DEF Answers, RecordsMerged, SentIsShown, GatesHold, AnswerOfSettings, Pending
<1> QED
  BY <1>5, <1>6, <1>10 DEF ReadInv

LEMMA VersionGateReads ==
  ASSUME ReadInv, SInv', VersionGate
  PROVE  ReadInv'
<1> DEFINE legacy == Loaded.version = "legacy"
           rated(r) == IF legacy THEN Without(r, {"cost_rates"}) ELSE r
           all == {rated(r) : r \in get.records}
<1>1. /\ Pending("gate") /\ get # Idle /\ get.pc = "gate"
      /\ UNCHANGED <<settingsVars, resource, stored>> /\ Now' = Now
  BY NowFollows DEF VersionGate, Pending
<1>2. ListOK /\ Kept /\ ListShape /\ IdsMerged /\ resource = "cost_centers"
  BY <1>1 DEF ReadInv, GetOK, ListOK, ListShape
<1>3. CASE ~ Readable
  BY <1>1, <1>3, FailReads DEF VersionGate
<1>4. CASE Readable
  <2>1. get' = [get EXCEPT !.pc = "format", !.records =
                  IF legacy THEN {Without(r, {"cost_rates"}) : r \in @} ELSE @]
    BY <1>4 DEF VersionGate
  <2>2. all = IF legacy THEN {Without(r, {"cost_rates"}) : r \in get.records} ELSE get.records
    OBVIOUS
  <2>3. ASSUME NEW r \in get.records
        PROVE  /\ rated(r) = [id |-> r.id, fields |-> rated(r).fields]
               /\ DOMAIN rated(r).fields = DOMAIN r.fields
               /\ \A a \in DOMAIN r.fields \ {"cost_rates"} : rated(r).fields[a] = r.fields[a]
               /\ legacy /\ "cost_rates" \in DOMAIN r.fields =>
                    rated(r).fields["cost_rates"] = "none"
    <3>1. OnItsWay(r) /\ r = [id |-> r.id, fields |-> r.fields]
      BY <1>1, <1>2 DEF ListOK, OnItsWay
    <3> HIDE DEF legacy
    <3>2. CASE legacy
      <4>1. rated(r) = Without(r, {"cost_rates"})
        BY <3>2
      <4> HIDE DEF rated
      <4> QED
        BY <3>1, <4>1, WithoutFields
    <3>3. CASE ~ legacy
      BY <3>1, <3>3
    <3> QED
      BY <3>2, <3>3
  <2> HIDE DEF legacy, rated
  <2>4. \A r \in get.records : rated(r).id = r.id
    BY <2>3
  <2>5. get' = [pc |-> "format", accept |-> get.accept, expand |-> get.expand,
                before |-> get.before, seen |-> get.seen, records |-> all]
    <3> HIDE DEF all
    <3> QED
      BY <1>2, <2>1, <2>2 DEF ListShape
  <2>6. /\ get'.records = all /\ get'.before = get.before /\ get'.expand = get.expand
        /\ get'.pc = "format" /\ get'.seen = get.seen
    BY <2>5
  <2>7. ListShape' /\ Kept'
    <3> HIDE DEF all
    <3> QED
      BY <1>1, <1>2, <2>5 DEF ListShape, Kept
  <2>8. IdsMerged'
    <3>1. {r.id : r \in all} = {r.id : r \in get.records}
      BY <2>4
    <3>2. \A r, q \in all : r.id = q.id => r = q
      BY <1>2, <2>4 DEF IdsMerged
    <3>3. GeneratedIds' = GeneratedIds
      BY <1>1 DEF GeneratedIds
    <3> QED
      BY <1>1, <1>2, <2>6, <3>1, <3>2, <3>3 DEF IdsMerged
  <2>9. ASSUME NEW q \in all PROVE OnItsWay(q)'
    <3>1. PICK r \in get.records : q = rated(r)
      OBVIOUS
    <3>2. OnItsWay(r) /\ q.id = r.id /\ DOMAIN q.fields = DOMAIN r.fields
      BY <1>1, <1>2, <2>4, <2>3, <3>1 DEF ListOK
    <3>3. \A a : ~ Gated(a) /\ ~ Gated(a)' /\ (Rates(a)' <=> a = "cost_rates")
                 /\ (Rates(a) <=> a = "cost_rates")
      BY <1>1, <1>2 DEF Gated, Rates, Partners
    <3>4. q = [id |-> q.id, fields |-> q.fields]
      BY <2>3, <3>1
    <3>5. \A a \in Attributes(resource) \ {"cost_rates"} : q.fields[a] = r.fields[a]
      BY <2>3, <3>1, <3>2 DEF OnItsWay
    <3> QED
      BY <1>1, <2>6, <3>2, <3>3, <3>4, <3>5 DEF OnItsWay
  <2>10. RatesGated'
    <3>1. Loaded \in get'.seen \cap Values
      BY <2>6, <1>1, <1>2, <1>4, SettingsLoaded DEF ReadInv, ListShape
    <3>2. ASSUME legacy, NEW q \in all PROVE q.fields["cost_rates"] = "none"
      <4>1. PICK r \in get.records : q = rated(r)
        OBVIOUS
      <4>2. "cost_rates" \in DOMAIN r.fields
        BY <1>1, <1>2, RatesAreAField DEF ListOK, OnItsWay
      <4> QED
        BY <2>3, <3>2, <4>1, <4>2
    <3>3. legacy => \A q \in get'.records : q.fields["cost_rates"] = "none"
      BY <2>6, <3>2
    <3>4. \E v \in get'.seen \cap Values :
            v.version = "legacy" => \A q \in get'.records : q.fields["cost_rates"] = "none"
      <4> WITNESS Loaded \in get'.seen \cap Values
      <4> QED
        BY <3>3 DEF legacy
    <3> QED
      BY <3>4 DEF RatesGated
  <2> HIDE DEF all
  <2>11. GetOK'
    BY <2>6, <2>7, <2>8, <2>9, <2>10 DEF GetOK, ListOK
  <2>12. ReadTypeOK' /\ StoreOK'
    <3>1. \A q \in all : q.id \in Generated \cup Ids
      BY <1>1, <2>4 DEF all, ReadInv, ReadTypeOK
    <3> QED
      BY <1>1, <2>6, <3>1 DEF ReadInv, ReadTypeOK, StoreOK, SInv
  <2>13. Answers'
    BY <2>6 DEF Answers, RecordsMerged, SentIsShown, GatesHold, AnswerOfSettings, Pending
  <2> QED
    BY <2>11, <2>12, <2>13 DEF ReadInv
<1> QED
  BY <1>3, <1>4

\* The answer: what SentIsShown, GatesHold and the others ask of it follows from
\* what was on its way.
LEMMA RenderReads ==
  ASSUME ReadInv, SInv', Pending("format"), NEW f \in {"json", "xml"}, Render(f),
         NamesFormat => f = IF resource \in JsonOnly THEN "json" ELSE get.accept,
         ~ NamesFormat => Readable /\ f = Loaded.format,
         UNCHANGED <<settingsVars, resource, stored>>
  PROVE  ReadInv'
<1> DEFINE shown(r) == [id |-> r.id, format |-> f, shown |-> Shown(resource, f, r.fields)]
           all == {shown(r) : r \in get.records}
<1>1. get # Idle /\ get.pc = "format" /\ Now' = Now
  BY NowFollows DEF Pending
<1>2. /\ ListOK /\ Kept /\ ListShape /\ IdsMerged /\ RatesGated
      /\ \A r \in get.records : OnItsWay(r)
  BY <1>1 DEF ReadInv, GetOK, ListOK
<1>3. get' = [get EXCEPT !.pc = "answered", !.records = all]
  BY DEF Render
<1>4. \A r \in get.records : shown(r).id = r.id /\ shown(r).format = f
                             /\ shown(r).shown = Shown(resource, f, r.fields)
  OBVIOUS
<1> HIDE DEF shown
<1>5. \A q \in all : \E r \in get.records : q = shown(r)
  OBVIOUS
<1>6. {r.id : r \in all} = {r.id : r \in get.records}
  BY <1>4
<1>7. \A r, q \in all : r.id = q.id => r = q
  BY <1>2, <1>4 DEF IdsMerged
<1> HIDE DEF all
<1>8. get' = [pc |-> "answered", accept |-> get.accept, expand |-> get.expand,
              before |-> get.before, seen |-> get.seen, records |-> all]
  BY <1>2, <1>3 DEF ListShape
<1>9. /\ get'.records = all /\ get'.before = get.before /\ get'.expand = get.expand
      /\ get'.pc = "answered" /\ get'.seen = get.seen /\ get'.accept = get.accept
  BY <1>8
<1>10. ListShape' /\ Kept'
  BY <1>1, <1>2, <1>8 DEF ListShape, Kept
<1>11. IdsMerged'
  <2>1. GeneratedIds' = GeneratedIds
    BY DEF GeneratedIds
  <2> QED
    BY <1>2, <1>6, <1>7, <1>9, <2>1 DEF IdsMerged
<1>12. GetOK'
  BY <1>9, <1>10, <1>11 DEF GetOK, ListOK
<1>13. ReadTypeOK' /\ StoreOK'
  <2>1. \A q \in all : q.id \in Generated \cup Ids
    BY <1>1, <1>4, <1>5 DEF ReadInv, ReadTypeOK
  <2> QED
    BY <1>1, <1>9, <2>1 DEF ReadInv, ReadTypeOK, StoreOK, SInv
<1>14. RecordsMerged'
  BY <1>11 DEF RecordsMerged, IdsMerged
<1>15. SentIsShown'
  <2>1. SUFFICES ASSUME NEW q \in all, q.id \in DOMAIN get.before,
                        NEW key \in get.before[q.id] \ Withheld
                 PROVE  \E a \in Attributes(resource), format \in {"json", "xml"} :
                          /\ key \in KeysOf(resource, a)
                          /\ a \in Fields(resource, format)
                          /\ format = q.format => a \in q.shown
    <3>1. Withheld' = Withheld
      BY DEF Withheld
    <3> QED
      BY <1>9, <3>1 DEF SentIsShown, Pending
  <2>2. PICK r \in get.records : q = shown(r)
    BY <1>5
  <2>3. /\ q.id = r.id /\ q.format = f /\ q.shown = Shown(resource, f, r.fields)
        /\ OnItsWay(r)
    BY <1>2, <1>4, <2>2
  <2>4. resource \in Writable /\ key \in Bodies[resource].accepts \cup {"id"}
    BY <1>2, <2>1 DEF ReadInv, StoreOK, Kept
  <2>5. resource = "addressees" => key \notin AddresseeWriteOnly
    BY <2>1 DEF Withheld, Partners
  <2>6. PICK a \in Attributes(resource), format \in {"json", "xml"} :
          key \in KeysOf(resource, a) /\ a \in Fields(resource, format)
    BY <2>4, <2>5, SentHasAField
  <2>7. ~ Gated(a)
    <3> SUFFICES ASSUME Gated(a) PROVE FALSE
      OBVIOUS
    <3>1. resource \in Partners /\ a \in NilFields
      BY DEF Gated
    <3>2. key = a
      BY <2>6, <3>1, OwnKeys DEF Partners
    <3>3. Withheld = Shapes[resource].nested
      BY <3>1 DEF Withheld, Partners
    <3>4. Withheld = NilFields
      BY <3>1, <3>3, PartnerNested
    <3> QED
      BY <2>1, <3>1, <3>2, <3>4
  <2>8. ~ Rates(a)
    <3> SUFFICES ASSUME Rates(a) PROVE FALSE
      OBVIOUS
    <3>1. key = a /\ a = "cost_rates" /\ resource = "cost_centers"
      BY <2>6, OwnKeys DEF Rates
    <3>2. Withheld = {"cost_rates"}
      BY <3>1 DEF Withheld, Partners
    <3> QED
      BY <2>1, <3>1, <3>2
  <2>9. r.fields[a] = "sent"
    BY <2>1, <2>3, <2>6, <2>7, <2>8 DEF OnItsWay
  <2>10. a \in Fields(resource, f) => a \in q.shown
    BY <2>3, <2>9 DEF Shown
  <2> QED
    BY <2>3, <2>6, <2>10
<1>16. GatesHold'
  <2>1. SUFFICES ASSUME NEW q \in all
                 PROVE  /\ resource \in Partners /\ q.shown \cap Shapes[resource].nested # {} =>
                             get.expand /\ q.id \notin DOMAIN get.before
                        /\ resource = "cost_centers" /\ "cost_rates" \in q.shown =>
                             \E v \in get.seen : v # Unreadable /\ v.version = "modern"
    BY <1>9 DEF GatesHold, Pending
  <2>2. PICK r \in get.records : q = shown(r)
    BY <1>5
  <2>3. q.id = r.id /\ q.shown = Shown(resource, f, r.fields) /\ OnItsWay(r)
    BY <1>2, <1>4, <2>2
  <2>4. ASSUME resource \in Partners, q.shown \cap Shapes[resource].nested # {}
        PROVE  get.expand /\ q.id \notin DOMAIN get.before
    <3>1. PICK a \in NilFields : a \in q.shown /\ a \in Attributes(resource)
      BY <2>4, PartnerNested
    <3>2. r.fields[a] # "none" /\ Gated(a)
      BY <2>3, <2>4, <3>1 DEF Shown, Gated
    <3> QED
      BY <2>3, <3>1, <3>2 DEF OnItsWay
  <2>5. ASSUME resource = "cost_centers", "cost_rates" \in q.shown
        PROVE  \E v \in get.seen : v # Unreadable /\ v.version = "modern"
    <3>1. r.fields["cost_rates"] # "none"
      BY <2>3, <2>5 DEF Shown
    <3>2. PICK v \in get.seen \cap Values : v.version # "legacy"
      BY <1>2, <2>5, <3>1 DEF RatesGated
    <3> QED
      BY <3>2, SettingsAssumption, ReadAssumption
  <2> QED
    BY <2>4, <2>5
<1>17. AnswerOfSettings'
  <2>1. NamesFormat' = NamesFormat
    BY <1>9 DEF NamesFormat
  <2>2. \A q \in all : q.format = f
    BY <1>4, <1>5
  <2>3. ASSUME ~ NamesFormat
        PROVE  \E v \in get.seen \ {Unreadable} : \A q \in all :
                 /\ q.format = v.format
                 /\ Cardinality(get.seen) = 1 /\ resource = "cost_centers" /\ q.format = "json" =>
                      (v.version = "modern" \/ "cost_rates" \notin q.shown)
    <3>1. f = Loaded.format /\ Loaded \in Values /\ Loaded \in get.seen \ {Unreadable}
      BY <1>1, <1>2, <2>3, SettingsLoaded DEF ReadInv, ListShape
    <3>2. ASSUME Cardinality(get.seen) = 1, resource = "cost_centers", NEW q \in all
          PROVE  Loaded.version = "modern" \/ "cost_rates" \notin q.shown
      <4>1. PICK x : get.seen = {x}
        BY <1>2, <3>2, FS_Singleton DEF ListShape
      <4>2. Loaded.version = "legacy" => \A r \in get.records : r.fields["cost_rates"] = "none"
        BY <1>2, <3>1, <3>2, <4>1 DEF RatesGated
      <4>3. PICK r \in get.records : q = shown(r)
        BY <1>5, <3>2
      <4>4. q.shown = Shown(resource, f, r.fields)
        BY <1>4, <4>3
      <4>5. Loaded.version \in {"legacy", "modern"}
        BY <3>1, SettingsAssumption
      <4>6. "cost_rates" \in q.shown => r.fields["cost_rates"] # "none"
        BY <4>4 DEF Shown
      <4> QED
        BY <4>2, <4>3, <4>5, <4>6
    <3>3. \A q \in all :
            /\ q.format = Loaded.format
            /\ Cardinality(get.seen) = 1 /\ resource = "cost_centers" /\ q.format = "json" =>
                 (Loaded.version = "modern" \/ "cost_rates" \notin q.shown)
      BY <2>2, <3>1, <3>2
    <3> QED
      BY <3>1, <3>3
  <2>4. resource' = resource
    OBVIOUS
  <2>5. NamesFormat =>
          \A q \in all : q.format = IF resource \in JsonOnly THEN "json" ELSE get.accept
    BY <2>2
  <2>6. ASSUME Pending("answered")', NamesFormat'
        PROVE  \A q \in get'.records :
                 q.format = IF resource' \in JsonOnly THEN "json" ELSE get'.accept
    BY <1>9, <2>1, <2>4, <2>5, <2>6
  <2>7. ASSUME Pending("answered")', ~ NamesFormat'
        PROVE  \E v \in get'.seen \ {Unreadable} : \A q \in get'.records :
                 /\ q.format = v.format
                 /\ Cardinality(get'.seen) = 1 /\ resource' = "cost_centers" /\ q.format = "json" =>
                      (v.version = "modern" \/ "cost_rates" \notin q.shown)
    BY <1>9, <2>1, <2>3, <2>4, <2>7
  <2>8. ~ Pending("failed")'
    BY <1>9 DEF Pending
  <2> QED
    BY <2>6, <2>7, <2>8, Zenon DEF AnswerOfSettings
<1> QED
  BY <1>12, <1>13, <1>14, <1>15, <1>16, <1>17 DEF ReadInv, Answers

LEMMA NegotiateReads ==
  ASSUME ReadInv, SInv', Negotiate
  PROVE  ReadInv'
<1>1. Pending("format") /\ UNCHANGED <<settingsVars, resource, stored>>
  BY DEF Negotiate
<1>2. CASE NamesFormat
  <2> DEFINE f == IF resource \in JsonOnly THEN "json" ELSE get.accept
  <2>1. Render(f) /\ f \in {"json", "xml"}
    BY <1>2 DEF Negotiate, NamesFormat
  <2> HIDE DEF f
  <2>2. NamesFormat => f = IF resource \in JsonOnly THEN "json" ELSE get.accept
    BY DEF f
  <2> QED
    BY <1>1, <1>2, <2>1, <2>2, RenderReads
<1>3. CASE ~ NamesFormat /\ ~ Readable
  BY <1>1, <1>3, FailReads DEF Negotiate
<1>4. CASE ~ NamesFormat /\ Readable
  <2>1. Render(Loaded.format) /\ Loaded.format \in {"json", "xml"}
    BY <1>4, SettingsLoaded, SettingsAssumption DEF Negotiate, ReadInv
  <2> QED
    BY <1>1, <1>4, <2>1, RenderReads
<1> QED
  BY <1>2, <1>3, <1>4

LEMMA GetByIdReads ==
  ASSUME ReadInv, SInv', NEW i, GetById(i)
  PROVE  ReadInv'
<1> DEFINE asStored == resource = "addressees"
           shown == IF i \notin DOMAIN stored
                    THEN Shown(resource, "json", GeneratedRecord(resource))
                    ELSE IF asStored THEN stored[i]
                    ELSE Shown(resource, "json", RecordToDataclass(resource, stored[i]))
           found == i \in GeneratedIds \cup DOMAIN stored
           pc == IF found THEN "one" ELSE "404"
           records == IF found THEN {[id |-> i, shown |-> shown]} ELSE {}
<1>1. /\ resource \in {"addressees", "employees"}
      /\ UNCHANGED <<settingsVars, resource, stored>> /\ Now' = Now
  BY NowFollows DEF GetById
<1>2. get' = [pc |-> pc, before |-> stored, records |-> records]
  BY DEF GetById
<1>3. pc \in {"one", "404"}
  OBVIOUS
<1>4. \A r \in records : found /\ r.id = i /\ r.shown = shown
  OBVIOUS
<1> HIDE DEF records, pc
<1>5. get'.pc = pc /\ get'.before = stored /\ get'.records = records
  BY <1>2
<1>6. ReadTypeOK' /\ StoreOK'
  <2>1. \A r \in records : r.id \in Generated \cup Ids
    BY <1>4 DEF GeneratedIds, ReadInv, StoreOK
  <2> QED
    BY <1>1, <1>3, <1>5, <2>1 DEF ReadInv, ReadTypeOK, StoreOK, SInv
<1>7. GetOK'
  BY <1>1, <1>3, <1>5 DEF GetOK, Kept
<1>8. i \in DOMAIN stored => stored[i] \subseteq shown
  <2> SUFFICES ASSUME i \in DOMAIN stored, resource = "employees", NEW key \in stored[i]
               PROVE  key \in shown
    BY <1>1
  <2>1. resource \in PlainBodies /\ key \in Attributes(resource)
    BY PlainBodiesAre, PlainAccepts, PlainIds DEF ReadInv, StoreOK
  <2>2. RecordToDataclass(resource, stored[i])[key] = "sent"
    BY <2>1, OwnKeys DEF RecordToDataclass, Partners
  <2>3. key \in Fields(resource, "json")
    BY <2>1, PlainJson
  <2>4. key \in Shown(resource, "json", RecordToDataclass(resource, stored[i]))
    BY <2>2, <2>3 DEF Shown
  <2> QED
    BY <2>4
<1> HIDE DEF shown
<1>9. SentIsShown'
  BY <1>3, <1>4, <1>5, <1>8 DEF SentIsShown, Pending
<1>10. RecordsMerged' /\ GatesHold' /\ AnswerOfSettings'
  BY <1>3, <1>5 DEF RecordsMerged, GatesHold, AnswerOfSettings, Pending
<1> QED
  BY <1>6, <1>7, <1>9, <1>10 DEF ReadInv, Answers

\* Settings that change during a GET are among those it may have seen.
LEMMA SettingsStepReads ==
  ASSUME ReadInv, SInv', Observe, UNCHANGED <<resource, stored>>
  PROVE  ReadInv'
<1>1. StoreOK' /\ SettingsTypeOK'
  BY DEF ReadInv, StoreOK, SInv
<1>2. CASE ~ \E pc \in {"merge", "gate", "format"} : Pending(pc)
  <2>1. get' = get
    BY <1>2 DEF Observe
  <2>2. CASE get = Idle
    <3>1. ReadTypeOK' /\ GetOK'
      BY <1>1, <2>1, <2>2 DEF ReadInv, ReadTypeOK, GetOK
    <3>2. Answers'
      BY <2>1, <2>2 DEF Answers, RecordsMerged, SentIsShown, GatesHold, AnswerOfSettings, Pending
    <3> QED
      BY <1>1, <3>1, <3>2 DEF ReadInv
  <2>3. CASE get.pc \notin {"merge", "gate", "format"}
    <3>1. ReadTypeOK' /\ GetOK' /\ Answers'
      BY <1>1, <2>1, <2>3, StoreGrows
    <3> QED
      BY <1>1, <3>1 DEF ReadInv
  <2> QED
    BY <1>2, <2>2, <2>3 DEF Pending
<1>3. CASE \E pc \in {"merge", "gate", "format"} : Pending(pc)
  <2>1. get # Idle /\ get.pc \in {"merge", "gate", "format"}
    BY <1>3 DEF Pending
  <2>2. ListOK /\ Kept /\ ListShape
    BY <2>1 DEF ReadInv, GetOK, ListOK
  <2>3. get' = [get EXCEPT !.seen = @ \cup {Now'}]
    BY <1>3 DEF Observe
  <2>4. get' = [pc |-> get.pc, accept |-> get.accept, expand |-> get.expand, before |-> get.before,
                seen |-> get.seen \cup {Now'}, records |-> get.records]
    BY <2>2, <2>3 DEF ListShape
  <2>5. /\ get'.pc = get.pc /\ get'.records = get.records /\ get'.before = get.before
        /\ get'.expand = get.expand /\ get'.seen = get.seen \cup {Now'}
    BY <2>4
  <2>6. IsFiniteSet(get.seen \cup {Now'})
    BY <2>2, FS_AddElement DEF ListShape
  <2>7. ListShape' /\ Kept'
    BY <2>2, <2>4, <2>6 DEF ListShape, Kept
  <2>8. IdsMerged => IdsMerged'
    BY <2>5 DEF IdsMerged, GeneratedIds
  <2>9. \A r : OnItsWay(r) => OnItsWay(r)'
    BY <2>5 DEF OnItsWay, Gated, Rates
  <2>10. RatesGated => RatesGated'
    BY <2>5 DEF RatesGated
  <2>11. GetOK'
    BY <2>1, <2>2, <2>5, <2>7, <2>8, <2>9, <2>10 DEF GetOK, ListOK
  <2>12. ReadTypeOK'
    BY <1>1, <2>1, <2>5 DEF ReadInv, ReadTypeOK
  <2>13. Answers'
    BY <2>1, <2>5 DEF Answers, RecordsMerged, SentIsShown, GatesHold, AnswerOfSettings, Pending
  <2> QED
    BY <1>1, <2>11, <2>12, <2>13 DEF ReadInv
<1> QED
  BY <1>2, <1>3

LEMMA CrashReads ==
  ASSUME ReadInv, SInv', Crash
  PROVE  ReadInv'
<1>1. get' = Idle /\ UNCHANGED <<resource, stored>>
  BY DEF Crash
<1>2. ReadTypeOK' /\ StoreOK' /\ GetOK'
  BY <1>1 DEF ReadInv, ReadTypeOK, StoreOK, GetOK, SInv
<1>3. Answers'
  BY <1>1 DEF Answers, RecordsMerged, SentIsShown, GatesHold, AnswerOfSettings, Pending
<1> QED
  BY <1>2, <1>3 DEF ReadInv

LEMMA ReadNextHolds == ReadInv /\ [Next]_vars => ReadInv'
<1> SUFFICES ASSUME ReadInv, [Next]_vars PROVE ReadInv'
  OBVIOUS
<1>1. SInv'
  BY SettingsNextHolds DEF ReadInv
<1>2. CASE UNCHANGED vars
  <2>1. UNCHANGED <<settingsVars, resource, stored, get>> /\ Now' = Now
    BY <1>2, NowFollows DEF vars, readVars
  <2>2. StoreOK' /\ SettingsTypeOK'
    BY <1>1, <2>1 DEF ReadInv, StoreOK, SInv
  <2>3. ReadTypeOK' /\ GetOK' /\ Answers'
    BY <2>1, <2>2, StoreGrows
  <2> QED
    BY <1>1, <2>2, <2>3 DEF ReadInv
<1>3. ASSUME resource \in Writable, NEW i \in Ids, NEW sent \in Sendable, Write(i, sent)
      PROVE  ReadInv'
  BY <1>1, <1>3, WriteReads
<1>4. ASSUME NEW accept \in {"json", "xml", "any"}, NEW expand \in BOOLEAN, Get(accept, expand)
      PROVE  ReadInv'
  BY <1>1, <1>4, GetReads
<1>5. ASSUME NEW i, GetById(i) PROVE ReadInv'
  BY <1>1, <1>5, GetByIdReads
<1>6. CASE Merge
  BY <1>1, <1>6, MergeReads
<1>7. CASE VersionGate
  BY <1>1, <1>7, VersionGateReads
<1>8. CASE Negotiate
  BY <1>1, <1>8, NegotiateReads
<1>9. CASE ChangeSettings
  BY <1>1, <1>9, SettingsStepReads DEF ChangeSettings
<1>10. CASE Crash
  BY <1>1, <1>10, CrashReads
<1> QED
  BY <1>2, <1>3, <1>4, <1>5, <1>6, <1>7, <1>8, <1>9, <1>10 DEF Next

LEMMA ReadInvariant == Spec => []ReadInv
BY ReadInitHolds, ReadNextHolds, PTL DEF Spec

\* The settings file, the store and the GET keep the shape the handlers give them, and
\* what is stored is what a write endpoint accepts.
THEOREM ReadTyped == Spec => []ReadTypeOK
<1>1. ReadInv => ReadTypeOK
  BY DEF ReadInv
<1> QED
  BY <1>1, ReadInvariant, PTL

\* merge_with_stored: a list holds one record per id, every record that was stored
\* when the GET began, and every generated one.
THEOREM ListsMerged == Spec => []RecordsMerged
<1>1. ReadInv => RecordsMerged
  BY DEF ReadInv, Answers
<1> QED
  BY <1>1, ReadInvariant, PTL

\* record_to_dataclass and the serializers: no field a client sent is dropped by the field
\* map, by the dataclass and by both forms, whatever is stored and asked for meanwhile.
THEOREM NothingSentIsLost == Spec => []SentIsShown
<1>1. ReadInv => SentIsShown
  BY DEF ReadInv, Answers
<1> QED
  BY <1>1, ReadInvariant, PTL

\* _apply_expand_gate and the version gate of get_cost_centers: what they withhold is
\* shown only to who asked for it, or under settings that allow it.
THEOREM GatesKept == Spec => []GatesHold
<1>1. ReadInv => GatesHold
  BY DEF ReadInv, Answers
<1> QED
  BY <1>1, ReadInvariant, PTL

\* _negotiate_format: a GET that names no format follows settings that were in force
\* while it ran, and fails only if the file could not be read while it ran.
THEOREM AnswersFollowSettings == Spec => []AnswerOfSettings
<1>1. ReadInv => AnswerOfSettings
  BY DEF ReadInv, Answers
<1> QED
  BY <1>1, ReadInvariant, PTL
=============================================================================
