---------------------------- MODULE RecordShapes ----------------------------
(***************************************************************************)
(* Which fields a record has on its way through the server: what a write   *)
(* endpoint accepts (app/write_models.py), what db.record_to_dataclass     *)
(* makes of the stored record (app/models.py), and what the JSON and XML   *)
(* forms show of it (app/json_serializers.py, app/xml_serializers.py).     *)
(*                                                                         *)
(* A field is its name.  Of its value there is only where it comes from.   *)
(***************************************************************************)

(***************************************************************************)
(* The dataclasses: fields without a default, with the default None, with  *)
(* another default; and which of them hold objects or lists                *)
(***************************************************************************)

ClientResource ==
  [required |-> {"Id"},
   optional |-> {"Parent", "membersToSerialize", "AccountHolderForBilling",
                "AuthorizedRecipientForLegalPerson", "AuthorizedRecipientForNaturalPerson",
                "ClientSince", "ClientTo", "CorrespondenceRecipient", "DifferingName",
                "EstablishmentId", "EstablishmentName", "EstablishmentNumber",
                "EstablishmentShortName", "FunctionalAreaId", "FunctionalAreaName",
                "FunctionalAreaShortName", "IdentificationCheckedOn", "IdentificationComment",
                "IdentificationStatus", "InvoiceRecipients", "LeadId", "LegalPersonId",
                "NaturalPersonId", "Note", "OnlineRevision", "OrganizationId",
                "OrganizationName", "OrganizationNumber", "Revision", "RiskAssessment",
                "RiskAssessmentDate", "RiskAssessmentReason", "StayRegistered",
                "TransparencyRegister", "TransparencyRegisterCheckedOn",
                "TransparencyRegisterComment"},
   filled |-> {"Name", "Number", "Status", "Timestamp", "Type"}, nested |-> {}]

Client ==
  [required |-> {"Id", "ClientGuid", "Name", "Number"},
   optional |-> {"Parent", "membersToSerialize", "AccountingProductivities", "CompanyData",
                "company_data"},
   filled |-> {}, nested |-> {"company_data"}]

Addressee ==
  [required |-> {"id", "type", "status", "timestamp"},
   optional |-> {"eu_vat_id_country_code", "eu_vat_id_number", "current_short_name",
                "short_names", "surrogate_name", "date_of_birth", "etin", "firstname", "sex",
                "current_surname", "surnames", "tax_identification_number",
                "current_company_name", "company_names", "date_of_foundation",
                "current_legal_form_id", "legal_form_ids"},
   filled |-> {}, nested |-> {"short_names", "surnames", "company_names", "legal_form_ids"}]

Bank ==
  [required |-> {"id", "bank_code", "bic", "city", "country_code", "name", "standard",
                "timestamp"},
   optional |-> {},
   filled |-> {}, nested |-> {}]

FiscalYear ==
  [required |-> {"id", "account_length", "account_system", "advance_turnover_tax_return",
                "begin", "end", "client_number", "consultant_number", "cost_length",
                "creditor_term_of_payment_id", "currency_code", "is_invoice_date_check_on",
                "is_locked", "is_using_delivery_date", "is_using_individual_referencesystem",
                "is_using_receivable_type", "is_using_referencesystem", "national_right",
                "taxation_method"},
   optional |-> {"basis_of_checking_account_function", "debitor_term_of_payment_id",
                "legal_form", "method_of_determining_net_income"},
   filled |-> {}, nested |-> {}]

CostSystem ==
  [required |-> {"id", "short_name", "is_activated_for_postings", "number", "cost_field"},
   optional |-> {},
   filled |-> {}, nested |-> {}]

CostCenter ==
  [required |-> {"id", "long_name", "short_name", "creation_date"},
   optional |-> {"date_last_modification", "email", "note", "postable_from", "postable_to",
                "reference_value", "responsible"},
   filled |-> {"cost_rates", "properties"}, nested |-> {"cost_rates", "properties"}]

Creditor ==
  [required |-> {"id", "account_number", "addressee_id", "business_partner_number",
                "business_partner_relation_id", "caption", "date_last_modification",
                "is_business_partner_active", "is_organization_business_partner",
                "legal_entity_type", "short_name"},
   optional |-> {"accounting_information", "addresses", "alternative_search_name", "banks",
                "communications", "complimentary_close", "correspondence_title",
                "eu_vat_id_country_code", "eu_vat_id_number", "legal_person", "natural_person",
                "not_specified_person", "salutation", "third_party_number"},
   filled |-> {}, nested |-> {"accounting_information", "addresses", "banks", "communications",
                             "legal_person", "natural_person", "not_specified_person"}]

Debitor == Creditor

GeneralLedgerAccount ==
  [required |-> {"id", "account_number", "caption", "main_function", "main_function_number",
                "function_extension"},
   optional |-> {"additional_function", "function_description"},
   filled |-> {"tax_rates"}, nested |-> {"tax_rates"}]

OpenItem ==
  [required |-> {"id", "account_number", "accounting_sequence_id", "date",
                "debit_credit_identifier", "document_field1", "evidence_type",
                "has_interest_block", "is_cleared", "is_condensed", "open_balance_of_item",
                "open_item_number", "payment_method", "posting_description",
                "posting_record_number", "tax_rate", "amount_entered", "currency_code"},
   optional |-> {"amount_credit", "amount_debit", "balancing_type", "contra_account_number",
                "document_field2", "due_date", "due_days", "kost1_cost_center_id",
                "term_of_payment_id", "assessment_year", "assigned_due_date", "balance_type",
                "dunning_date1", "dunning_date2", "dunning_date3"},
   filled |-> {"has_dunning_block"}, nested |-> {}]

AccountingSequenceProcessed ==
  [required |-> {"id", "accounting_reason", "accounting_sequence_id", "date_committed",
                "date_from", "date_to", "description", "inspection_status", "is_committed",
                "mark_of_origin", "record_type"},
   optional |-> {"application_information", "initials"},
   filled |-> {}, nested |-> {}]

AccountingTransactionKey ==
  [required |-> {"id", "additional_function", "caption", "cases_related_to_goods_and_services",
                "date_from", "date_to", "group", "is_tax_rate_selectable", "number", "tax_rate"},
   optional |-> {},
   filled |-> {}, nested |-> {}]

AssetStocktaking ==
  [required |-> {"id", "asset_number", "inventory_number", "accounting_reason"},
   optional |-> {"general_ledger_account", "inventory_name", "price", "quantity",
                "stocktaking_date", "unit", "location", "condition", "acquisition_date",
                "economic_lifetime", "kost1_cost_center_id", "branch", "order_date",
                "origin_type", "farmland_number", "serial_number", "contract_number",
                "type_of_use", "isin", "explanation_of_depreciation"},
   filled |-> {}, nested |-> {"general_ledger_account"}]

PostingProposalRule ==
  [required |-> {"id", "uncertain_label", "assignment_criteria"},
   optional |-> {"creation_date", "last_used_date"},
   filled |-> {"posting_proposal_information"},
   nested |-> {"assignment_criteria", "posting_proposal_information"}]

TermOfPayment ==
  [required |-> {"id", "caption", "due_type"},
   optional |-> {"due_in_days", "due_as_period", "cash_discount1_percentage",
                "cash_discount2_percentage"},
   filled |-> {}, nested |-> {"due_in_days", "due_as_period"}]

Domain ==
  [required |-> {"id", "name", "type"},
   optional |-> {"parent_id"},
   filled |-> {}, nested |-> {}]

Document ==
  [required |-> {"id", "name", "amount", "document_class", "domain_id", "created_at",
                "modified_at"},
   optional |-> {},
   filled |-> {}, nested |-> {}]

CostCenterProperty ==
  [required |-> {"id"},
   optional |-> {"description"},
   filled |-> {"characteristics"}, nested |-> {"characteristics"}]

CostSequence ==
  [required |-> {"id", "month"},
   optional |-> {"accounting_reason", "description"},
   filled |-> {}, nested |-> {}]

CostAccountingRecord ==
  [required |-> {"id", "account_number", "date"},
   optional |-> {"amount", "alternative_cost_center", "contra_account_number", "cost_center",
                "debit_credit_identifier", "document_field1", "document_field2", "kost_date",
                "kost_quantity", "text"},
   filled |-> {}, nested |-> {}]

VariousAddress ==
  [required |-> {"id"},
   optional |-> {"account_number", "addresses", "business_partner_number", "banks", "caption",
                "communications", "correspondence_information", "correspondence_title",
                "date_last_modification", "individual_fields", "legal_entity_type",
                "legal_person", "natural_person", "not_specified_person", "number",
                "short_name"},
   filled |-> {}, nested |-> {"addresses", "banks", "communications",
                             "correspondence_information", "individual_fields", "legal_person",
                             "natural_person", "not_specified_person"}]

Employee ==
  [required |-> {"id", "name", "natural_person_id"},
   optional |-> {"display_name", "email", "entry_date", "fax", "initials", "note", "number",
                "phone_extension", "separation_date", "status", "timestamp", "organization_id",
                "organization_name", "organization_number", "establishment_id",
                "establishment_name", "establishment_number", "establishment_short_name",
                "functional_area_id", "functional_area_name", "functional_area_short_name"},
   filled |-> {}, nested |-> {}]

\* The record type of every resource a GET lists.  Three endpoints list open
\* items, and two list rules.
Shapes ==
  [master_data_clients |-> ClientResource, accounting_clients |-> Client,
   addressees |-> Addressee, banks |-> Bank, employees |-> Employee,
   fiscal_years |-> FiscalYear, cost_systems |-> CostSystem, cost_centers |-> CostCenter,
   creditors |-> Creditor, debitors |-> Debitor, open_items |-> OpenItem,
   general_ledger_accounts |-> GeneralLedgerAccount,
   accounting_sequences_processed |-> AccountingSequenceProcessed,
   accounting_transaction_keys |-> AccountingTransactionKey,
   assets_stocktakings |-> AssetStocktaking, terms_of_payment |-> TermOfPayment,
   posting_proposal_rules |-> PostingProposalRule,
   domains |-> Domain, documents |-> Document,
   cost_center_properties |-> CostCenterProperty, cost_sequences |-> CostSequence,
   cost_accounting_records |-> CostAccountingRecord, various_addresses |-> VariousAddress]

Resources == DOMAIN Shapes

Attributes(resource) ==
  LET shape == Shapes[resource] IN shape.required \cup shape.optional \cup shape.filled

IdField(resource) ==
  IF resource \in {"master_data_clients", "accounting_clients"} THEN "Id" ELSE "id"

(***************************************************************************)
(* The write models                                                        *)
(***************************************************************************)

\* A variant: one entry of the map is forgotten.
ClientFieldMap_Short ==
  [id |-> "Id", client_since |-> "ClientSince", client_to |-> "ClientTo",
   differing_name |-> "DifferingName", legal_person_id |-> "LegalPersonId", name |-> "Name",
   natural_person_id |-> "NaturalPersonId", note |-> "Note", number |-> "Number",
   status |-> "Status", timestamp |-> "Timestamp", type |-> "Type",
   organization_id |-> "OrganizationId", organization_name |-> "OrganizationName",
   organization_number |-> "OrganizationNumber", establishment_id |-> "EstablishmentId",
   establishment_name |-> "EstablishmentName", establishment_number |-> "EstablishmentNumber",
   functional_area_id |-> "FunctionalAreaId", functional_area_name |-> "FunctionalAreaName",
   functional_area_short_name |-> "FunctionalAreaShortName"]

\* _CLIENT_RESOURCE_FIELD_MAP: the attribute a key of ClientWrite is stored for.
ClientFieldMap ==
  [id |-> "Id", client_since |-> "ClientSince", client_to |-> "ClientTo",
   differing_name |-> "DifferingName", legal_person_id |-> "LegalPersonId", name |-> "Name",
   natural_person_id |-> "NaturalPersonId", note |-> "Note", number |-> "Number",
   status |-> "Status", timestamp |-> "Timestamp", type |-> "Type",
   organization_id |-> "OrganizationId", organization_name |-> "OrganizationName",
   organization_number |-> "OrganizationNumber", establishment_id |-> "EstablishmentId",
   establishment_name |-> "EstablishmentName", establishment_number |-> "EstablishmentNumber",
   establishment_short_name |-> "EstablishmentShortName",
   functional_area_id |-> "FunctionalAreaId", functional_area_name |-> "FunctionalAreaName",
   functional_area_short_name |-> "FunctionalAreaShortName"]

ClientWrite ==
  [accepts |-> {"id", "client_since", "client_to", "differing_name", "legal_person_id", "name",
                "natural_person_id", "note", "number", "status", "timestamp", "type",
                "organization_id", "organization_name", "organization_number",
                "establishment_id", "establishment_name", "establishment_number",
                "establishment_short_name", "functional_area_id", "functional_area_name",
                "functional_area_short_name"},
   requires |-> {"name", "number", "type"}]

\* Kept in the store and never listed.
AddresseeWriteOnly ==
  {"detail", "addresses", "communications", "bank_accounts", "tax_offices", "contact_persons"}

AddresseeWrite ==
  [accepts |-> Attributes("addressees") \cup AddresseeWriteOnly, requires |-> {"type"}]

\* The other bodies have the fields of the record, but require fewer.
SameFields(resource, requires) ==
  [accepts |-> Attributes(resource), requires |-> requires]

CreditorWrite == SameFields("creditors", {})
DebitorWrite == SameFields("debitors", {})
TermOfPaymentWrite == SameFields("terms_of_payment", {"caption"})
AssetStocktakingWrite ==
  SameFields("assets_stocktakings", {"asset_number", "inventory_number"})
CostCenterWrite == SameFields("cost_centers", {})
CostCenterPropertyWrite == SameFields("cost_center_properties", {})
CostSequenceWrite == SameFields("cost_sequences", {"id", "month"})
CostAccountingRecordWrite == SameFields("cost_accounting_records", {"account_number", "date"})
VariousAddressWrite == SameFields("various_addresses", {})
EmployeeWrite == SameFields("employees", {"name", "natural_person_id"})

Bodies ==
  [master_data_clients |-> ClientWrite, addressees |-> AddresseeWrite,
   employees |-> EmployeeWrite, cost_centers |-> CostCenterWrite,
   creditors |-> CreditorWrite, debitors |-> DebitorWrite,
   assets_stocktakings |-> AssetStocktakingWrite, terms_of_payment |-> TermOfPaymentWrite,
   cost_center_properties |-> CostCenterPropertyWrite, cost_sequences |-> CostSequenceWrite,
   cost_accounting_records |-> CostAccountingRecordWrite,
   various_addresses |-> VariousAddressWrite]

Writable == DOMAIN Bodies

(***************************************************************************)
(* record_to_dataclass: where the value of an attribute comes from         *)
(***************************************************************************)

Partners == {"creditors", "debitors"}

\* A variant: one nested field is forgotten.
NilFields_NoBanks ==
  {"natural_person", "legal_person", "not_specified_person", "addresses",
   "communications", "accounting_information"}

\* _BUSINESS_PARTNER_NIL_FIELDS
NilFields ==
  {"natural_person", "legal_person", "not_specified_person", "addresses", "banks",
   "communications", "accounting_information"}

\* The keys of a stored record that an attribute is read from.
KeysOf(resource, attribute) ==
  LET mapped == {k \in DOMAIN ClientFieldMap : ClientFieldMap[k] = attribute}
  IN  IF resource = "master_data_clients" /\ mapped # {} THEN mapped ELSE {attribute}

\* Keys without an attribute are dropped, attributes without a key get their
\* default, or "" or 0 when they have none.
RecordToDataclass(resource, sent) ==
  [a \in Attributes(resource) |->
     IF resource \in Partners /\ a \in NilFields THEN "none"
     ELSE IF KeysOf(resource, a) \cap sent # {} THEN "sent"
     ELSE IF a \in Shapes[resource].optional THEN "none" ELSE "default"]

\* A generated record: any of its attributes may be set.
GeneratedRecord(resource) == [a \in Attributes(resource) |-> "generated"]

(***************************************************************************)
(* What the two forms show                                                 *)
(***************************************************************************)

\* These two resources are negotiated by other JSON functions than _to_json.
Projections ==
  [accounting_clients |-> {"Id", "Name", "Number", "company_data"},
   master_data_clients |-> {"Id", "LegalPersonId", "Name", "Number", "Status", "Timestamp",
                            "Type", "ClientSince", "ClientTo"}]

JsonFields(resource) ==
  IF resource \in DOMAIN Projections THEN Projections[resource] ELSE Attributes(resource)

\* Resources without an XML form.
JsonOnly == {"addressees", "banks", "employees", "domains", "documents",
             "cost_center_properties", "cost_sequences", "cost_accounting_records",
             "various_addresses"}

\* ASSET_STOCKTAKING_FIELD_ORDER
AssetStocktakingOrder ==
  {"id", "accounting_reason", "asset_number", "condition", "inventory_name",
   "inventory_number", "location", "price", "quantity", "stocktaking_date", "unit"}

\* The other field orders: what holds no object or list, and of the partners all.
XmlFields(resource) ==
  CASE resource = "assets_stocktakings" -> AssetStocktakingOrder
    [] resource \in Partners -> Attributes(resource)
    [] OTHER -> Attributes(resource) \ Shapes[resource].nested

Fields(resource, format) ==
  IF format = "json" THEN JsonFields(resource) ELSE XmlFields(resource)

\* _strip_none leaves out what is None, _render_field marks it i:nil.
Shown(resource, format, value) == {a \in Fields(resource, format) : value[a] # "none"}
=============================================================================
