---------------------------- MODULE ServedFormats ----------------------------
(***************************************************************************)
(* What the GET endpoints answer with while nothing is overridden, as far  *)
(* as detection looks at it: the root of the XML form, and the fields of   *)
(* the first record of the JSON form that some fingerprint names.          *)
(*                                                                         *)
(* A snapshot (routers/snapshots.py) is the body of such an answer, in the *)
(* format that the default_accounting_format setting chooses.              *)
(***************************************************************************)
EXTENDS EndpointDetection

\* xml_serializers.py.  The other endpoints have no XML form; the roots not told
\* apart here, ArrayOfFiscalYear for one, are all unknown to detection.
XmlRoots == [k \in {
    "diagnostics.echo", "master_data.clients", "accounting.clients",
    "accounting.fiscal_years", "accounting.cost_systems",
    "accounting.cost_centers", "accounting.creditors", "accounting.debitors",
    "accounting.general_ledger_accounts", "accounting.accounts_payable",
    "accounting.accounts_payable_condense",
    "accounting.accounts_receivable_condense",
    "accounting.accounting_sequences_processed",
    "accounting.accounting_transaction_keys", "accounting.assets_stocktakings",
    "accounting.posting_proposal_rules_incoming",
    "accounting.posting_proposal_rules_outgoing", "accounting.terms_of_payment"} |->
  CASE k = "diagnostics.echo" -> "Echo"
    [] k = "master_data.clients" -> "ArrayOfClientResource"
    [] k = "accounting.clients" -> "ArrayOfClient"
    [] OTHER -> "ArrayOfAnotherType"]

\* json_serializers.py: the two kinds of clients have a JSON form of their own.
AccountingClientFields == {"id", "name", "number"}
MasterDataClientFields == {"id", "name", "number", "status", "timestamp", "type"}

\* models.py, less the fields that _to_json drops because they are not set: the
\* first records each endpoint may answer with in JSON.
JsonFields == [k \in Keys |->
  CASE k = "diagnostics.echo" -> {}
    [] k = "master_data.clients" -> {MasterDataClientFields}
    [] k = "accounting.clients" -> {AccountingClientFields}
    [] k = "master_data.addressees" ->
         {{"id", "type", "status", "timestamp", "firstname"},
          {"id", "type", "status", "timestamp", "current_company_name"}}
    [] k = "master_data.banks" -> {{"id", "bic", "country_code", "name", "timestamp"}}
    [] k = "accounting.fiscal_years" ->  \* the earliest year has no legal form
         {{"id", "account_system", "currency_code", "taxation_method"}}
    [] k = "accounting.cost_systems" ->
         {{"id", "short_name", "is_activated_for_postings", "number"}}
    [] k = "accounting.cost_centers" ->
         {{"id", "long_name", "short_name", "creation_date"}}
    [] k \in {"accounting.creditors", "accounting.debitors"} ->
         {{"id", "account_number", "addressee_id", "business_partner_number",
           "caption", "legal_entity_type", "short_name"}}
    [] k = "accounting.general_ledger_accounts" ->
         {{"id", "account_number", "caption", "main_function", "main_function_number"}}
    [] k \in {"accounting.accounts_payable", "accounting.accounts_payable_condense",
              "accounting.accounts_receivable_condense"} ->
         {{"id", "account_number", "accounting_sequence_id", "currency_code",
           "debit_credit_identifier", "evidence_type", "is_condensed",
           "open_balance_of_item", "tax_rate"}}
    [] k = "accounting.accounting_sequences_processed" ->
         {{"id", "accounting_reason", "accounting_sequence_id", "date_from",
           "date_to", "record_type"}}
    [] k = "accounting.accounting_transaction_keys" ->
         {{"id", "caption", "date_from", "date_to", "is_tax_rate_selectable",
           "number", "tax_rate"}}
    [] k = "accounting.assets_stocktakings" ->
         {{"id", "accounting_reason", "asset_number", "inventory_number"}}
    [] k \in {"accounting.posting_proposal_rules_incoming",
              "accounting.posting_proposal_rules_outgoing"} ->
         {{"id", "assignment_criteria", "creation_date",
           "posting_proposal_information", "uncertain_label"}}
    [] k = "accounting.terms_of_payment" -> {{"id", "caption", "due_type"}}
    [] k = "dms.domains" -> {{"id", "name", "type"}}
    [] k = "dms.documents" ->
         {{"id", "name", "amount", "document_class", "domain_id", "created_at",
           "modified_at"}}]

XmlBodies(k) == IF k \in DOMAIN XmlRoots THEN {Xml(XmlRoots[k])} ELSE {}
JsonBodies(k) == {Json(fields) : fields \in JsonFields[k]}
Served(k) == XmlBodies(k) \cup JsonBodies(k)
=============================================================================
