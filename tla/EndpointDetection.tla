------------------------- MODULE EndpointDetection -------------------------
(***************************************************************************)
(* The first half of app/overrides.py: which endpoints an uploaded file    *)
(* may stand for, found from its structure alone.                          *)
(*                                                                         *)
(* A file is what detection tells apart: an XML document by the local name *)
(* of its root and by whether it has bare ampersands, a JSON document by   *)
(* the fingerprint fields of its first record, or neither of the two.      *)
(***************************************************************************)
EXTENDS FiniteSets

Xml(root) == [form |-> "xml", root |-> root, bare |-> FALSE]
Json(fields) == [form |-> "json", fields |-> fields]
Unreadable == [form |-> "none"]

\* The same document with an ampersand that is not escaped.
WithBareAmpersand(file) == [file EXCEPT !.bare = TRUE]

RootEndpoints == [
  Echo                  |-> {"diagnostics.echo"},
  ArrayOfClientResource |-> {"master_data.clients"},
  ArrayOfClient         |-> {"accounting.clients"}]

\* Two or more endpoints under one fingerprint are a documented group: their
\* records have the same fields.
Fingerprint(fields, keys) == [fields |-> fields, keys |-> keys]
Fingerprints == {
  Fingerprint({"id", "name", "number"}, {"accounting.clients"}),
  Fingerprint({"type", "status", "timestamp", "current_company_name"},
              {"master_data.addressees"}),
  Fingerprint({"type", "status", "timestamp", "firstname"},
              {"master_data.addressees"}),
  Fingerprint({"bic", "country_code"}, {"master_data.banks"}),
  Fingerprint({"account_system", "currency_code", "legal_form", "taxation_method"},
              {"accounting.fiscal_years"}),
  Fingerprint({"short_name", "is_activated_for_postings"},
              {"accounting.cost_systems"}),
  Fingerprint({"long_name", "short_name", "creation_date"},
              {"accounting.cost_centers"}),
  Fingerprint({"addressee_id", "business_partner_number", "legal_entity_type"},
              {"accounting.creditors", "accounting.debitors"}),
  Fingerprint({"account_number", "caption", "main_function", "main_function_number"},
              {"accounting.general_ledger_accounts"}),
  Fingerprint({"evidence_type", "debit_credit_identifier", "open_balance_of_item",
               "is_condensed"},
              {"accounting.accounts_payable", "accounting.accounts_payable_condense",
               "accounting.accounts_receivable_condense"}),
  Fingerprint({"accounting_sequence_id", "record_type", "accounting_reason",
               "date_from", "date_to"},
              {"accounting.accounting_sequences_processed"}),
  Fingerprint({"tax_rate", "is_tax_rate_selectable"},
              {"accounting.accounting_transaction_keys"}),
  Fingerprint({"asset_number", "inventory_number"},
              {"accounting.assets_stocktakings"}),
  Fingerprint({"assignment_criteria", "posting_proposal_information",
               "uncertain_label"},
              {"accounting.posting_proposal_rules_incoming",
               "accounting.posting_proposal_rules_outgoing"}),
  Fingerprint({"caption", "due_type"}, {"accounting.terms_of_payment"}),
  Fingerprint({"name", "type"}, {"dms.domains"}),
  Fingerprint({"amount", "document_class", "domain_id", "created_at", "modified_at"},
              {"dms.documents"})}

\* The endpoint keys detection can answer with, and so all that is overridden.
Keys == (UNION {RootEndpoints[r] : r \in DOMAIN RootEndpoints})
        \cup (UNION {f.keys : f \in Fingerprints})

\* sanitize_xml: bare ampersands are escaped, all else is left as it is.
Sanitized(file) == IF file.form = "xml" THEN [file EXCEPT !.bare = FALSE] ELSE file

\* Whether a client's XML or JSON parser accepts the file.
Parses(file) == file.form = "json" \/ (file.form = "xml" /\ ~file.bare)

\* detect_candidates.  A field more than the fingerprint asks for does no harm,
\* so a record may match several fingerprints.
RootCandidates(root) ==
  IF root \in DOMAIN RootEndpoints THEN RootEndpoints[root] ELSE {}
FieldCandidates(fields) ==
  UNION {f.keys : f \in {g \in Fingerprints : g.fields \subseteq fields}}
Candidates(file) ==
  CASE file.form = "xml" /\ Parses(Sanitized(file)) -> RootCandidates(file.root)
    [] file.form = "json" -> FieldCandidates(file.fields)
    [] OTHER -> {}
=============================================================================
