----------------------------- MODULE MCOverrides -----------------------------
EXTENDS Overrides, TLC

\* A file for each way an upload can go: a document to repair, a record with two
\* candidates, and a file with none.
MCFiles == {
  WithBareAmpersand(Xml("ArrayOfClient")),
  Json({"addressee_id", "business_partner_number", "legal_entity_type"}),
  Unreadable}

Symmetry == Permutations(Threads)
=============================================================================
