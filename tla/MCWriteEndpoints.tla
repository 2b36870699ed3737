-------------------------- MODULE MCWriteEndpoints --------------------------
(***************************************************************************)
(* Creditors refer to addressees (master data, generated with random ids), *)
(* posting proposals to creditors (of their own scope, generated under     *)
(* fixed ids).  "a1" and "c1" are generated at start, "u1" and "u2" are    *)
(* what uuid4() will draw, "x", "y" and "p" are ids clients choose.        *)
(***************************************************************************)
EXTENDS WriteEndpoints, TLC

A == "addressees"
C == "creditors"
P == "posting_proposals_incoming_invoices"

MCTypes == {A, C, P}
MCRecordIds == {"a1", "c1", "x", "y", "p", "u1", "u2"}
MCReferences ==
  [type \in MCTypes |-> CASE type = A -> {} [] type = C -> {A} [] OTHER -> {C}]
MCGenerated == [type \in MCTypes |-> CASE type = A -> {"a1"} [] type = C -> {"c1"} [] OTHER -> {}]
MCData == SUBSET Keys

To(type, id) == [type |-> type, id |-> id]

\* A created addressee; a bulk PUT of creditors whose second item refers to what
\* only a client can have stored; a batch of proposals that stores one id twice.
MCBodies ==
  [type \in MCTypes |->
     CASE type = A -> {<<[id |-> "u1", data |-> {}]>>}
       [] type = C -> {<<[id |-> "x", data |-> {To(A, "a1")}],
                         [id |-> "y", data |-> {To(A, "u1")}]>>,
                       <<[id |-> "x", data |-> {}]>>}
       [] OTHER    -> {<<[id |-> "p", data |-> {To(C, "x")}],
                         [id |-> "p", data |-> {To(C, "c1")}]>>}]

Symmetry == Permutations(Threads) \cup Permutations(Clients)
=============================================================================
