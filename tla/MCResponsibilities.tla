------------------------- MODULE MCResponsibilities -------------------------
(***************************************************************************)
(* Lists of responsibilities, written whole, that refer to employees       *)
(* (stored only) and to master-data clients (generated with random ids,    *)
(* edited on the admin page).  "m1" is generated at start, uuid4() will    *)
(* draw "u1"; "e1", "r1" and "r2" are ids clients choose.                  *)
(***************************************************************************)
EXTENDS WriteEndpoints, TLC

E == "employees"
M == "clients"
R == "client_responsibilities"

MCTypes == {E, M, R}
MCRecordIds == {"m1", "e1", "r1", "r2", "u1"}
MCReferences == [type \in MCTypes |-> IF type = R THEN {E, M} ELSE {}]
MCGenerated == [type \in MCTypes |-> IF type = M THEN {"m1"} ELSE {}]
MCData == SUBSET Keys

To(type, id) == [type |-> type, id |-> id]

\* An employee; lists of two, of one and of no responsibility.
MCBodies ==
  [type \in MCTypes |->
     CASE type = E -> {<<[id |-> "e1", data |-> {}]>>}
       [] type = M -> {}
       [] OTHER    -> {<<[id |-> "r1", data |-> {To(E, "e1"), To(M, "m1")}],
                         [id |-> "r2", data |-> {}]>>,
                       <<[id |-> "r1", data |-> {}]>>,
                       <<>>}]

Symmetry == Permutations(Threads) \cup Permutations(Clients)
=============================================================================
