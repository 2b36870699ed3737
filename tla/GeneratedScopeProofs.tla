------------------------- MODULE GeneratedScopeProofs -------------------------
(***************************************************************************)
(* What is generated refers to what is there, for any number of records    *)
(* and any stream of random numbers.                                       *)
(*                                                                         *)
(* The invariant follows the order of the generator calls: Rank says which *)
(* lists a call has when it is about to make the next one.  A reference is *)
(* drawn from a list of lower rank, so the list is complete and there is   *)
(* something to draw; a list that is made later cannot break it.           *)
(*                                                                         *)
(* A second invariant, ContentInv, gives every list that was made in       *)
(* closed form, as a function of the key of its scope.                     *)
(***************************************************************************)
EXTENDS GeneratedScope, TLAPS

\* The lists that are made before the first that refers to something.
EarlyLists == {"cost_systems", "terms_of_payment", "general_ledger_accounts",
               "accounting_sequences_processed", "accounting_transaction_keys"}

Rank ==
  [s \in Steps |->
     CASE s = "scope" -> 0
       [] s = "cost_systems" -> 1
       [] s = "terms_of_payment" -> 2
       [] s = "general_ledger_accounts" -> 3
       [] s = "accounting_sequences_processed" -> 4
       [] s = "accounting_transaction_keys" -> 5
       [] s = "creditors" -> 6
       [] s = "debitors" -> 7
       [] s = "centers" -> 8
       [] s = "accounts_payable" -> 9
       [] s = "accounts_payable_condense" -> 10
       [] s = "accounts_receivable_condense" -> 11
       [] s = "assets_stocktakings" -> 12
       [] s = "posting_proposal_rules_incoming_invoices" -> 13
       [] s = "posting_proposal_rules_outgoing_invoices" -> 14
       [] s = "store" -> 15
       [] s = "answer" -> 16
       [] s = "next" -> 17
       [] s = "years" -> 18]

\* A sequence of n records.
IsList(s, n) == s = [i \in 1..n |-> s[i]]

\* A call has made the lists of the steps behind it, and no other.
MadeSoFar(c) ==
  /\ DOMAIN c.made = Lists
  /\ \A l \in Lists : DOMAIN c.made[l] = IF Rank[l] < Rank[c.at] THEN 1..Count[l] ELSE {}
  /\ \A l \in Lists : Rank[l] < Rank[c.at] => IsList(c.made[l], Count[l])

\* The years of a call's list that are done name terms of their own scopes;
\* the others have their placeholders.
YearsSoFar(c) ==
  /\ DOMAIN c.records = 1..Count["fiscal_years"]
  /\ \A i \in 1..Count["fiscal_years"] :
       LET record == c.records[i]
           scope == scopes[<<c.client, record.id>>]
       IN  /\ record = [id |-> BaseYear(c.client) + i - 1,
                        creditor_term_of_payment_id |-> record.creditor_term_of_payment_id,
                        debitor_term_of_payment_id |-> record.debitor_term_of_payment_id]
           /\ i <= c.done =>
                /\ <<c.client, record.id>> \in Cached(scopes)
                /\ record.creditor_term_of_payment_id \in TermsOf(scope)
                /\ record.debitor_term_of_payment_id \in
                     IF i = Count["fiscal_years"] THEN TermsOf(scope) ELSE {None}
           /\ i > c.done =>
                record.debitor_term_of_payment_id = IF i = Count["fiscal_years"] THEN 10 ELSE None

CallTypeOK(c) ==
  /\ c = [want |-> c.want, at |-> c.at, client |-> c.client, year |-> c.year,
          made |-> c.made, read |-> c.read, centers |-> c.centers,
          records |-> c.records, done |-> c.done]
  /\ c.want \in {"scope", "years"}
  /\ c.at \in Steps
  /\ c.client \in Clients
  /\ c.year \in Years
  /\ c.read \in Seq(Known)
  /\ c.done \in 0..Count["fiscal_years"]

CallOK ==
  call # Idle =>
    /\ CallTypeOK(call)
    /\ MadeSoFar(call)
    /\ Rank[call.at] \in 2..15 => call.made["cost_systems"][1].id = Str(1)
    /\ Rank[call.at] \in 0..15 => Consistent(call.made, call.centers)
    /\ Rank[call.at] \in 1..15 => Key \notin Cached(scopes) /\ Len(call.read) = AddresseeCount
    /\ Rank[call.at] \in 9..15 => Key \in Cached(centers) /\ call.centers = centers[Key]
    /\ call.at = "answer" => Key \in Cached(scopes) /\ call.made = scopes[Key]
    /\ call.at \in {"next", "years"} => call.want = "years"
    /\ call.want = "years" =>
         /\ YearsSoFar(call)
         /\ IF call.at = "years" THEN call.done = Count["fiscal_years"]
            ELSE call.done < Count["fiscal_years"]
         /\ call.at \notin {"next", "years"} => call.year = BaseYear(call.client) + call.done

CachesOK ==
  /\ Cached(scopes) \subseteq Cached(centers)
  /\ Cached(centers) \subseteq ScopeKeys
  /\ Cached(years) \subseteq Clients
  /\ \A k \in Cached(scopes) :
       /\ DOMAIN scopes[k] = Lists
       /\ \A l \in Lists : DOMAIN scopes[k][l] = 1..Count[l] /\ IsList(scopes[k][l], Count[l])
       /\ Consistent(scopes[k], centers[k])
  /\ \A k \in Cached(centers) : centers[k] = CostCenters(k, 1)

NumbersOK ==
  /\ addressees \in Seq(Known)
  /\ Len(addressees) = AddresseeCount
  /\ fresh \in Nat
  /\ restarts \in 0..MaxRestarts
  /\ listed \in 0..MaxListed

IInv == NumbersOK /\ CachesOK /\ YearsReferToTheirTerms /\ CallOK

(***************************************************************************)
(* Drawing                                                                 *)
(***************************************************************************)

\* The length of a function on 1..n.
LEMMA LenOfFunction ==
  ASSUME NEW n \in Nat, NEW s, s = [i \in 1..n |-> s[i]]
  PROVE  Len(s) = n
<1> DEFINE S == {s[i] : i \in 1..n}
<1>1. s \in [1..n -> S]
  OBVIOUS
<1>2. s \in Seq(S)
  BY <1>1
<1>3. Len(s) \in Nat /\ DOMAIN s = 1..Len(s)
  BY <1>2
<1> QED
  BY <1>1, <1>3

\* A drawn number picks an element of the pool.
LEMMA ChoiceInPool ==
  ASSUME NEW n \in Nat \ {0}, NEW pool, pool = [i \in 1..n |-> pool[i]], NEW drawn \in Nat
  PROVE  \E i \in 1..n : Choice(pool, drawn) = pool[i]
<1>1. Len(pool) = n
  BY LenOfFunction
<1>2. drawn % n \in 0..n - 1
  OBVIOUS
<1> QED
  BY <1>1, <1>2 DEF Choice

(***************************************************************************)
(* Ranks and references                                                    *)
(***************************************************************************)

LEMMA RankValues ==
  /\ Rank["scope"] = 0
  /\ Rank["cost_systems"] = 1
  /\ Rank["terms_of_payment"] = 2
  /\ Rank["general_ledger_accounts"] = 3
  /\ Rank["accounting_sequences_processed"] = 4
  /\ Rank["accounting_transaction_keys"] = 5
  /\ Rank["creditors"] = 6
  /\ Rank["debitors"] = 7
  /\ Rank["centers"] = 8
  /\ Rank["accounts_payable"] = 9
  /\ Rank["accounts_payable_condense"] = 10
  /\ Rank["accounts_receivable_condense"] = 11
  /\ Rank["assets_stocktakings"] = 12
  /\ Rank["posting_proposal_rules_incoming_invoices"] = 13
  /\ Rank["posting_proposal_rules_outgoing_invoices"] = 14
  /\ Rank["store"] = 15
  /\ Rank["answer"] = 16
  /\ Rank["next"] = 17
  /\ Rank["years"] = 18
BY DEF Rank, Steps, Lists, OpenItemLists, Payables, RuleLists

LEMMA StepsAre ==
  Steps = {"scope", "cost_systems", "terms_of_payment", "general_ledger_accounts",
           "accounting_sequences_processed", "accounting_transaction_keys", "creditors",
           "debitors", "centers", "accounts_payable", "accounts_payable_condense",
           "accounts_receivable_condense", "assets_stocktakings",
           "posting_proposal_rules_incoming_invoices",
           "posting_proposal_rules_outgoing_invoices", "store", "answer", "next", "years"}
BY DEF Steps, Lists, OpenItemLists, Payables, RuleLists

\* Ranks are numbers, and different steps have different ranks.
LEMMA RankInjective ==
  /\ \A s \in Steps : Rank[s] \in 0..18
  /\ \A s, t \in Steps : Rank[s] = Rank[t] => s = t
BY RankValues, StepsAre

LEMMA ListRanks ==
  \A l \in Lists : l \in Steps /\ Rank[l] \in 1..14 /\ Rank[l] # 8
BY RankValues DEF Steps, Lists, OpenItemLists, Payables, RuleLists

(***************************************************************************)
(* The generator calls                                                     *)
(***************************************************************************)

\* The first cost system is the primary one.
FirstIsPrimary(list, records) == list = "cost_systems" => records[1].id = Str(1)

\* A call that makes its next list keeps the invariant, if the list is complete
\* and refers to what is there.
LEMMA MakeStep ==
  ASSUME IInv, NEW list \in Lists, NEW records, NEW next \in Steps,
         Rank[next] = Rank[list] + 1,
         Make(list, records, next), UNCHANGED Others, fresh' \in Nat,
         IsList(records, Count[list]),
         FirstIsPrimary(list, records),
         Consistent([call.made EXCEPT ![list] = records], call.centers)
  PROVE  IInv'
<1> DEFINE made == [call.made EXCEPT ![list] = records]
<1>1. /\ call # Idle /\ call.at = list
      /\ CallTypeOK(call) /\ MadeSoFar(call)
  BY DEF IInv, CallOK, Make, At
<1>2. call' = [want |-> call.want, at |-> next, client |-> call.client, year |-> call.year,
               made |-> made, read |-> call.read,
               centers |-> call.centers, records |-> call.records, done |-> call.done]
  <2>1. call' = [call EXCEPT !.made = made, !.at = next]
    BY DEF Make
  <2>2. call = [want |-> call.want, at |-> call.at, client |-> call.client, year |-> call.year,
          made |-> call.made, read |-> call.read, centers |-> call.centers,
          records |-> call.records, done |-> call.done]
    BY <1>1 DEF CallTypeOK
  <2> HIDE DEF made
  <2> QED
    BY <2>1, <2>2
<1>3. /\ addressees' = addressees /\ scopes' = scopes /\ centers' = centers
      /\ years' = years /\ restarts' = restarts /\ listed' = listed
  BY DEF Others, caches
<1>4. NumbersOK'
  BY <1>3 DEF IInv, NumbersOK, Known
<1>5. CachesOK'
  BY <1>3 DEF IInv, CachesOK, Cached, Consistent, PartnersKnown, Known
<1>6. YearsReferToTheirTerms'
  BY <1>3 DEF IInv, YearsReferToTheirTerms, Cached
<1>7. CallTypeOK(call)'
  <2> HIDE DEF made
  <2>1. CallTypeOK(call')
    BY <1>1, <1>2 DEF CallTypeOK
  <2> QED
    BY <2>1, <1>3 DEF CallTypeOK, Known
<1>8. MadeSoFar(call)'
  <2>1. DOMAIN made = Lists /\ made[list] = records
    BY <1>1 DEF MadeSoFar
  <2>2. \A l \in Lists : l # list => made[l] = call.made[l]
    BY <1>1 DEF MadeSoFar
  <2> HIDE DEF made
  <2>a. DOMAIN records = 1..Count[list]
    BY DEF IsList
  <2>3. ASSUME NEW l \in Lists
        PROVE  /\ DOMAIN made[l] = IF Rank[l] < Rank[next] THEN 1..Count[l] ELSE {}
               /\ Rank[l] < Rank[next] => IsList(made[l], Count[l])
    <3>1. CASE l = list
      BY <3>1, <2>1, <2>a, ListRanks
    <3>2. CASE l # list
      <4>1. Rank[l] # Rank[list]
        BY <3>2, RankInjective, ListRanks
      <4>2. Rank[l] < Rank[list] <=> Rank[l] < Rank[next]
        BY <4>1, ListRanks
      <4> QED
        BY <4>2, <3>2, <2>2, <1>1 DEF MadeSoFar
    <3> QED
      BY <3>1, <3>2
  <2> QED
    BY <2>1, <2>3, <1>2 DEF MadeSoFar
<1>9. Key' = Key
  BY <1>2 DEF Key
<1>10. ASSUME Rank[next] > 1
       PROVE  made["cost_systems"][1].id = Str(1)
  <2>1. "cost_systems" \in Lists /\ Rank["cost_systems"] = 1
    BY RankValues DEF Lists
  <2>2. CASE list = "cost_systems"
    BY <2>2, <2>1, <1>1 DEF MadeSoFar, FirstIsPrimary
  <2>3. CASE list # "cost_systems"
    <3>1. Rank[list] > 1
      BY <2>3, <2>1, RankInjective, ListRanks
    <3>a. Rank[list] \in 2..15
      BY <3>1, ListRanks
    <3>2. call.made["cost_systems"][1].id = Str(1)
      BY <3>a, <1>1 DEF IInv, CallOK
    <3> QED
      BY <3>2, <2>1, <2>3, <1>1 DEF MadeSoFar
  <2> QED
    BY <2>2, <2>3
<1>11. Consistent(call.made, call.centers)'
  <2> HIDE DEF made
  <2>1. Consistent(made, call.centers)
    BY DEF made
  <2> QED
    BY <2>1, <1>2, <1>3 DEF Consistent, PartnersKnown, Known, ItemsRefer, TermsOf,
       StocktakingsRefer, RulesRefer
<1>12. Key \notin Cached(scopes) /\ call'.read = call.read /\ Len(call.read) = AddresseeCount
  <2>1. Rank[list] \in 1..15
    BY ListRanks
  <2> HIDE DEF made
  <2> QED
    BY <1>1, <1>2, <2>1 DEF IInv, CallOK
<1>13. Rank[next] \in 9..15 => Key \in Cached(centers) /\ call.centers = centers[Key]
  <2>1. Rank[next] \in 9..15 => Rank[list] \in 9..15
    BY ListRanks
  <2> QED
    BY <2>1, <1>1 DEF IInv, CallOK
<1>14. next \notin {"answer", "next", "years"} /\ list \notin {"answer", "next", "years"}
  <2>1. Rank[list] < 16 /\ Rank[next] < 16
    BY ListRanks
  <2> QED
    BY <2>1, RankValues
<1>15. YearsSoFar(call) /\ call.want = "years" => YearsSoFar(call)'
  <2> HIDE DEF made
  <2> QED
    BY <1>2, <1>3 DEF YearsSoFar, Cached
<1>16. CallOK'
  <2> HIDE DEF made
  <2>1. CallOK
    BY DEF IInv
  <2> QED
    BY <2>1, <1>1, <1>2, <1>3, <1>7, <1>8, <1>9, <1>10, <1>11, <1>12, <1>13, <1>14, <1>15,
       RankInjective
       DEF CallOK, Cached
<1> QED
  BY <1>4, <1>5, <1>6, <1>16 DEF IInv

\* The stream gives numbers.
LEMMA DrawIsNat ==
  ASSUME CallTypeOK(call), NEW list \in Lists, NEW i \in 1..Count[list], NEW field \in Fields
  PROVE  Draw(list, i, field) \in Nat
<1>1. Key \in Seeds
  BY DEF CallTypeOK, Key, Seeds, ScopeKeys
<1>3. list \in DOMAIN Count /\ Count[list] \in Nat
  BY CountAssumption
<1>4. <<list, i, field>> \in {list} \X (0..Count[list]) \X Fields
  BY <1>3
<1>5. <<list, i, field>> \in Places
  BY <1>3, <1>4 DEF Places
<1> QED
  BY <1>1, <1>5, ValueAssumption DEF Draw

\* The parts of Consistent look at few lists: the others may change.
LEMMA ConsistentElsewhere ==
  ASSUME NEW made, NEW new, NEW primary, Consistent(made, primary)
  PROVE  /\ (\A l \in {"creditors", "debitors"} : new[l] = made[l]) => PartnersKnown(new)
         /\ (\A l \in OpenItemLists \cup {"accounting_sequences_processed", "terms_of_payment"} :
               new[l] = made[l]) => ItemsRefer(new, primary)
         /\ (\A l \in {"assets_stocktakings", "general_ledger_accounts"} : new[l] = made[l])
              => StocktakingsRefer(new)
         /\ (\A l \in RuleLists \cup {"accounting_transaction_keys", "general_ledger_accounts"} :
               new[l] = made[l]) => RulesRefer(new)
<1> USE DEF Consistent
<1>1. (\A l \in {"creditors", "debitors"} : new[l] = made[l]) => PartnersKnown(new)
  BY DEF PartnersKnown
<1>2. (\A l \in OpenItemLists \cup {"accounting_sequences_processed", "terms_of_payment"} :
         new[l] = made[l]) => ItemsRefer(new, primary)
  BY DEF ItemsRefer, TermsOf
<1>3. (\A l \in {"assets_stocktakings", "general_ledger_accounts"} : new[l] = made[l])
        => StocktakingsRefer(new)
  BY DEF StocktakingsRefer
<1>4. (\A l \in RuleLists \cup {"accounting_transaction_keys", "general_ledger_accounts"} :
         new[l] = made[l]) => RulesRefer(new)
  BY DEF RulesRefer
<1> QED
  BY <1>1, <1>2, <1>3, <1>4

\* Lists that are not made yet refer to nothing.
LEMMA ConsistentIfEmpty ==
  ASSUME NEW made, NEW primary
  PROVE  /\ (\A l \in {"creditors", "debitors"} : DOMAIN made[l] = {}) => PartnersKnown(made)
         /\ (\A l \in OpenItemLists : DOMAIN made[l] = {}) => ItemsRefer(made, primary)
         /\ DOMAIN made["assets_stocktakings"] = {} => StocktakingsRefer(made)
         /\ (\A l \in RuleLists : DOMAIN made[l] = {}) => RulesRefer(made)
BY DEF PartnersKnown, ItemsRefer, StocktakingsRefer, RulesRefer, Elements

\* What a call has at its next list, and what it has not.
LEMMA AtList ==
  ASSUME IInv, NEW list \in Lists, At(list)
  PROVE  /\ CallTypeOK(call)
         /\ Len(call.read) = AddresseeCount
         /\ Consistent(call.made, call.centers)
         /\ DOMAIN call.made = Lists
         /\ \A l \in Lists : Rank[l] < Rank[list] =>
              DOMAIN call.made[l] = 1..Count[l] /\ IsList(call.made[l], Count[l])
         /\ \A l \in Lists : Rank[l] >= Rank[list] => DOMAIN call.made[l] = {}
<1>1. CallTypeOK(call) /\ MadeSoFar(call) /\ call.at = list
  BY DEF IInv, CallOK, At
<1>2. Rank[list] \in 0..15 /\ Rank[list] \in 1..15
  BY ListRanks
<1>3. Consistent(call.made, call.centers) /\ Len(call.read) = AddresseeCount
  BY <1>1, <1>2 DEF IInv, CallOK, At
<1> QED
  BY <1>1, <1>3, ListRanks DEF MadeSoFar

LEMMA ListNames ==
  /\ EarlyLists \subseteq Lists /\ OpenItemLists \subseteq Lists /\ RuleLists \subseteq Lists
  /\ {"creditors", "debitors", "assets_stocktakings"} \subseteq Lists
  /\ \A l \in EarlyLists : Rank[l] \in 1..5
  /\ Rank["creditors"] = 6 /\ Rank["debitors"] = 7 /\ Rank["assets_stocktakings"] = 12
  /\ \A l \in OpenItemLists : Rank[l] \in 9..11
  /\ \A l \in RuleLists : Rank[l] \in 13..14
BY RankValues DEF Lists, EarlyLists, OpenItemLists, Payables, RuleLists

\* While the early lists are made nothing refers to anything.
LEMMA EarlyConsistent ==
  ASSUME IInv, NEW list \in EarlyLists, At(list), NEW records
  PROVE  Consistent([call.made EXCEPT ![list] = records], call.centers)
<1> DEFINE new == [call.made EXCEPT ![list] = records]
<1>1. list \in Lists
  BY ListNames
<1>2. \A l \in Lists : Rank[l] >= 6 => DOMAIN new[l] = {}
  <2>1. \A l \in Lists : Rank[l] >= 6 => l # list /\ Rank[l] >= Rank[list]
    BY ListNames, ListRanks
  <2>2. /\ DOMAIN call.made = Lists
        /\ \A l \in Lists : Rank[l] >= Rank[list] => DOMAIN call.made[l] = {}
    BY <1>1, AtList
  <2>3. \A l \in Lists : l # list => new[l] = call.made[l]
    BY <1>1, <2>2
  <2> HIDE DEF new
  <2> QED
    BY <2>1, <2>2, <2>3
<1>3. \A l \in {"creditors", "debitors", "assets_stocktakings"} \cup OpenItemLists \cup RuleLists :
        DOMAIN new[l] = {}
  <2> HIDE DEF new
  <2> QED
    BY <1>2, ListNames
<1> HIDE DEF new
<1>4. Consistent(new, call.centers)
  BY <1>3, ConsistentIfEmpty DEF Consistent
<1> QED
  BY <1>4 DEF new

LEMMA EarlySteps ==
  ASSUME IInv,
         \/ GenerateCostSystems \/ GenerateTermsOfPayment \/ GenerateGeneralLedgerAccounts
         \/ GenerateAccountingSequencesProcessed \/ GenerateAccountingTransactionKeys
  PROVE  IInv'
<1> USE RankValues, StepsAre
<1>0. /\ EarlyLists \subseteq Lists
      /\ fresh \in Nat
      /\ \A list \in EarlyLists : Count[list] \in Nat \ {0}
  BY ListNames, CountAssumption DEF IInv, NumbersOK
<1>1. CASE GenerateCostSystems
  <2> DEFINE records == [i \in 1..Count["cost_systems"] |->
             [id |-> Str(i), is_activated_for_postings |-> Draw("cost_systems", i, "content")]]
  <2>1. Make("cost_systems", records, "terms_of_payment") /\ UNCHANGED <<fresh, Others>>
    BY <1>1 DEF GenerateCostSystems
  <2>2. IsList(records, Count["cost_systems"])
    BY DEF IsList
  <2>3. FirstIsPrimary("cost_systems", records)
    BY <1>0 DEF EarlyLists, FirstIsPrimary
  <2> HIDE DEF records
  <2>4. "cost_systems" \in EarlyLists
    BY DEF EarlyLists
  <2>5. Consistent([call.made EXCEPT !["cost_systems"] = records], call.centers)
    BY <2>1, <2>4, EarlyConsistent DEF Make
  <2> QED
    BY <1>0, <2>1, <2>2, <2>3, <2>4, <2>5, MakeStep
<1>2. CASE GenerateTermsOfPayment
  <2> DEFINE records == [i \in 1..Count["terms_of_payment"] |->
             [id |-> Str(9000 + i - 1), due |-> Draw("terms_of_payment", i, "content")]]
  <2>1. Make("terms_of_payment", records, "general_ledger_accounts") /\ UNCHANGED <<fresh, Others>>
    BY <1>2 DEF GenerateTermsOfPayment
  <2>2. IsList(records, Count["terms_of_payment"])
    BY DEF IsList
  <2> HIDE DEF records
  <2>3. FirstIsPrimary("terms_of_payment", records)
    BY DEF FirstIsPrimary
  <2>4. "terms_of_payment" \in EarlyLists
    BY DEF EarlyLists
  <2>5. Consistent([call.made EXCEPT !["terms_of_payment"] = records], call.centers)
    BY <2>1, <2>4, EarlyConsistent DEF Make
  <2> QED
    BY <1>0, <2>1, <2>2, <2>3, <2>4, <2>5, MakeStep
<1>3. CASE GenerateGeneralLedgerAccounts
  <2> DEFINE records == [i \in 1..Count["general_ledger_accounts"] |->
             [account_number |-> 1000 + i - 1,
              caption |-> Draw("general_ledger_accounts", i, "content")]]
  <2>1. /\ Make("general_ledger_accounts", records, "accounting_sequences_processed")
        /\ UNCHANGED <<fresh, Others>>
    BY <1>3 DEF GenerateGeneralLedgerAccounts
  <2>2. IsList(records, Count["general_ledger_accounts"])
    BY DEF IsList
  <2> HIDE DEF records
  <2>3. FirstIsPrimary("general_ledger_accounts", records)
    BY DEF FirstIsPrimary
  <2>4. "general_ledger_accounts" \in EarlyLists
    BY DEF EarlyLists
  <2>5. Consistent([call.made EXCEPT !["general_ledger_accounts"] = records], call.centers)
    BY <2>1, <2>4, EarlyConsistent DEF Make
  <2> QED
    BY <1>0, <2>1, <2>2, <2>3, <2>4, <2>5, MakeStep
<1>4. CASE GenerateAccountingSequencesProcessed
  <2> DEFINE records == [i \in 1..Count["accounting_sequences_processed"] |->
             [id |-> Str(2000 + i - 1), accounting_sequence_id |-> Str(3000 + i - 1),
              record_type |-> Draw("accounting_sequences_processed", i, "content")]]
  <2>1. /\ Make("accounting_sequences_processed", records, "accounting_transaction_keys")
        /\ UNCHANGED <<fresh, Others>>
    BY <1>4 DEF GenerateAccountingSequencesProcessed
  <2>2. IsList(records, Count["accounting_sequences_processed"])
    BY DEF IsList
  <2> HIDE DEF records
  <2>3. FirstIsPrimary("accounting_sequences_processed", records)
    BY DEF FirstIsPrimary
  <2>4. "accounting_sequences_processed" \in EarlyLists
    BY DEF EarlyLists
  <2>5. Consistent([call.made EXCEPT !["accounting_sequences_processed"] = records], call.centers)
    BY <2>1, <2>4, EarlyConsistent DEF Make
  <2> QED
    BY <1>0, <2>1, <2>2, <2>3, <2>4, <2>5, MakeStep
<1>5. CASE GenerateAccountingTransactionKeys
  <2> DEFINE records == [i \in 1..Count["accounting_transaction_keys"] |->
             [id |-> Str(4000 + i - 1), number |-> i * 100,
              tax_rate |-> Draw("accounting_transaction_keys", i, "content")]]
  <2>1. /\ Make("accounting_transaction_keys", records, "creditors")
        /\ UNCHANGED <<fresh, Others>>
    BY <1>5 DEF GenerateAccountingTransactionKeys
  <2>2. IsList(records, Count["accounting_transaction_keys"])
    BY DEF IsList
  <2> HIDE DEF records
  <2>3. FirstIsPrimary("accounting_transaction_keys", records)
    BY DEF FirstIsPrimary
  <2>4. "accounting_transaction_keys" \in EarlyLists
    BY DEF EarlyLists
  <2>5. Consistent([call.made EXCEPT !["accounting_transaction_keys"] = records], call.centers)
    BY <2>1, <2>4, EarlyConsistent DEF Make
  <2> QED
    BY <1>0, <2>1, <2>2, <2>3, <2>4, <2>5, MakeStep
<1> QED
  BY <1>1, <1>2, <1>3, <1>4, <1>5

\* A partner names an addressee that was read, or has a guid of its own.
LEMMA PartnerKnown ==
  ASSUME CallTypeOK(call), Len(call.read) = AddresseeCount,
         NEW list \in {"creditors", "debitors"}, NEW base, NEW i \in 1..Count[list]
  PROVE  Partner(list, base, i).addressee_id \in Known
<1>1. /\ AddresseeCount \in Nat \ {0}
      /\ call.read = [j \in 1..AddresseeCount |-> call.read[j]]
      /\ \A j \in 1..AddresseeCount : call.read[j] \in Known
  BY CountAssumption DEF CallTypeOK
<1>2. list \in Lists /\ "addressee" \in Fields
  BY DEF Lists, Fields
<1>3. Draw(list, i, "addressee") \in Nat
  BY <1>2, DrawIsNat
<1>4. Choice(call.read, Draw(list, i, "addressee")) \in Known
  BY <1>1, <1>3, ChoiceInPool
<1> QED
  BY <1>4 DEF Partner

LEMMA PartnerSteps ==
  ASSUME IInv, GenerateCreditors \/ GenerateDebitors
  PROVE  IInv'
<1>1. PICK list \in {"creditors", "debitors"}, base \in {70000, 10000},
           next \in {"debitors", "centers"} :
        /\ Make(list, [i \in 1..Count[list] |-> Partner(list, base, i)], next)
        /\ Rank[next] = Rank[list] + 1
        /\ fresh' = fresh + Count[list]
        /\ UNCHANGED Others
  BY RankValues DEF GenerateCreditors, GenerateDebitors
<1> DEFINE records == [i \in 1..Count[list] |-> Partner(list, base, i)]
           new == [call.made EXCEPT ![list] = records]
<1>2. At(list) /\ list \in Lists /\ next \in Steps
  BY <1>1, ListNames, StepsAre DEF Make
<1>3. /\ CallTypeOK(call) /\ Len(call.read) = AddresseeCount
      /\ Consistent(call.made, call.centers)
      /\ DOMAIN call.made = Lists
      /\ \A l \in Lists : Rank[l] >= Rank[list] => DOMAIN call.made[l] = {}
  BY <1>2, AtList
<1>a. new[list] = records /\ \A l \in Lists : l # list => new[l] = call.made[l]
  <2> HIDE DEF records
  <2> QED
    BY <1>2, <1>3
<1>4. PartnersKnown(new)
  <2>1. ASSUME NEW r \in Elements(new[list])
        PROVE  r.addressee_id \in Known
    <3>1. r \in Elements(records)
      BY <2>1, <1>a
    <3>a. DOMAIN records = 1..Count[list]
      OBVIOUS
    <3>b. \A i \in 1..Count[list] : records[i] = Partner(list, base, i)
      OBVIOUS
    <3> HIDE DEF new, records
    <3>2. PICK i \in 1..Count[list] : r = Partner(list, base, i)
      BY <3>1, <3>a, <3>b DEF Elements
    <3> QED
      BY <3>2, <1>3, PartnerKnown
  <2>2. ASSUME NEW l \in {"creditors", "debitors"}, l # list, NEW r \in Elements(new[l])
        PROVE  r.addressee_id \in Known
    <3>1. new[l] = call.made[l]
      BY <2>2, <1>a, ListNames
    <3> HIDE DEF new
    <3> QED
      BY <3>1, <2>2, <1>3 DEF Consistent, PartnersKnown
  <2> HIDE DEF new
  <2> QED
    BY <2>1, <2>2 DEF PartnersKnown
<1>5. \A l \in {"assets_stocktakings"} \cup OpenItemLists \cup RuleLists : DOMAIN new[l] = {}
  <2>1. \A l \in {"assets_stocktakings"} \cup OpenItemLists \cup RuleLists :
          l \in Lists /\ l # list /\ Rank[l] >= Rank[list]
    BY ListNames
  <2> HIDE DEF new
  <2> QED
    BY <2>1, <1>3, <1>a
<1>6. Consistent(new, call.centers)
  <2> HIDE DEF new
  <2>a. /\ \A l \in OpenItemLists : DOMAIN new[l] = {}
        /\ \A l \in RuleLists : DOMAIN new[l] = {}
    BY <1>5 DEF OpenItemLists, Payables, RuleLists
  <2>1. ItemsRefer(new, call.centers)
    BY <2>a DEF ItemsRefer, Elements
  <2>2. StocktakingsRefer(new)
    BY <1>5, ConsistentIfEmpty
  <2>3. RulesRefer(new)
    BY <2>a DEF RulesRefer, Elements
  <2> QED
    BY <1>4, <2>1, <2>2, <2>3 DEF Consistent
<1>7. IsList(records, Count[list]) /\ FirstIsPrimary(list, records)
  BY DEF FirstIsPrimary, IsList
<1>8. fresh' \in Nat
  BY <1>1, <1>2, CountAssumption DEF IInv, NumbersOK
<1>9. Make(list, records, next) /\ Rank[next] = Rank[list] + 1 /\ UNCHANGED Others
  BY <1>1
<1>10. Consistent([call.made EXCEPT ![list] = records], call.centers)
  BY <1>6
<1> HIDE DEF records
<1> QED
  BY <1>2, <1>7, <1>8, <1>9, <1>10, MakeStep

\* An open item names a sequence and a term of payment of its scope, and a cost
\* center of the list the call got, or none.
LEMMA ItemRefers ==
  ASSUME IInv, NEW list \in OpenItemLists, At(list), NEW base, NEW i \in 1..Count[list]
  PROVE  LET r == OpenItem(list, base, i)
         IN  /\ r.accounting_sequence_id \in
                  {s.id : s \in Elements(call.made["accounting_sequences_processed"])}
             /\ r.kost1_cost_center_id \in {c.id : c \in Elements(call.centers)} \cup {None}
             /\ r.term_of_payment_id \in TermsOf(call.made) \cup {None}
<1> DEFINE sequences == call.made["accounting_sequences_processed"]
           terms == call.made["terms_of_payment"]
<1>1. /\ list \in Lists /\ Rank[list] \in 9..11
      /\ {"accounting_sequences_processed", "terms_of_payment"} \subseteq Lists
      /\ Rank["accounting_sequences_processed"] < Rank[list]
      /\ Rank["terms_of_payment"] < Rank[list]
  BY ListNames, RankValues DEF Lists
<1>2. /\ CallTypeOK(call)
      /\ DOMAIN sequences = 1..Count["accounting_sequences_processed"]
      /\ DOMAIN terms = 1..Count["terms_of_payment"]
  BY <1>1, AtList
<1>3. /\ Count["accounting_sequences_processed"] \in Nat \ {0}
      /\ Count["terms_of_payment"] \in Nat \ {0}
      /\ Count["cost_centers"] \in Nat \ {0}
  BY <1>1, CountAssumption
<1>4. \A field \in {"sequence", "cost_center", "term"} : Draw(list, i, field) \in Nat
  BY <1>1, <1>2, DrawIsNat DEF Fields
<1>5. DOMAIN call.centers = 1..Count["cost_centers"]
  <2>1. Key \in Cached(centers) /\ call.centers = centers[Key]
    BY <1>1 DEF IInv, CallOK, At
  <2>2. centers[Key] = CostCenters(Key, 1)
    BY <2>1 DEF IInv, CachesOK
  <2> QED
    BY <2>1, <2>2 DEF CostCenters
<1>6. Choice(Ids(sequences), Draw(list, i, "sequence")) \in {s.id : s \in Elements(sequences)}
  <2>1. Ids(sequences) = [j \in 1..Count["accounting_sequences_processed"] |-> sequences[j].id]
    BY <1>2 DEF Ids
  <2> DEFINE pool == Ids(sequences)
  <2>2. pool = [j \in 1..Count["accounting_sequences_processed"] |-> pool[j]]
    BY <2>1
  <2> HIDE DEF pool
  <2>3. PICK j \in 1..Count["accounting_sequences_processed"] :
          Choice(pool, Draw(list, i, "sequence")) = pool[j]
    BY <1>3, <1>4, <2>2, ChoiceInPool
  <2>4. pool[j] = sequences[j].id
    BY <2>1 DEF pool
  <2> QED
    BY <1>2, <2>3, <2>4 DEF pool, Elements
<1>7. Choice(Ids(call.centers), Draw(list, i, "cost_center")) \in {c.id : c \in Elements(call.centers)}
  <2>1. Ids(call.centers) = [j \in 1..Count["cost_centers"] |-> call.centers[j].id]
    BY <1>5 DEF Ids
  <2> DEFINE pool == Ids(call.centers)
  <2>2. pool = [j \in 1..Count["cost_centers"] |-> pool[j]]
    BY <2>1
  <2> HIDE DEF pool
  <2>3. PICK j \in 1..Count["cost_centers"] :
          Choice(pool, Draw(list, i, "cost_center")) = pool[j]
    BY <1>3, <1>4, <2>2, ChoiceInPool
  <2>4. pool[j] = call.centers[j].id
    BY <2>1 DEF pool
  <2> QED
    BY <1>5, <2>3, <2>4 DEF pool, Elements
<1>8. Choice(Numbers(terms), Draw(list, i, "term")) \in {ToInt(t.id) : t \in Elements(terms)}
  <2>1. Numbers(terms) = [j \in 1..Count["terms_of_payment"] |-> ToInt(terms[j].id)]
    BY <1>2 DEF Numbers
  <2> DEFINE pool == Numbers(terms)
  <2>2. pool = [j \in 1..Count["terms_of_payment"] |-> pool[j]]
    BY <2>1
  <2> HIDE DEF pool
  <2>3. PICK j \in 1..Count["terms_of_payment"] :
          Choice(pool, Draw(list, i, "term")) = pool[j]
    BY <1>3, <1>4, <2>2, ChoiceInPool
  <2>4. pool[j] = ToInt(terms[j].id)
    BY <2>1 DEF pool
  <2> QED
    BY <1>2, <2>3, <2>4 DEF pool, Elements
<1> QED
  BY <1>6, <1>7, <1>8 DEF OpenItem, TermsOf

LEMMA OpenItemSteps ==
  ASSUME IInv, NEW list \in OpenItemLists, NEW base, NEW next \in Steps,
         Rank[next] = Rank[list] + 1, GenerateOpenItems(list, base, next)
  PROVE  IInv'
<1> DEFINE records == [i \in 1..Count[list] |-> OpenItem(list, base, i)]
           new == [call.made EXCEPT ![list] = records]
<1>1. /\ Make(list, records, next) /\ UNCHANGED Others
      /\ fresh' = fresh + Count[list]
  BY DEF GenerateOpenItems
<1>2. list \in Lists /\ At(list) /\ Rank[list] \in 9..11
  BY <1>1, ListNames DEF Make
<1>3. /\ CallTypeOK(call)
      /\ Consistent(call.made, call.centers)
      /\ DOMAIN call.made = Lists
      /\ \A l \in Lists : Rank[l] >= Rank[list] => DOMAIN call.made[l] = {}
  BY <1>2, AtList
<1>4. new[list] = records /\ \A l \in Lists : l # list => new[l] = call.made[l]
  <2> HIDE DEF records
  <2> QED
    BY <1>2, <1>3
<1>5. PartnersKnown(new)
  <2>1. \A l \in {"creditors", "debitors"} : l \in Lists /\ l # list
    BY <1>2, ListNames
  <2>2. \A l \in {"creditors", "debitors"} : new[l] = call.made[l]
    BY <2>1, <1>4
  <2> HIDE DEF new
  <2> QED
    BY <2>2, <1>3, ConsistentElsewhere
<1>6. ItemsRefer(new, call.centers)
  <2>1. /\ "accounting_sequences_processed" \in Lists /\ "terms_of_payment" \in Lists
        /\ list # "accounting_sequences_processed" /\ list # "terms_of_payment"
    BY <1>2, RankValues DEF Lists
  <2>2. /\ new["accounting_sequences_processed"] = call.made["accounting_sequences_processed"]
        /\ new["terms_of_payment"] = call.made["terms_of_payment"]
    BY <2>1, <1>4
  <2>3. \A l \in OpenItemLists : l # list => new[l] = call.made[l]
    BY <1>4, ListNames
  <2>a. DOMAIN records = 1..Count[list]
    OBVIOUS
  <2>b. \A i \in 1..Count[list] : records[i] = OpenItem(list, base, i)
    OBVIOUS
  <2> HIDE DEF records, new
  <2>4. ASSUME NEW r \in Elements(new[list])
        PROVE  /\ r.accounting_sequence_id \in
                    {s.id : s \in Elements(call.made["accounting_sequences_processed"])}
               /\ r.kost1_cost_center_id \in {c.id : c \in Elements(call.centers)} \cup {None}
               /\ r.term_of_payment_id \in TermsOf(call.made) \cup {None}
    <3>1. PICK i \in 1..Count[list] : r = OpenItem(list, base, i)
      BY <1>4, <2>a, <2>b DEF Elements
    <3> QED
      BY <3>1, <1>2, ItemRefers
  <2>5. TermsOf(new) = TermsOf(call.made)
    BY <2>2 DEF TermsOf
  <2>6. ASSUME NEW l \in OpenItemLists, NEW r \in Elements(new[l])
        PROVE  /\ r.accounting_sequence_id \in
                    {s.id : s \in Elements(call.made["accounting_sequences_processed"])}
               /\ r.kost1_cost_center_id \in {c.id : c \in Elements(call.centers)} \cup {None}
               /\ r.term_of_payment_id \in TermsOf(call.made) \cup {None}
    <3>1. CASE l = list
      BY <3>1, <2>4
    <3>2. CASE l # list
      BY <3>2, <2>3, <1>3 DEF Consistent, ItemsRefer
    <3> QED
      BY <3>1, <3>2
  <2> QED
    BY <2>2, <2>5, <2>6 DEF ItemsRefer
<1>7. DOMAIN new["assets_stocktakings"] = {} /\ \A l \in RuleLists : DOMAIN new[l] = {}
  <2>1. \A l \in {"assets_stocktakings"} \cup RuleLists :
          l \in Lists /\ l # list /\ Rank[l] >= Rank[list]
    BY <1>2, ListNames
  <2>2. \A l \in {"assets_stocktakings"} \cup RuleLists : DOMAIN new[l] = {}
    <3> HIDE DEF new
    <3> QED
      BY <2>1, <1>3, <1>4
  <2> HIDE DEF new
  <2> QED
    BY <2>2
<1>8. Consistent(new, call.centers)
  <2> HIDE DEF new
  <2>1. StocktakingsRefer(new)
    BY <1>7, ConsistentIfEmpty
  <2>2. RulesRefer(new)
    BY <1>7 DEF RulesRefer, Elements
  <2> QED
    BY <1>5, <1>6, <2>1, <2>2 DEF Consistent
<1>9. IsList(records, Count[list]) /\ FirstIsPrimary(list, records)
  BY <1>2, RankValues DEF FirstIsPrimary, IsList
<1>10. fresh' \in Nat
  BY <1>1, <1>2, CountAssumption DEF IInv, NumbersOK
<1>11. Consistent([call.made EXCEPT ![list] = records], call.centers)
  BY <1>8
<1> HIDE DEF records
<1> QED
  BY <1>1, <1>2, <1>9, <1>10, <1>11, MakeStep

\* The stocktakings lie on accounts of the scope, the rules name accounts and
\* transaction keys of it.
LEMMA StocktakingStep ==
  ASSUME IInv, GenerateAssetStocktakings
  PROVE  IInv'
<1> DEFINE list == "assets_stocktakings"
           next == "posting_proposal_rules_incoming_invoices"
           accounts == call.made["general_ledger_accounts"]
           account(i) == IF i % 2 = 1 THEN Choice(accounts, Draw(list, i, "account")) ELSE None
           records == [i \in 1..Count[list] |->
                         [id |-> Str(5000 + i - 1), general_ledger_account |-> account(i)]]
           new == [call.made EXCEPT ![list] = records]
<1>1. Make(list, records, next) /\ UNCHANGED <<fresh, Others>>
  BY DEF GenerateAssetStocktakings
<1>2. /\ list \in Lists /\ At(list) /\ Rank[list] = 12
      /\ next \in Steps /\ Rank[next] = 13
      /\ "general_ledger_accounts" \in Lists /\ Rank["general_ledger_accounts"] = 3
  BY <1>1, ListNames, StepsAre, RankValues DEF Make, Lists
<1> HIDE DEF records
<1>3. /\ CallTypeOK(call)
      /\ Consistent(call.made, call.centers)
      /\ DOMAIN call.made = Lists
      /\ DOMAIN accounts = 1..Count["general_ledger_accounts"]
      /\ IsList(accounts, Count["general_ledger_accounts"])
      /\ \A l \in Lists : Rank[l] >= Rank[list] => DOMAIN call.made[l] = {}
  BY <1>2, AtList
<1>4. new[list] = records /\ \A l \in Lists : l # list => new[l] = call.made[l]
  BY <1>2, <1>3
<1> HIDE DEF new
<1>5. PartnersKnown(new) /\ ItemsRefer(new, call.centers)
  <2>1. \A l \in {"creditors", "debitors"} \cup OpenItemLists
               \cup {"accounting_sequences_processed", "terms_of_payment"} :
          l \in Lists /\ l # list
    BY <1>2, ListNames, RankValues DEF EarlyLists
  <2>2. \A l \in {"creditors", "debitors"} \cup OpenItemLists
               \cup {"accounting_sequences_processed", "terms_of_payment"} :
          new[l] = call.made[l]
    BY <2>1, <1>4
  <2>3. /\ \A l \in {"creditors", "debitors"} : new[l] = call.made[l]
        /\ \A l \in OpenItemLists \cup {"accounting_sequences_processed", "terms_of_payment"} :
             new[l] = call.made[l]
    BY <2>2
  <2> QED
    BY <2>3, <1>3, ConsistentElsewhere
<1>6. StocktakingsRefer(new)
  <2>1. new["general_ledger_accounts"] = accounts
    BY <1>2, <1>4
  <2>2. DOMAIN records = 1..Count[list]
    BY DEF records
  <2>3. \A i \in 1..Count[list] : records[i].general_ledger_account = account(i)
    BY DEF records
  <2>4. ASSUME NEW i \in 1..Count[list]
        PROVE  account(i) \in Elements(accounts) \cup {None}
    <3>1. CASE i % 2 # 1
      BY <3>1
    <3>2. CASE i % 2 = 1
      <4>1. Draw(list, i, "account") \in Nat
        BY <1>2, <1>3, DrawIsNat DEF Fields
      <4>2. Count["general_ledger_accounts"] \in Nat \ {0}
        BY <1>2, CountAssumption
      <4>3. accounts = [j \in 1..Count["general_ledger_accounts"] |-> accounts[j]]
        BY <1>3 DEF IsList
      <4>4. PICK j \in 1..Count["general_ledger_accounts"] :
              Choice(accounts, Draw(list, i, "account")) = accounts[j]
        BY <4>1, <4>2, <4>3, ChoiceInPool
      <4> QED
        BY <3>2, <4>4, <1>3 DEF Elements
    <3> QED
      BY <3>1, <3>2
  <2> HIDE DEF account
  <2>5. ASSUME NEW r \in Elements(new[list])
        PROVE  r.general_ledger_account \in Elements(accounts) \cup {None}
    <3>1. PICK i \in 1..Count[list] : r = records[i]
      BY <1>4, <2>2 DEF Elements
    <3> QED
      BY <3>1, <2>3, <2>4
  <2> QED
    BY <2>1, <2>5 DEF StocktakingsRefer
<1>7. RulesRefer(new)
  <2>1. \A l \in RuleLists : l \in Lists /\ l # list /\ Rank[l] >= Rank[list]
    BY <1>2, ListNames
  <2>2. \A l \in RuleLists : DOMAIN new[l] = {}
    BY <2>1, <1>3, <1>4
  <2> QED
    BY <2>2 DEF RulesRefer, Elements
<1>8. Consistent([call.made EXCEPT ![list] = records], call.centers)
  BY <1>5, <1>6, <1>7 DEF Consistent, new
<1>9. IsList(records, Count[list]) /\ FirstIsPrimary(list, records)
  BY DEF records, FirstIsPrimary, IsList
<1>10. fresh' \in Nat /\ UNCHANGED Others /\ Rank[next] = Rank[list] + 1
  BY <1>1, <1>2 DEF IInv, NumbersOK
<1> HIDE DEF list, next
<1> QED
  BY <1>1, <1>2, <1>8, <1>9, <1>10, MakeStep

LEMMA RuleSteps ==
  ASSUME IInv, NEW list \in RuleLists, NEW base, NEW next \in Steps,
         Rank[next] = Rank[list] + 1, GeneratePostingProposalRules(list, base, next)
  PROVE  IInv'
<1> DEFINE accounts == call.made["general_ledger_accounts"]
           keys == call.made["accounting_transaction_keys"]
           records == [i \in 1..Count[list] |->
             [id |-> Str(base + i - 1),
              accounting_transaction_key |-> Choice(keys, Draw(list, i, "key")).number,
              account_number |-> Choice(accounts, Draw(list, i, "account")).account_number]]
           new == [call.made EXCEPT ![list] = records]
<1>1. Make(list, records, next) /\ UNCHANGED <<fresh, Others>>
  BY DEF GeneratePostingProposalRules
<1>2. /\ list \in Lists /\ At(list) /\ Rank[list] \in 13..14
      /\ "general_ledger_accounts" \in Lists /\ Rank["general_ledger_accounts"] = 3
      /\ "accounting_transaction_keys" \in Lists /\ Rank["accounting_transaction_keys"] = 5
  BY <1>1, ListNames, RankValues DEF Make, Lists
<1> HIDE DEF records
<1>3. /\ CallTypeOK(call)
      /\ Consistent(call.made, call.centers)
      /\ DOMAIN call.made = Lists
      /\ DOMAIN accounts = 1..Count["general_ledger_accounts"]
      /\ DOMAIN keys = 1..Count["accounting_transaction_keys"]
      /\ IsList(accounts, Count["general_ledger_accounts"])
      /\ IsList(keys, Count["accounting_transaction_keys"])
  BY <1>2, AtList
<1>4. new[list] = records /\ \A l \in Lists : l # list => new[l] = call.made[l]
  BY <1>2, <1>3
<1> HIDE DEF new
<1>5. PartnersKnown(new) /\ ItemsRefer(new, call.centers) /\ StocktakingsRefer(new)
  <2>1. \A l \in {"creditors", "debitors", "assets_stocktakings", "general_ledger_accounts"}
               \cup OpenItemLists \cup {"accounting_sequences_processed", "terms_of_payment"} :
          l \in Lists /\ l # list
    BY <1>2, ListNames, RankValues DEF EarlyLists
  <2>2. \A l \in {"creditors", "debitors", "assets_stocktakings", "general_ledger_accounts"}
               \cup OpenItemLists \cup {"accounting_sequences_processed", "terms_of_payment"} :
          new[l] = call.made[l]
    BY <2>1, <1>4
  <2>3. /\ \A l \in {"creditors", "debitors"} : new[l] = call.made[l]
        /\ \A l \in OpenItemLists \cup {"accounting_sequences_processed", "terms_of_payment"} :
             new[l] = call.made[l]
        /\ \A l \in {"assets_stocktakings", "general_ledger_accounts"} : new[l] = call.made[l]
    BY <2>2
  <2> QED
    BY <2>3, <1>3, ConsistentElsewhere
<1>6. RulesRefer(new)
  <2>1. new["general_ledger_accounts"] = accounts /\ new["accounting_transaction_keys"] = keys
    BY <1>2, <1>4, RankValues
  <2>2. DOMAIN records = 1..Count[list]
    BY DEF records
  <2>3. ASSUME NEW i \in 1..Count[list]
        PROVE  /\ records[i].accounting_transaction_key \in {k.number : k \in Elements(keys)}
               /\ records[i].account_number \in {a.account_number : a \in Elements(accounts)}
    <3>1. Draw(list, i, "account") \in Nat /\ Draw(list, i, "key") \in Nat
      BY <1>2, <1>3, DrawIsNat DEF Fields
    <3>2. /\ Count["general_ledger_accounts"] \in Nat \ {0}
          /\ Count["accounting_transaction_keys"] \in Nat \ {0}
      BY <1>2, CountAssumption
    <3>3. accounts = [j \in 1..Count["general_ledger_accounts"] |-> accounts[j]]
      BY <1>3 DEF IsList
    <3>a. keys = [j \in 1..Count["accounting_transaction_keys"] |-> keys[j]]
      BY <1>3 DEF IsList
    <3> HIDE DEF accounts, keys
    <3>b. Count["general_ledger_accounts"] \in Nat \ {0} /\ Draw(list, i, "account") \in Nat
      BY <3>1, <3>2
    <3>4. PICK j \in 1..Count["general_ledger_accounts"] :
            Choice(accounts, Draw(list, i, "account")) = accounts[j]
      BY <3>b, <3>3, ChoiceInPool
    <3>5. PICK place \in 1..Count["accounting_transaction_keys"] :
            Choice(keys, Draw(list, i, "key")) = keys[place]
      BY <3>1, <3>2, <3>a, ChoiceInPool
    <3>6. /\ Choice(accounts, Draw(list, i, "account")) \in Elements(accounts)
          /\ Choice(keys, Draw(list, i, "key")) \in Elements(keys)
      BY <3>4, <3>5, <1>3 DEF Elements
    <3>7. /\ records[i].accounting_transaction_key = Choice(keys, Draw(list, i, "key")).number
          /\ records[i].account_number =
               Choice(accounts, Draw(list, i, "account")).account_number
      BY DEF records
    <3> QED
      BY <3>6, <3>7
  <2>4. ASSUME NEW l \in RuleLists, NEW r \in Elements(new[l])
        PROVE  /\ r.accounting_transaction_key \in {k.number : k \in Elements(keys)}
               /\ r.account_number \in {a.account_number : a \in Elements(accounts)}
    <3>1. CASE l = list
      <4>1. PICK i \in 1..Count[list] : r = records[i]
        BY <3>1, <1>4, <2>2 DEF Elements
      <4> QED
        BY <4>1, <2>3
    <3>2. CASE l # list
      <4>1. new[l] = call.made[l]
        BY <3>2, <1>4, ListNames
      <4> QED
        BY <4>1, <1>3 DEF Consistent, RulesRefer
    <3> QED
      BY <3>1, <3>2
  <2> QED
    BY <2>1, <2>4 DEF RulesRefer
<1>8. Consistent([call.made EXCEPT ![list] = records], call.centers)
  BY <1>5, <1>6 DEF Consistent, new
<1>9. IsList(records, Count[list]) /\ FirstIsPrimary(list, records)
  BY <1>2, RankValues DEF records, FirstIsPrimary, IsList
<1>10. fresh' \in Nat /\ UNCHANGED Others
  BY <1>1 DEF IInv, NumbersOK
<1> QED
  BY <1>1, <1>2, <1>8, <1>9, <1>10, MakeStep

(***************************************************************************)
(* The other steps                                                         *)
(***************************************************************************)

\* The primary cost system is the first, whose id is 1.
LEMMA CentersStep ==
  ASSUME IInv, GetCostCenters
  PROVE  IInv'
<1> DEFINE records == IF Key \in Cached(centers) THEN centers[Key]
                      ELSE CostCenters(Key, ToInt(call.made["cost_systems"][1].id))
<1>1. /\ call # Idle /\ call.at = "centers" /\ Rank[call.at] = 8
      /\ CallTypeOK(call) /\ MadeSoFar(call)
      /\ call.made["cost_systems"][1].id = Str(1)
      /\ Key \notin Cached(scopes) /\ Len(call.read) = AddresseeCount
      /\ Consistent(call.made, call.centers)
  BY RankValues DEF IInv, CallOK, GetCostCenters, At
<1>2. records = CostCenters(Key, 1)
  <2>1. ToInt(Str(1)) = 1
    BY DEF ToInt, Str
  <2> QED
    BY <1>1, <2>1 DEF IInv, CachesOK
<1>3. /\ centers' = Put(centers, Key, CostCenters(Key, 1))
      /\ call' = [call EXCEPT !.centers = CostCenters(Key, 1), !.at = "accounts_payable"]
      /\ UNCHANGED <<addressees, scopes, years, fresh, restarts, listed, generated>>
  BY <1>2 DEF GetCostCenters
<1> HIDE DEF records
<1>4. call' = [want |-> call.want, at |-> "accounts_payable", client |-> call.client,
               year |-> call.year, made |-> call.made, read |-> call.read,
               centers |-> CostCenters(Key, 1),
               records |-> call.records, done |-> call.done]
  BY <1>1, <1>3 DEF CallTypeOK
<1>5. /\ Cached(centers)' = Cached(centers) \cup {Key}
      /\ \A k \in Cached(centers) \cup {Key} :
           centers'[k] = IF k = Key THEN CostCenters(Key, 1) ELSE centers[k]
  BY <1>3 DEF Put, Cached
<1>6. Key \in ScopeKeys /\ Key' = Key
  BY <1>1, <1>4 DEF CallTypeOK, Key, ScopeKeys
<1>7. NumbersOK'
  BY <1>3 DEF IInv, NumbersOK, Known
<1>8. CachesOK'
  <2>1. \A k \in Cached(scopes) : k \in Cached(centers) /\ k # Key /\ centers'[k] = centers[k]
    BY <1>1, <1>5 DEF IInv, CachesOK
  <2>2. \A k \in Cached(centers) \cup {Key} : centers'[k] = CostCenters(k, 1)
    BY <1>5 DEF IInv, CachesOK
  <2>3. Cached(scopes)' = Cached(scopes) /\ Cached(years)' = Cached(years)
    BY <1>3 DEF Cached
  <2>4. \A k \in Cached(scopes) : Consistent(scopes[k], centers[k])'
    BY <2>1, <1>3 DEF IInv, CachesOK, Consistent, PartnersKnown, Known, ItemsRefer, TermsOf,
       StocktakingsRefer, RulesRefer
  <2>5. \A k \in Cached(centers)' : (centers[k] = CostCenters(k, 1))'
    BY <2>2, <1>5 DEF CostCenters
  <2> QED
    BY <1>3, <1>5, <1>6, <2>3, <2>4, <2>5 DEF IInv, CachesOK
<1>9. YearsReferToTheirTerms'
  BY <1>3 DEF IInv, YearsReferToTheirTerms, Cached
<1>10. CallTypeOK(call)'
  <2>1. CallTypeOK(call')
    BY <1>1, <1>4, StepsAre DEF CallTypeOK
  <2> QED
    BY <2>1, <1>3 DEF CallTypeOK, Known
<1>11. MadeSoFar(call)'
  <2>1. \A l \in Lists : Rank[l] < 8 <=> Rank[l] < 9
    BY ListRanks
  <2> QED
    BY <1>1, <1>4, <2>1, RankValues DEF MadeSoFar
<1>12. Consistent(call.made, call.centers)'
  <2>1. \A l \in OpenItemLists : DOMAIN call.made[l] = {}
    <3>1. \A l \in OpenItemLists : l \in Lists /\ ~(Rank[l] < 8)
      BY ListNames
    <3> QED
      BY <1>1, <3>1 DEF MadeSoFar
  <2>2. ItemsRefer(call.made, CostCenters(Key, 1))
    BY <2>1 DEF ItemsRefer, Elements
  <2>3. Consistent(call.made, CostCenters(Key, 1))
    BY <1>1, <2>2 DEF Consistent
  <2> QED
    BY <2>3, <1>3, <1>4 DEF Consistent, PartnersKnown, Known, ItemsRefer, TermsOf,
       StocktakingsRefer, RulesRefer
<1>13. YearsSoFar(call) /\ call.want = "years" => YearsSoFar(call)'
  BY <1>3, <1>4 DEF YearsSoFar, Cached
<1>14. CallOK'
  <2>1. Key' \in Cached(centers)' /\ call'.centers = centers'[Key']
    BY <1>4, <1>5, <1>6
  <2>2. Rank[call'.at] = 9 /\ call'.at \notin {"answer", "next", "years"}
    BY <1>4, RankValues
  <2>3. CallOK
    BY DEF IInv
  <2>4. Key' \notin Cached(scopes)'
    BY <1>1, <1>3, <1>6 DEF Cached
  <2> QED
    BY <1>1, <1>4, <1>10, <1>11, <1>12, <1>13, <2>1, <2>2, <2>3, <2>4 DEF CallOK
<1> QED
  BY <1>7, <1>8, <1>9, <1>14 DEF IInv

\* The years of a client's list are years.
LEMMA BaseYears ==
  \A c \in Clients :
    /\ BaseYear(c) \in Int
    /\ \A n \in Nat : n + 1 \in 1..Count["fiscal_years"] => BaseYear(c) + n \in Years
<1>1. SUFFICES ASSUME NEW c \in Clients
      PROVE  /\ BaseYear(c) \in Int
             /\ \A n \in Nat : n + 1 \in 1..Count["fiscal_years"] => BaseYear(c) + n \in Years
  OBVIOUS
<1> DEFINE drawn == Value(<<c>>, <<"fiscal_years", 0, "content">>)
<1>2. drawn \in Nat
  <2>1. <<c>> \in Seeds
    BY DEF Seeds
  <2>3. "fiscal_years" \in DOMAIN Count /\ Count["fiscal_years"] \in Nat \ {0}
    BY CountAssumption
  <2>4. <<"fiscal_years", 0, "content">> \in
          {"fiscal_years"} \X (0..Count["fiscal_years"]) \X Fields
    BY <2>3 DEF Fields
  <2>5. <<"fiscal_years", 0, "content">> \in Places
    BY <2>3, <2>4 DEF Places
  <2> QED
    BY <2>1, <2>5, ValueAssumption
<1>3. BaseYear(c) = 2018 + (drawn % 7)
  BY DEF BaseYear
<1> HIDE DEF drawn
<1>4. BaseYear(c) \in Int
  BY <1>2, <1>3
<1>5. ASSUME NEW n \in Nat, n + 1 \in 1..Count["fiscal_years"]
      PROVE  BaseYear(c) + n \in Years
  <2>1. BaseYear(c) + (n + 1) - 1 \in Years
    BY <1>5, YearsAssumption
  <2>2. BaseYear(c) + (n + 1) - 1 = BaseYear(c) + n
    BY <1>4
  <2> QED
    BY <2>1, <2>2
<1> QED
  BY <1>4, <1>5

\* A call that starts, or starts over for the next year, has made no list.
LEMMA NewCallStep ==
  ASSUME IInv,
         call' = [want |-> call'.want, at |-> "scope", client |-> call'.client,
                  year |-> call'.year, made |-> Nothing, read |-> <<>>,
                  centers |-> <<>>, records |-> call'.records, done |-> call'.done],
         UNCHANGED <<fresh, Others>>,
         call'.want \in {"scope", "years"},
         call'.client \in Clients,
         call'.year \in Years,
         call'.done \in 0..Count["fiscal_years"],
         call'.want = "years" =>
           /\ YearsSoFar(call')
           /\ call'.done < Count["fiscal_years"]
           /\ call'.year = BaseYear(call'.client) + call'.done
  PROVE  IInv'
<1>2. call' = [want |-> call'.want, at |-> "scope", client |-> call'.client,
               year |-> call'.year, made |-> Nothing, read |-> <<>>,
               centers |-> <<>>, records |-> call'.records, done |-> call'.done]
  OBVIOUS
<1>3. /\ addressees' = addressees /\ scopes' = scopes /\ centers' = centers
      /\ years' = years /\ restarts' = restarts /\ listed' = listed /\ fresh' = fresh
  BY DEF Others, caches
<1>4. NumbersOK'
  BY <1>3 DEF IInv, NumbersOK, Known
<1>5. CachesOK'
  BY <1>3 DEF IInv, CachesOK, Cached, Consistent, PartnersKnown, Known
<1>6. YearsReferToTheirTerms'
  BY <1>3 DEF IInv, YearsReferToTheirTerms, Cached
<1>7. CallTypeOK(call)'
  <2>1. /\ call'.at = "scope" /\ call'.read = <<>>
        /\ call'.made = Nothing /\ call'.centers = <<>>
    BY <1>2
  <2>2. "scope" \in Steps
    BY DEF Steps
  <2>3. <<>> \in Seq(Known')
    OBVIOUS
  <2>4. call' = [want |-> call'.want, at |-> call'.at, client |-> call'.client,
                 year |-> call'.year, made |-> call'.made, read |-> call'.read,
                 centers |-> call'.centers,
                 records |-> call'.records, done |-> call'.done]
    BY <1>2, <2>1
  <2>5. CallTypeOK(call')
    BY <1>3, <2>1, <2>2, <2>3, <2>4 DEF CallTypeOK, Known
  <2> QED
    BY <1>3, <2>1, <2>2, <2>3, <2>4 DEF CallTypeOK, Known
<1>8. MadeSoFar(call)'
  <2>1. \A l \in Lists : ~(Rank[l] < Rank["scope"])
    <3>1. \A l \in Lists : Rank[l] \in 1..14
      BY ListRanks
    <3>2. Rank["scope"] = 0
      BY RankValues
    <3>3. ASSUME NEW l \in Lists PROVE ~(Rank[l] < 0)
      BY <3>1
    <3> QED
      BY <3>2, <3>3
  <2>2. \A l \in Lists : DOMAIN Nothing[l] = {}
    BY DEF Nothing
  <2>3. DOMAIN Nothing = Lists
    BY DEF Nothing
  <2>4. call'.made = Nothing /\ call'.at = "scope"
    BY <1>2
  <2>5. \A l \in Lists : ~(Rank[l] < Rank[call'.at]) /\ DOMAIN call'.made[l] = {}
    BY <2>1, <2>2, <2>4
  <2>6. DOMAIN call'.made = Lists
    BY <2>3, <2>4
  <2> QED
    BY <2>5, <2>6 DEF MadeSoFar
<1>9. Consistent(call.made, call.centers)'
  <2>1. \A l \in {"creditors", "debitors", "assets_stocktakings"} \cup OpenItemLists \cup RuleLists :
          DOMAIN Nothing[l] = {}
    BY ListNames DEF Nothing
  <2> DEFINE made == Nothing
  <2> HIDE DEF made
  <2>2. \A l \in {"creditors", "debitors", "assets_stocktakings"} \cup OpenItemLists \cup RuleLists :
          DOMAIN made[l] = {}
    BY <2>1 DEF made
  <2>3. call'.made = made
    BY <1>2 DEF made
  <2> QED
    BY <2>2, <2>3 DEF Consistent, PartnersKnown, ItemsRefer, StocktakingsRefer, RulesRefer,
       Elements, OpenItemLists, Payables, RuleLists
<1>10. CallOK'
  <2>1. Rank[call'.at] = 0 /\ call'.at \notin {"answer", "next", "years"}
    BY <1>2, RankValues
  <2>2. call'.want = "years" =>
          /\ YearsSoFar(call)'
          /\ call'.done < Count["fiscal_years"]
          /\ call'.year = BaseYear(call'.client) + call'.done
    BY <1>3 DEF YearsSoFar, Cached
  <2> QED
    BY <1>7, <1>8, <1>9, <2>1, <2>2 DEF CallOK
<1> QED
  BY <1>4, <1>5, <1>6, <1>10 DEF IInv

LEMMA AskScopeStep ==
  ASSUME IInv, NEW c \in Clients, NEW y \in Years, AskScope(c, y)
  PROVE  IInv'
<1>1. call' = NewCall("scope", c, y, <<>>) /\ UNCHANGED <<fresh, Others>>
  BY DEF AskScope
<1>2. Count["fiscal_years"] \in Nat \ {0}
  BY CountAssumption
<1> QED
  BY <1>1, <1>2, NewCallStep DEF NewCall

LEMMA AskYearsStep ==
  ASSUME IInv, NEW c \in Clients, AskYears(c)
  PROVE  IInv'
<1> DEFINE records == FiscalYears(BaseYear(c))
<1>1. call' = NewCall("years", c, BaseYear(c), records) /\ UNCHANGED <<fresh, Others>>
  BY DEF AskYears
<1>2. Count["fiscal_years"] \in Nat \ {0}
  BY CountAssumption
<1>3. BaseYear(c) \in Years /\ BaseYear(c) = BaseYear(c) + 0
  BY <1>2, BaseYears
<1>4. /\ call'.client = c /\ call'.records = records /\ call'.done = 0
      /\ call'.want = "years" /\ call'.year = BaseYear(c)
      /\ call' = [want |-> call'.want, at |-> "scope", client |-> call'.client,
                  year |-> call'.year, made |-> Nothing, read |-> <<>>,
                  centers |-> <<>>, records |-> call'.records, done |-> call'.done]
  BY <1>1 DEF NewCall
<1>5. YearsSoFar(call')
  BY <1>2, <1>4 DEF YearsSoFar, FiscalYears
<1> QED
  BY <1>1, <1>2, <1>3, <1>4, <1>5, NewCallStep

LEMMA NextYearStep ==
  ASSUME IInv, NextYear
  PROVE  IInv'
<1>1. /\ call # Idle /\ call.at = "next" /\ call.want = "years"
      /\ CallTypeOK(call) /\ YearsSoFar(call) /\ call.done < Count["fiscal_years"]
  BY DEF IInv, CallOK, NextYear, At
<1>2. /\ call' = [NewCall("years", call.client, call.records[call.done + 1].id, call.records)
                   EXCEPT !.done = call.done]
      /\ UNCHANGED <<fresh, Others>>
  BY DEF NextYear
<1>3. Count["fiscal_years"] \in Nat \ {0}
  BY CountAssumption
<1>4. call.done \in 0..Count["fiscal_years"] /\ call.client \in Clients
  BY <1>1 DEF CallTypeOK
<1>5. call.done \in Nat /\ call.done + 1 \in 1..Count["fiscal_years"]
  BY <1>1, <1>3, <1>4
<1>6. call.records[call.done + 1].id = BaseYear(call.client) + (call.done + 1) - 1
  <2> DEFINE i == call.done + 1
  <2>1. i \in 1..Count["fiscal_years"]
    BY <1>5
  <2> HIDE DEF i
  <2>2. call.records[i] =
          [id |-> BaseYear(call.client) + i - 1,
           creditor_term_of_payment_id |-> call.records[i].creditor_term_of_payment_id,
           debitor_term_of_payment_id |-> call.records[i].debitor_term_of_payment_id]
    BY <1>1, <2>1 DEF YearsSoFar
  <2>3. call.records[i].id = BaseYear(call.client) + i - 1
    BY <2>2
  <2> QED
    BY <2>3 DEF i
<1>7. /\ BaseYear(call.client) + call.done \in Years
      /\ BaseYear(call.client) + (call.done + 1) - 1 = BaseYear(call.client) + call.done
  BY <1>4, <1>5, BaseYears
<1>8. /\ call'.client = call.client /\ call'.records = call.records
      /\ call'.done = call.done /\ call'.want = "years"
      /\ call'.year = call.records[call.done + 1].id
      /\ call' = [want |-> call'.want, at |-> "scope", client |-> call'.client,
                  year |-> call'.year, made |-> Nothing, read |-> <<>>,
                  centers |-> <<>>, records |-> call'.records, done |-> call'.done]
  BY <1>2 DEF NewCall
<1>9. YearsSoFar(call')
  BY <1>1, <1>8 DEF YearsSoFar
<1> QED
  BY <1>1, <1>2, <1>4, <1>6, <1>7, <1>8, <1>9, NewCallStep

(***************************************************************************)
(* The scope is cached and returned                                        *)
(***************************************************************************)

LEMMA HitScopeStep ==
  ASSUME IInv, HitScope
  PROVE  IInv'
<1>1. /\ call # Idle /\ call.at = "scope" /\ CallTypeOK(call) /\ Key \in Cached(scopes)
      /\ call' = [call EXCEPT !.at = "answer", !.made = scopes[Key]]
      /\ UNCHANGED <<fresh, Others>>
      /\ call.want = "years" =>
           /\ YearsSoFar(call)
           /\ call.done < Count["fiscal_years"]
           /\ call.year = BaseYear(call.client) + call.done
  BY DEF IInv, CallOK, HitScope, At
<1>2. call' = [want |-> call.want, at |-> "answer", client |-> call.client,
               year |-> call.year, made |-> scopes[Key], read |-> call.read,
               centers |-> call.centers,
               records |-> call.records, done |-> call.done]
  BY <1>1 DEF CallTypeOK
<1>3. /\ addressees' = addressees /\ scopes' = scopes /\ centers' = centers
      /\ years' = years /\ restarts' = restarts /\ listed' = listed /\ fresh' = fresh
  BY <1>1 DEF Others, caches
<1>4. Key' = Key
  BY <1>2 DEF Key
<1>5. NumbersOK'
  BY <1>3 DEF IInv, NumbersOK, Known
<1>6. CachesOK'
  BY <1>3 DEF IInv, CachesOK, Cached, Consistent, PartnersKnown, Known
<1>7. YearsReferToTheirTerms'
  BY <1>3 DEF IInv, YearsReferToTheirTerms, Cached
<1>8. CallTypeOK(call)'
  <2>1. CallTypeOK(call')
    BY <1>1, <1>2, StepsAre DEF CallTypeOK
  <2> QED
    BY <2>1, <1>3 DEF CallTypeOK, Known
<1>9. MadeSoFar(call)'
  <2>1. \A l \in Lists : Rank[l] < Rank["answer"]
    <3>1. \A l \in Lists : Rank[l] \in 1..14
      BY ListRanks
    <3> QED
      BY <3>1, RankValues
  <2>2. /\ DOMAIN scopes[Key] = Lists
        /\ \A l \in Lists :
             DOMAIN scopes[Key][l] = 1..Count[l] /\ IsList(scopes[Key][l], Count[l])
    BY <1>1 DEF IInv, CachesOK
  <2>3. call'.at = "answer" /\ call'.made = scopes[Key]
    BY <1>2
  <2> QED
    BY <2>1, <2>2, <2>3 DEF MadeSoFar
<1>10. call.want = "years" => YearsSoFar(call)'
  BY <1>1, <1>2, <1>3 DEF YearsSoFar, Cached
<1>11. CallOK'
  <2>1. Rank[call'.at] = 16 /\ call'.at \notin {"next", "years"}
    BY <1>2, RankValues
  <2>2. Key' \in Cached(scopes)' /\ call'.made = scopes'[Key']
    BY <1>1, <1>2, <1>3, <1>4 DEF Cached
  <2>3. /\ call'.want = call.want /\ call'.done = call.done /\ call'.year = call.year
        /\ call'.client = call.client
    BY <1>2
  <2> QED
    BY <1>1, <1>8, <1>9, <1>10, <2>1, <2>2, <2>3 DEF CallOK
<1> QED
  BY <1>5, <1>6, <1>7, <1>11 DEF IInv

LEMMA ReadAddresseesStep ==
  ASSUME IInv, ReadAddressees
  PROVE  IInv'
<1>1. /\ call # Idle /\ call.at = "scope" /\ CallTypeOK(call) /\ MadeSoFar(call)
      /\ Key \notin Cached(scopes)
      /\ call' = [call EXCEPT !.at = "cost_systems", !.read = addressees]
      /\ UNCHANGED <<fresh, Others>>
      /\ Consistent(call.made, call.centers)
      /\ call.want = "years" =>
           /\ YearsSoFar(call)
           /\ call.done < Count["fiscal_years"]
           /\ call.year = BaseYear(call.client) + call.done
  BY RankValues DEF IInv, CallOK, ReadAddressees, At
<1>2. call' = [want |-> call.want, at |-> "cost_systems", client |-> call.client,
               year |-> call.year, made |-> call.made, read |-> addressees,
               centers |-> call.centers,
               records |-> call.records, done |-> call.done]
  BY <1>1 DEF CallTypeOK
<1>3. /\ addressees' = addressees /\ scopes' = scopes /\ centers' = centers
      /\ years' = years /\ restarts' = restarts /\ listed' = listed /\ fresh' = fresh
  BY <1>1 DEF Others, caches
<1>4. Key' = Key
  BY <1>2 DEF Key
<1>5. NumbersOK'
  BY <1>3 DEF IInv, NumbersOK, Known
<1>6. CachesOK'
  BY <1>3 DEF IInv, CachesOK, Cached, Consistent, PartnersKnown, Known
<1>7. YearsReferToTheirTerms'
  BY <1>3 DEF IInv, YearsReferToTheirTerms, Cached
<1>8. CallTypeOK(call)'
  <2>1. addressees \in Seq(Known)
    BY DEF IInv, NumbersOK
  <2>2. CallTypeOK(call')
    BY <1>1, <1>2, <2>1, StepsAre DEF CallTypeOK
  <2> QED
    BY <2>2, <1>3 DEF CallTypeOK, Known
<1>9. MadeSoFar(call)'
  <2>1. \A l \in Lists : ~(Rank[l] < Rank["scope"]) /\ ~(Rank[l] < Rank["cost_systems"])
    <3>1. \A l \in Lists : Rank[l] \in 1..14
      BY ListRanks
    <3>2. Rank["scope"] = 0 /\ Rank["cost_systems"] = 1
      BY RankValues
    <3>3. ASSUME NEW l \in Lists PROVE ~(Rank[l] < 0) /\ ~(Rank[l] < 1)
      BY <3>1
    <3> QED
      BY <3>2, <3>3
  <2> QED
    BY <1>1, <1>2, <2>1 DEF MadeSoFar
<1>10. call.want = "years" => YearsSoFar(call)'
  BY <1>1, <1>2, <1>3 DEF YearsSoFar, Cached
<1>11. Consistent(call.made, call.centers)'
  BY <1>1, <1>2, <1>3 DEF Consistent, PartnersKnown, Known
<1>12. CallOK'
  <2>1. Rank[call'.at] = 1 /\ call'.at \notin {"answer", "next", "years"}
    BY <1>2, RankValues
  <2>2. Key' \notin Cached(scopes)'
    BY <1>1, <1>3, <1>4 DEF Cached
  <2>3. /\ call'.want = call.want /\ call'.done = call.done /\ call'.year = call.year
        /\ call'.client = call.client
    BY <1>2
  <2>4. Len(call'.read) = AddresseeCount
    BY <1>2 DEF IInv, NumbersOK
  <2> QED
    BY <1>1, <1>8, <1>9, <1>10, <1>11, <2>1, <2>2, <2>3, <2>4 DEF CallOK
<1> QED
  BY <1>5, <1>6, <1>7, <1>12 DEF IInv

\* The caches after a scope is stored: nothing that was cached changes.
LEMMA StoreScopeStep ==
  ASSUME IInv, StoreScope
  PROVE  IInv'
<1>1. /\ call # Idle /\ call.at = "store" /\ Rank[call.at] = 15
      /\ CallTypeOK(call) /\ MadeSoFar(call)
      /\ Key \notin Cached(scopes)
      /\ Key \in Cached(centers) /\ call.centers = centers[Key]
      /\ Consistent(call.made, call.centers)
      /\ scopes' = Put(scopes, Key, call.made)
      /\ call' = [call EXCEPT !.at = "answer"]
      /\ call.want = "years" =>
           /\ YearsSoFar(call)
           /\ call.done < Count["fiscal_years"]
           /\ call.year = BaseYear(call.client) + call.done
  BY RankValues DEF IInv, CallOK, StoreScope, At
<1>2. call' = [want |-> call.want, at |-> "answer", client |-> call.client,
               year |-> call.year, made |-> call.made, read |-> call.read,
               centers |-> call.centers,
               records |-> call.records, done |-> call.done]
  BY <1>1 DEF CallTypeOK
<1>3. /\ addressees' = addressees /\ centers' = centers
      /\ years' = years /\ restarts' = restarts /\ listed' = listed /\ fresh' = fresh
  BY DEF StoreScope
<1>4. Key' = Key
  BY <1>2 DEF Key
<1>5. /\ Cached(scopes)' = Cached(scopes) \cup {Key}
      /\ scopes'[Key] = call.made
      /\ \A k \in Cached(scopes) : scopes'[k] = scopes[k]
  BY <1>1 DEF Put, Cached
<1>6. NumbersOK'
  BY <1>3 DEF IInv, NumbersOK, Known
<1>7. /\ DOMAIN call.made = Lists
      /\ \A l \in Lists : DOMAIN call.made[l] = 1..Count[l] /\ IsList(call.made[l], Count[l])
  <2>1. \A l \in Lists : Rank[l] < Rank["store"]
    <3>1. \A l \in Lists : Rank[l] \in 1..14
      BY ListRanks
    <3> QED
      BY <3>1, RankValues
  <2> QED
    BY <1>1, <2>1 DEF MadeSoFar
<1>8. CachesOK'
  <2>1. Cached(centers)' = Cached(centers)
    BY <1>3 DEF Cached
  <2>2. Cached(scopes)' \subseteq Cached(centers)'
    BY <1>1, <1>5, <2>1 DEF IInv, CachesOK
  <2>3. ASSUME NEW k \in Cached(scopes)'
        PROVE  /\ DOMAIN scopes'[k] = Lists
               /\ \A l \in Lists :
                    DOMAIN scopes'[k][l] = 1..Count[l] /\ IsList(scopes'[k][l], Count[l])
               /\ Consistent(scopes'[k], centers[k])
    <3>1. CASE k = Key
      BY <3>1, <1>1, <1>5, <1>7
    <3>2. CASE k # Key
      BY <3>2, <1>5 DEF IInv, CachesOK
    <3> QED
      BY <3>1, <3>2
  <2>4. \A k \in Cached(scopes)' : Consistent(scopes[k], centers[k])'
    BY <2>3, <1>3 DEF Consistent, PartnersKnown, Known, ItemsRefer, TermsOf,
       StocktakingsRefer, RulesRefer
  <2>5. /\ Cached(centers)' \subseteq ScopeKeys
        /\ Cached(years)' \subseteq Clients
        /\ \A k \in Cached(centers)' : (centers[k] = CostCenters(k, 1))'
    BY <1>3, <2>1 DEF IInv, CachesOK, Cached, CostCenters
  <2> QED
    BY <2>2, <2>3, <2>4, <2>5 DEF CachesOK, IsList
<1>9. YearsReferToTheirTerms'
  <2>1. Cached(years)' = Cached(years)
    BY <1>3 DEF Cached
  <2> QED
    BY <2>1, <1>3, <1>5 DEF IInv, YearsReferToTheirTerms, Cached
<1>10. CallTypeOK(call)'
  <2>1. CallTypeOK(call')
    BY <1>1, <1>2, StepsAre DEF CallTypeOK
  <2> QED
    BY <2>1, <1>3 DEF CallTypeOK, Known
<1>11. MadeSoFar(call)'
  <2>1. \A l \in Lists : Rank[l] < Rank["answer"]
    <3>1. \A l \in Lists : Rank[l] \in 1..14
      BY ListRanks
    <3> QED
      BY <3>1, RankValues
  <2>2. call'.at = "answer" /\ call'.made = call.made
    BY <1>2
  <2> QED
    BY <2>1, <2>2, <1>7 DEF MadeSoFar
<1>12. call.want = "years" => YearsSoFar(call)'
  <2>1. Cached(scopes) \subseteq Cached(scopes)'
    BY <1>5
  <2>2. /\ call'.client = call.client /\ call'.records = call.records
        /\ call'.done = call.done
    BY <1>2
  <2> QED
    BY <1>1, <1>5, <2>1, <2>2 DEF YearsSoFar
<1>13. CallOK'
  <2>1. Rank[call'.at] = 16 /\ call'.at \notin {"next", "years"}
    BY <1>2, RankValues
  <2>2. Key' \in Cached(scopes)' /\ call'.made = scopes'[Key']
    BY <1>2, <1>4, <1>5
  <2>3. /\ call'.want = call.want /\ call'.done = call.done /\ call'.year = call.year
        /\ call'.client = call.client
    BY <1>2
  <2> QED
    BY <1>1, <1>10, <1>11, <1>12, <2>1, <2>2, <2>3 DEF CallOK
<1> QED
  BY <1>6, <1>8, <1>9, <1>13 DEF IInv

(***************************************************************************)
(* The fiscal years                                                        *)
(***************************************************************************)

\* What a client's stream draws from the terms of a scope is one of them.
LEMMA TermDrawn ==
  ASSUME NEW c \in Clients, NEW i \in 1..Count["fiscal_years"], NEW field \in {"term", "content"},
         NEW made, IsList(made["terms_of_payment"], Count["terms_of_payment"])
  PROVE  Choice(Numbers(made["terms_of_payment"]), Value(<<c>>, <<"fiscal_years", i, field>>))
           \in TermsOf(made)
<1> DEFINE terms == made["terms_of_payment"]
           n == Count["terms_of_payment"]
           drawn == Value(<<c>>, <<"fiscal_years", i, field>>)
           pool == Numbers(terms)
<1>1. n \in Nat \ {0}
  BY CountAssumption DEF Lists
<1>2. drawn \in Nat
  <2>1. <<c>> \in Seeds
    BY DEF Seeds
  <2>3. "fiscal_years" \in DOMAIN Count /\ Count["fiscal_years"] \in Nat \ {0}
    BY CountAssumption
  <2>4. <<"fiscal_years", i, field>> \in
          {"fiscal_years"} \X (0..Count["fiscal_years"]) \X Fields
    BY <2>3 DEF Fields
  <2>5. <<"fiscal_years", i, field>> \in Places
    BY <2>3, <2>4 DEF Places
  <2> QED
    BY <2>1, <2>5, ValueAssumption
<1>3. DOMAIN terms = 1..n
  BY DEF IsList
<1> HIDE DEF terms, n
<1>4. pool = [j \in 1..n |-> ToInt(terms[j].id)]
  BY <1>3 DEF Numbers
<1>5. \A j \in 1..n : pool[j] = ToInt(terms[j].id)
  BY <1>4
<1>6. pool = [j \in 1..n |-> pool[j]]
  BY <1>4
<1> HIDE DEF pool, drawn
<1>7. PICK j \in 1..n : Choice(pool, drawn) = pool[j]
  BY <1>1, <1>2, <1>6, ChoiceInPool
<1>8. terms[j] \in Elements(terms)
  BY <1>3, <1>7 DEF Elements
<1>9. ToInt(terms[j].id) \in {ToInt(r.id) : r \in Elements(terms)}
  BY <1>8
<1> QED
  BY <1>5, <1>7, <1>9 DEF TermsOf, terms, pool, drawn

LEMMA BackfillYearStep ==
  ASSUME IInv, BackfillYear
  PROVE  IInv'
<1> DEFINE i == call.done + 1
           new == Backfilled(i)
           records == [call.records EXCEPT ![i] = new]
           next == IF i = Count["fiscal_years"] THEN "years" ELSE "next"
<1>1. /\ call # Idle /\ call.at = "answer" /\ call.want = "years"
      /\ CallTypeOK(call) /\ MadeSoFar(call)
      /\ Key \in Cached(scopes) /\ call.made = scopes[Key]
      /\ YearsSoFar(call)
      /\ call.done < Count["fiscal_years"]
      /\ call.year = BaseYear(call.client) + call.done
  BY DEF IInv, CallOK, BackfillYear, At
<1>2. /\ call' = [call EXCEPT !.records = records, !.done = i, !.at = next]
      /\ UNCHANGED <<fresh, Others>>
  BY DEF BackfillYear
<1>3. /\ Count["fiscal_years"] \in Nat \ {0} /\ call.done \in Nat
      /\ i \in 1..Count["fiscal_years"] /\ call.client \in Clients
      /\ BaseYear(call.client) \in Int
  <2>1. Count["fiscal_years"] \in Nat \ {0}
    BY CountAssumption
  <2>2. call.done \in 0..Count["fiscal_years"] /\ call.client \in Clients
    BY <1>1 DEF CallTypeOK
  <2> QED
    BY <2>1, <2>2, <1>1, BaseYears
<1>4. call' = [want |-> call.want, at |-> next, client |-> call.client,
               year |-> call.year, made |-> call.made, read |-> call.read,
               centers |-> call.centers,
               records |-> records, done |-> i]
  <2>1. call = [want |-> call.want, at |-> call.at, client |-> call.client,
                year |-> call.year, made |-> call.made, read |-> call.read,
                centers |-> call.centers,
                records |-> call.records, done |-> call.done]
    BY <1>1 DEF CallTypeOK
  <2> HIDE DEF records, i, next
  <2> QED
    BY <2>1, <1>2
<1>5. /\ addressees' = addressees /\ scopes' = scopes /\ centers' = centers
      /\ years' = years /\ restarts' = restarts /\ listed' = listed /\ fresh' = fresh
  BY <1>2 DEF Others, caches
<1>6. call.records[i] =
        [id |-> BaseYear(call.client) + i - 1,
         creditor_term_of_payment_id |-> call.records[i].creditor_term_of_payment_id,
         debitor_term_of_payment_id |-> call.records[i].debitor_term_of_payment_id]
      /\ call.records[i].debitor_term_of_payment_id =
           IF i = Count["fiscal_years"] THEN 10 ELSE None
  <2> HIDE DEF i
  <2>1. i > call.done
    BY <1>3 DEF i
  <2> QED
    BY <1>1, <1>3, <2>1 DEF YearsSoFar
<1>7. <<call.client, BaseYear(call.client) + i - 1>> = Key
  BY <1>1, <1>3 DEF Key
<1>8. IsList(call.made["terms_of_payment"], Count["terms_of_payment"])
  <2>1. "terms_of_payment" \in Lists
    BY DEF Lists
  <2> QED
    BY <2>1, <1>1 DEF IInv, CachesOK
<1>9. DrawTerm(i, "term") \in TermsOf(call.made) /\ DrawTerm(i, "content") \in TermsOf(call.made)
  <2> HIDE DEF i
  <2> QED
    BY <1>3, <1>8, TermDrawn DEF DrawTerm
<1>10. /\ new = [id |-> BaseYear(call.client) + i - 1,
                 creditor_term_of_payment_id |-> new.creditor_term_of_payment_id,
                 debitor_term_of_payment_id |-> new.debitor_term_of_payment_id]
       /\ new.creditor_term_of_payment_id = DrawTerm(i, "term")
       /\ new.debitor_term_of_payment_id =
            IF i = Count["fiscal_years"] THEN DrawTerm(i, "content") ELSE None
  <2> DEFINE old == call.records[i]
             debitor == IF old.debitor_term_of_payment_id = None THEN None
                        ELSE DrawTerm(i, "content")
             creditor == DrawTerm(i, "term")
  <2>1. new = [old EXCEPT !.creditor_term_of_payment_id = creditor,
                          !.debitor_term_of_payment_id = debitor]
    BY DEF Backfilled
  <2>2. 10 # None
    BY CountAssumption
  <2> HIDE DEF new, i
  <2>3. old = [id |-> BaseYear(call.client) + i - 1,
               creditor_term_of_payment_id |-> old.creditor_term_of_payment_id,
               debitor_term_of_payment_id |-> old.debitor_term_of_payment_id]
    BY <1>6
  <2>4. old.debitor_term_of_payment_id = IF i = Count["fiscal_years"] THEN 10 ELSE None
    BY <1>6
  <2> DEFINE year == BaseYear(call.client) + i - 1
  <2>b. old = [id |-> year, creditor_term_of_payment_id |-> old.creditor_term_of_payment_id,
               debitor_term_of_payment_id |-> old.debitor_term_of_payment_id]
    BY <2>3
  <2> HIDE DEF old, debitor, creditor, year
  <2>a. new = [id |-> year, creditor_term_of_payment_id |-> creditor,
               debitor_term_of_payment_id |-> debitor]
    <3> DEFINE mid == [old EXCEPT !.creditor_term_of_payment_id = creditor]
    <3>1. mid = [id |-> year, creditor_term_of_payment_id |-> creditor,
                 debitor_term_of_payment_id |-> old.debitor_term_of_payment_id]
      BY <2>b
    <3>2. new = [mid EXCEPT !.debitor_term_of_payment_id = debitor]
      BY <2>1
    <3> HIDE DEF mid
    <3> QED
      BY <3>1, <3>2
  <2>5. new = [id |-> BaseYear(call.client) + i - 1,
               creditor_term_of_payment_id |-> DrawTerm(i, "term"),
               debitor_term_of_payment_id |-> IF old.debitor_term_of_payment_id = None THEN None
                                              ELSE DrawTerm(i, "content")]
    BY <2>a DEF creditor, debitor, year
  <2>6. /\ new.creditor_term_of_payment_id = DrawTerm(i, "term")
        /\ new.debitor_term_of_payment_id =
             IF old.debitor_term_of_payment_id = None THEN None ELSE DrawTerm(i, "content")
    BY <2>5
  <2>7. new = [id |-> BaseYear(call.client) + i - 1,
               creditor_term_of_payment_id |-> new.creditor_term_of_payment_id,
               debitor_term_of_payment_id |-> new.debitor_term_of_payment_id]
    BY <2>5, <2>6
  <2>8. (old.debitor_term_of_payment_id = None) <=> (i # Count["fiscal_years"])
    BY <2>2, <2>4
  <2>9. new.debitor_term_of_payment_id =
          IF i = Count["fiscal_years"] THEN DrawTerm(i, "content") ELSE None
    BY <2>6, <2>8
  <2> QED
    BY <2>6, <2>7, <2>9
<1>11. DOMAIN call.records = 1..Count["fiscal_years"]
  BY <1>1 DEF YearsSoFar
<1>12. YearsSoFar(call')
  <2>1. /\ DOMAIN records = 1..Count["fiscal_years"]
        /\ records[i] = new
        /\ \A j \in 1..Count["fiscal_years"] : j # i => records[j] = call.records[j]
    <3> HIDE DEF new, i
    <3> QED
      BY <1>3, <1>11
  <2>2. call'.records = records /\ call'.done = i /\ call'.client = call.client
    BY <1>4
  <2>3. \A j \in Nat : j # i => (j <= call.done <=> j <= i) /\ (j > call.done <=> j > i)
    BY <1>3
  <2>4. new.id = BaseYear(call.client) + i - 1
    <3> HIDE DEF new, i
    <3> QED
      BY <1>10
  <2> HIDE DEF new, i, records
  <2>5. ASSUME NEW j \in 1..Count["fiscal_years"]
        PROVE  LET record == records[j]
                   scope == scopes[<<call.client, record.id>>]
               IN  /\ record = [id |-> BaseYear(call.client) + j - 1,
                        creditor_term_of_payment_id |-> record.creditor_term_of_payment_id,
                        debitor_term_of_payment_id |-> record.debitor_term_of_payment_id]
                   /\ j <= i =>
                        /\ <<call.client, record.id>> \in Cached(scopes)
                        /\ record.creditor_term_of_payment_id \in TermsOf(scope)
                        /\ record.debitor_term_of_payment_id \in
                             IF j = Count["fiscal_years"] THEN TermsOf(scope) ELSE {None}
                   /\ j > i =>
                        record.debitor_term_of_payment_id =
                          IF j = Count["fiscal_years"] THEN 10 ELSE None
    <3>1. CASE j = i
      <4>1. ~(i > i)
        BY <1>3
      <4>2. /\ <<call.client, new.id>> = Key /\ Key \in Cached(scopes)
            /\ scopes[<<call.client, new.id>>] = call.made
        BY <1>1, <1>7, <2>4
      <4>3. new.creditor_term_of_payment_id \in TermsOf(call.made)
        BY <1>9, <1>10
      <4>4. new.debitor_term_of_payment_id \in
              IF i = Count["fiscal_years"] THEN TermsOf(call.made) ELSE {None}
        BY <1>9, <1>10
      <4> QED
        BY <3>1, <4>1, <4>2, <4>3, <4>4, <1>10, <2>1
    <3>2. CASE j # i
      <4>1. (j <= call.done <=> j <= i) /\ (j > call.done <=> j > i)
        BY <3>2, <2>3
      <4> QED
        BY <3>2, <4>1, <2>1, <1>1 DEF YearsSoFar
    <3> QED
      BY <3>1, <3>2
  <2> QED
    BY <2>1, <2>2, <2>5 DEF YearsSoFar
<1>13. Key' = Key
  BY <1>4 DEF Key
<1>14. NumbersOK'
  BY <1>5 DEF IInv, NumbersOK, Known
<1>15. CachesOK'
  BY <1>5 DEF IInv, CachesOK, Cached, Consistent, PartnersKnown, Known
<1>16. YearsReferToTheirTerms'
  BY <1>5 DEF IInv, YearsReferToTheirTerms, Cached
<1> HIDE DEF records, new
<1>17. CallTypeOK(call)'
  <2>1. next \in Steps /\ i \in 0..Count["fiscal_years"]
    BY <1>3 DEF Steps
  <2> HIDE DEF next, i
  <2>a. /\ call'.at = next /\ call'.want = call.want /\ call'.client = call.client
        /\ call'.year = call.year /\ call'.read = call.read
        /\ call'.done = i
    BY <1>4
  <2>b. call' = [want |-> call'.want, at |-> call'.at, client |-> call'.client,
                 year |-> call'.year, made |-> call'.made, read |-> call'.read,
                 centers |-> call'.centers,
                 records |-> call'.records, done |-> call'.done]
    BY <1>4
  <2>2. CallTypeOK(call')
    BY <1>1, <2>a, <2>b, <2>1 DEF CallTypeOK
  <2> QED
    BY <2>2, <1>5 DEF CallTypeOK, Known
<1>18. MadeSoFar(call)'
  <2>1. \A l \in Lists : Rank[l] < Rank["answer"] /\ Rank[l] < Rank[next]
    <3>1. \A l \in Lists : Rank[l] \in 1..14
      BY ListRanks
    <3> QED
      BY <3>1, RankValues
  <2> HIDE DEF next, i
  <2>2. call'.at = next /\ call'.made = call.made
    BY <1>4
  <2> QED
    BY <2>1, <2>2, <1>1 DEF MadeSoFar
<1>19. YearsSoFar(call)'
  BY <1>12, <1>5 DEF YearsSoFar, Cached
<1>20. CallOK'
  <2>1. Rank[next] \notin 0..15 /\ next # "answer" /\ next \in {"next", "years"}
    BY RankValues
  <2>2. IF next = "years" THEN i = Count["fiscal_years"] ELSE i < Count["fiscal_years"]
    BY <1>3
  <2>3. /\ call'.at = next /\ call'.want = "years" /\ call'.done = i
    BY <1>1, <1>4
  <2>4. Rank[next] \notin 1..15 /\ Rank[next] \notin 2..15 /\ Rank[next] \notin 9..15
    BY RankValues
  <2> HIDE DEF next, i
  <2> QED
    BY <1>17, <1>18, <1>19, <2>1, <2>2, <2>3, <2>4 DEF CallOK
<1> QED
  BY <1>14, <1>15, <1>16, <1>20 DEF IInv

LEMMA StoreYearsStep ==
  ASSUME IInv, StoreYears
  PROVE  IInv'
<1>1. /\ call # Idle /\ call.at = "years" /\ CallTypeOK(call) /\ YearsSoFar(call)
      /\ call.done = Count["fiscal_years"]
      /\ years' = Put(years, call.client, call.records)
      /\ call' = Idle
  BY DEF IInv, CallOK, StoreYears, At
<1>2. /\ addressees' = addressees /\ scopes' = scopes /\ centers' = centers
      /\ restarts' = restarts /\ listed' = listed /\ fresh' = fresh
  BY DEF StoreYears
<1>3. /\ Cached(years)' = Cached(years) \cup {call.client}
      /\ years'[call.client] = call.records
      /\ \A c \in Cached(years) : c # call.client => years'[c] = years[c]
      /\ Cached(scopes)' = Cached(scopes)
  BY <1>1, <1>2 DEF Put, Cached
<1>4. NumbersOK'
  BY <1>2 DEF IInv, NumbersOK, Known
<1>5. CachesOK'
  <2>1. Cached(years)' \subseteq Clients
    BY <1>1, <1>3 DEF IInv, CachesOK, CallTypeOK
  <2>2. Cached(centers)' = Cached(centers)
    BY <1>2 DEF Cached
  <2> QED
    BY <2>1, <2>2, <1>2, <1>3 DEF IInv, CachesOK, Consistent, PartnersKnown, Known
<1>6. YearsReferToTheirTerms'
  <2>1. ASSUME NEW c \in Cached(years)', NEW i \in 1..Count["fiscal_years"]
        PROVE  LET record == years'[c][i]
                   scope == scopes[<<c, record.id>>]
               IN  /\ <<c, record.id>> \in Cached(scopes)
                   /\ record.creditor_term_of_payment_id \in TermsOf(scope)
                   /\ record.debitor_term_of_payment_id \in
                        IF i = Count["fiscal_years"] THEN TermsOf(scope) ELSE {None}
    <3>1. CASE c = call.client
      <4>1. i <= call.done
        BY <1>1, CountAssumption
      <4> QED
        BY <3>1, <4>1, <1>1, <1>3 DEF YearsSoFar
    <3>2. CASE c # call.client
      BY <3>2, <1>3 DEF IInv, YearsReferToTheirTerms
    <3> QED
      BY <3>1, <3>2
  <2> QED
    BY <2>1, <1>2, <1>3 DEF YearsReferToTheirTerms
<1>7. CallOK'
  BY <1>1 DEF CallOK
<1> QED
  BY <1>4, <1>5, <1>6, <1>7 DEF IInv

(***************************************************************************)
(* Between the calls                                                       *)
(***************************************************************************)

LEMMA AnswerScopeStep ==
  ASSUME IInv, AnswerScope
  PROVE  IInv'
<1>1. /\ addressees' = addressees /\ scopes' = scopes /\ centers' = centers
      /\ years' = years /\ restarts' = restarts /\ listed' = listed /\ fresh' = fresh
      /\ call' = Idle
  BY DEF AnswerScope, Others, caches
<1> QED
  BY <1>1 DEF IInv, NumbersOK, CachesOK, YearsReferToTheirTerms, CallOK, Cached, Known,
     Consistent, PartnersKnown

\* The addressees change, and the ids there have been only grow: whom the
\* records name is still known.
LEMMA ReplaceStep ==
  ASSUME IInv, addressees' \in Seq(Known'), Len(addressees') = AddresseeCount,
         listed' \in listed..MaxListed,
         UNCHANGED <<caches, call, fresh, restarts>>
  PROVE  IInv'
<1>1. /\ scopes' = scopes /\ centers' = centers /\ years' = years
      /\ restarts' = restarts /\ call' = call /\ fresh' = fresh
  BY DEF caches
<1>2. Known \subseteq Known'
  <2>1. listed \in Nat /\ listed' \in Nat /\ listed <= listed'
    BY CountAssumption DEF IInv, NumbersOK
  <2> QED
    BY <2>1 DEF Known
<1>4. NumbersOK'
  BY <1>1, CountAssumption DEF IInv, NumbersOK
<1>5. CachesOK'
  <2>1. /\ Cached(scopes)' = Cached(scopes) /\ Cached(centers)' = Cached(centers)
        /\ Cached(years)' = Cached(years)
    BY <1>1 DEF Cached
  <2>2. \A k \in Cached(scopes) : Consistent(scopes[k], centers[k])'
    BY <1>1, <1>2 DEF IInv, CachesOK, Consistent, PartnersKnown, ItemsRefer,
       StocktakingsRefer, RulesRefer, TermsOf
  <2> QED
    BY <1>1, <2>1, <2>2 DEF IInv, CachesOK
<1>6. YearsReferToTheirTerms'
  BY <1>1 DEF IInv, YearsReferToTheirTerms, Cached
<1>7. ASSUME call # Idle
      PROVE  CallTypeOK(call)'
  <2>1. CallTypeOK(call)
    BY <1>7 DEF IInv, CallOK
  <2>2. call.read \in Seq(Known')
    <3>1. call.read \in Seq(Known)
      BY <2>1 DEF CallTypeOK
    <3> QED
      BY <3>1, <1>2
  <2> QED
    BY <2>1, <2>2, <1>1 DEF CallTypeOK
<1>8. CallOK'
  <2>1. CallOK
    BY DEF IInv
  <2>2. Rank[call.at] \in 0..15 /\ call # Idle => Consistent(call.made, call.centers)'
    BY <2>1, <1>1, <1>2 DEF CallOK, Consistent, PartnersKnown, ItemsRefer,
       StocktakingsRefer, RulesRefer, TermsOf
  <2> QED
    BY <2>1, <2>2, <1>1, <1>7 DEF CallOK, MadeSoFar, YearsSoFar, Cached, Key
<1> QED
  BY <1>4, <1>5, <1>6, <1>8 DEF IInv

\* Addressees that are generated anew are listed under new ids.
LEMMA NewAddresseesListed ==
  ASSUME NumbersOK, NewAddressees
  PROVE  /\ addressees' \in Seq(Known') /\ Len(addressees') = AddresseeCount
         /\ listed' \in listed..MaxListed
<1>1. /\ listed \in Nat /\ MaxListed \in Nat /\ AddresseeCount \in Nat
  BY CountAssumption DEF NumbersOK
<1>2. /\ listed + AddresseeCount <= MaxListed
      /\ addressees' = [i \in 1..AddresseeCount |-> AddresseeId(listed + i)]
      /\ listed' = listed + AddresseeCount
  BY DEF NewAddressees
<1>3. \A i \in 1..AddresseeCount : AddresseeId(listed + i) \in Known'
  BY <1>1, <1>2 DEF Known
<1>4. addressees' \in [1..AddresseeCount -> Known']
  BY <1>2, <1>3
<1>5. addressees' \in Seq(Known')
  BY <1>1, <1>4
<1>6. Len(addressees') = AddresseeCount
  BY <1>1, <1>4, <1>5
<1> QED
  BY <1>1, <1>2, <1>5, <1>6

LEMMA ResetStep ==
  ASSUME IInv, Reset
  PROVE  IInv'
<1>1. NewAddressees /\ UNCHANGED <<caches, call, fresh, restarts>>
  BY DEF Reset
<1>2. NumbersOK
  BY DEF IInv
<1> QED
  BY <1>1, <1>2, NewAddresseesListed, ReplaceStep

LEMMA RestartStep ==
  ASSUME IInv, Restart
  PROVE  IInv'
<1>1. /\ NewAddressees /\ scopes' = Empty /\ centers' = Empty /\ years' = Empty
      /\ call' = Idle /\ fresh' = fresh
      /\ restarts < MaxRestarts /\ restarts' = restarts + 1
  BY DEF Restart
<1>2. Cached(scopes)' = {} /\ Cached(centers)' = {} /\ Cached(years)' = {}
  BY <1>1 DEF Cached, Empty
<1>3. NumbersOK'
  <2>1. NumbersOK
    BY DEF IInv
  <2>2. restarts' \in 0..MaxRestarts
    BY <1>1, <2>1, CountAssumption DEF NumbersOK
  <2>3. listed' \in 0..MaxListed
    BY <1>1, <2>1, NewAddresseesListed, CountAssumption DEF NumbersOK
  <2> QED
    BY <1>1, <2>1, <2>2, <2>3, NewAddresseesListed DEF NumbersOK
<1>4. CachesOK'
  BY <1>2 DEF CachesOK
<1>5. YearsReferToTheirTerms'
  BY <1>2 DEF YearsReferToTheirTerms
<1> QED
  BY <1>1, <1>3, <1>4, <1>5 DEF IInv, CallOK

(***************************************************************************)
(* The theorems                                                            *)
(***************************************************************************)

LEMMA InitEstablishes ==
  Init => IInv
<1>1. SUFFICES ASSUME Init PROVE IInv
  OBVIOUS
<1>2. NumbersOK
  <2>1. AddresseeCount \in Nat /\ MaxListed \in Nat /\ MaxRestarts \in Nat
        /\ AddresseeCount <= MaxListed
    BY CountAssumption
  <2>2. /\ listed = AddresseeCount /\ addressees = [i \in 1..AddresseeCount |-> AddresseeId(i)]
        /\ fresh = 0 /\ restarts = 0
    BY <1>1 DEF Init
  <2>3. addressees \in [1..AddresseeCount -> Known]
    BY <2>2 DEF Known
  <2>4. addressees \in Seq(Known)
    BY <2>1, <2>3
  <2>5. Len(addressees) = AddresseeCount
    BY <2>1, <2>3, <2>4
  <2> QED
    BY <2>1, <2>2, <2>4, <2>5, CountAssumption DEF NumbersOK
<1>3. Cached(scopes) = {} /\ Cached(centers) = {} /\ Cached(years) = {}
  BY <1>1 DEF Init, Cached, Empty
<1>4. CachesOK
  BY <1>3 DEF CachesOK
<1>5. YearsReferToTheirTerms
  BY <1>3 DEF YearsReferToTheirTerms
<1> QED
  BY <1>1, <1>2, <1>4, <1>5 DEF IInv, CallOK, Init

LEMMA StepPreserves ==
  IInv /\ [Next]_vars => IInv'
<1>1. SUFFICES ASSUME IInv, [Next]_vars PROVE IInv'
  OBVIOUS
<1>2. CASE \E c \in Clients, y \in Years : AskScope(c, y)
  BY <1>1, <1>2, AskScopeStep
<1>3. CASE \E c \in Clients : AskYears(c)
  BY <1>1, <1>3, AskYearsStep
<1>4. CASE HitScope \/ ReadAddressees \/ GetCostCenters \/ StoreScope \/ AnswerScope
  BY <1>1, <1>4, HitScopeStep, ReadAddresseesStep, CentersStep, StoreScopeStep, AnswerScopeStep
<1>5. CASE GenerateCostSystems \/ GenerateTermsOfPayment \/ GenerateGeneralLedgerAccounts
             \/ GenerateAccountingSequencesProcessed \/ GenerateAccountingTransactionKeys
  BY <1>1, <1>5, EarlySteps
<1>6. CASE GenerateCreditors \/ GenerateDebitors
  BY <1>1, <1>6, PartnerSteps
<1>7. CASE
        \/ GenerateOpenItems("accounts_payable", 70000, "accounts_payable_condense")
        \/ GenerateOpenItems("accounts_payable_condense", 70000, "accounts_receivable_condense")
        \/ GenerateOpenItems("accounts_receivable_condense", 10000, "assets_stocktakings")
  <2>1. /\ {"accounts_payable", "accounts_payable_condense", "accounts_receivable_condense"}
             \subseteq OpenItemLists
        /\ {"accounts_payable_condense", "accounts_receivable_condense", "assets_stocktakings"}
             \subseteq Steps
    BY DEF OpenItemLists, Payables, Steps, Lists
  <2>2. /\ Rank["accounts_payable_condense"] = Rank["accounts_payable"] + 1
        /\ Rank["accounts_receivable_condense"] = Rank["accounts_payable_condense"] + 1
        /\ Rank["assets_stocktakings"] = Rank["accounts_receivable_condense"] + 1
    BY RankValues
  <2>3. CASE GenerateOpenItems("accounts_payable", 70000, "accounts_payable_condense")
    BY <1>1, <2>1, <2>2, <2>3, OpenItemSteps
  <2>4. CASE GenerateOpenItems("accounts_payable_condense", 70000, "accounts_receivable_condense")
    BY <1>1, <2>1, <2>2, <2>4, OpenItemSteps
  <2>5. CASE GenerateOpenItems("accounts_receivable_condense", 10000, "assets_stocktakings")
    BY <1>1, <2>1, <2>2, <2>5, OpenItemSteps
  <2> QED
    BY <1>7, <2>3, <2>4, <2>5
<1>8. CASE GenerateAssetStocktakings
  BY <1>1, <1>8, StocktakingStep
<1>9. CASE
        \/ GeneratePostingProposalRules("posting_proposal_rules_incoming_invoices", 7000,
                                        "posting_proposal_rules_outgoing_invoices")
        \/ GeneratePostingProposalRules("posting_proposal_rules_outgoing_invoices", 8000, "store")
  <2> DEFINE incoming == "posting_proposal_rules_incoming_invoices"
             outgoing == "posting_proposal_rules_outgoing_invoices"
  <2>1. {incoming, outgoing} \subseteq RuleLists /\ {outgoing, "store"} \subseteq Steps
    BY DEF RuleLists, Steps, Lists
  <2>2. Rank[outgoing] = Rank[incoming] + 1 /\ Rank["store"] = Rank[outgoing] + 1
    BY RankValues
  <2>3. CASE GeneratePostingProposalRules(incoming, 7000, outgoing)
    BY <1>1, <2>1, <2>2, <2>3, RuleSteps
  <2>4. CASE GeneratePostingProposalRules(outgoing, 8000, "store")
    BY <1>1, <2>1, <2>2, <2>4, RuleSteps
  <2> QED
    BY <1>9, <2>3, <2>4
<1>10. CASE BackfillYear \/ NextYear \/ StoreYears
  BY <1>1, <1>10, BackfillYearStep, NextYearStep, StoreYearsStep
<1>11. CASE Reset
  BY <1>1, <1>11, ResetStep
<1>12. CASE Restart
  BY <1>1, <1>12, RestartStep
<1>13. CASE UNCHANGED vars
  <2>1. /\ addressees' = addressees /\ scopes' = scopes /\ centers' = centers
        /\ years' = years /\ restarts' = restarts /\ listed' = listed /\ fresh' = fresh
        /\ call' = call
    BY <1>13 DEF vars, caches
  <2>2. NumbersOK'
    BY <1>1, <2>1 DEF IInv, NumbersOK, Known
  <2>3. CachesOK'
    BY <1>1, <2>1 DEF IInv, CachesOK, Cached, Consistent, PartnersKnown, Known
  <2>4. YearsReferToTheirTerms'
    BY <1>1, <2>1 DEF IInv, YearsReferToTheirTerms, Cached
  <2>5. CallOK'
    BY <1>1, <2>1 DEF IInv, CallOK, CallTypeOK, MadeSoFar, YearsSoFar, Cached, Key, Known,
       Consistent, PartnersKnown
  <2> QED
    BY <2>2, <2>3, <2>4, <2>5 DEF IInv
<1> QED
  BY <1>1, <1>2, <1>3, <1>4, <1>5, <1>6, <1>7, <1>8, <1>9, <1>10, <1>11, <1>12, <1>13 DEF Next

\* Every reachable state has the invariant.
THEOREM InvariantHolds ==
  Spec => []IInv
<1>1. Init => IInv
  BY InitEstablishes
<1>2. IInv /\ [Next]_vars => IInv'
  BY StepPreserves
<1> QED
  BY <1>1, <1>2, PTL DEF Spec

\* Whatever happens to the addressees while a scope is generated, and however
\* many records there are: the records of a cached scope refer to records of
\* the same scope, to its cost centers and to addressees that were listed.
THEOREM ScopeReferences ==
  Spec => []ReferencesInScope
<1>1. IInv => ReferencesInScope
  BY DEF IInv, CachesOK, ReferencesInScope
<1> QED
  BY <1>1, InvariantHolds, PTL

\* The fiscal years name terms of payment of their own scopes.
THEOREM YearTerms ==
  Spec => []YearsReferToTheirTerms
<1>1. IInv => YearsReferToTheirTerms
  BY DEF IInv
<1> QED
  BY <1>1, InvariantHolds, PTL

\* Type correctness: the lists are complete as far as the call has come.
THEOREM TypeCorrectness ==
  Spec => []TypeOK
<1>1. IInv => TypeOK
  <2>1. SUFFICES ASSUME IInv PROVE TypeOK
    OBVIOUS
  <2>2. ASSUME call # Idle
        PROVE  /\ DOMAIN call.made = Lists /\ Generated(call.made)
               /\ CallTypeOK(call)
    BY <2>1, <2>2 DEF IInv, CallOK, MadeSoFar, Generated
  <2> QED
    BY <2>1, <2>2 DEF IInv, TypeOK, NumbersOK, CachesOK, CallTypeOK
<1> QED
  BY <1>1, InvariantHolds, PTL

(***************************************************************************)
(* What a generator makes follows from the key of the scope, but for the   *)
(* guids and for the addressees, of which it chooses the places.  So far   *)
(* the invariant said what a record refers to; this part says which one it *)
(* is, in closed form, and that neither the state of the caches nor what   *)
(* was generated before comes into it.                                     *)
(***************************************************************************)

\* The pools that references are drawn from.
SequenceIds == [i \in 1..Count["accounting_sequences_processed"] |-> Str(2000 + i - 1)]
TermNumbers == [i \in 1..Count["terms_of_payment"] |-> 9000 + i - 1]
SystemsOf(key) ==
  [i \in 1..Count["cost_systems"] |->
     [id |-> Str(i), is_activated_for_postings |-> Value(key, <<"cost_systems", i, "content">>)]]
TermRecordsOf(key) ==
  [i \in 1..Count["terms_of_payment"] |->
     [id |-> Str(9000 + i - 1), due |-> Value(key, <<"terms_of_payment", i, "content">>)]]
SequencesOf(key) ==
  [i \in 1..Count["accounting_sequences_processed"] |->
     [id |-> Str(2000 + i - 1), accounting_sequence_id |-> Str(3000 + i - 1),
      record_type |-> Value(key, <<"accounting_sequences_processed", i, "content">>)]]
AccountsOf(key) ==
  [i \in 1..Count["general_ledger_accounts"] |->
     [account_number |-> 1000 + i - 1,
      caption |-> Value(key, <<"general_ledger_accounts", i, "content">>)]]
KeysOf(key) ==
  [i \in 1..Count["accounting_transaction_keys"] |->
     [id |-> Str(4000 + i - 1), number |-> i * 100,
      tax_rate |-> Value(key, <<"accounting_transaction_keys", i, "content">>)]]

\* Partners and open items are numbered alike: creditors and payables from 70000.
NumberAt(l, i) == (IF l \in Payables \cup {"creditors"} THEN 70000 ELSE 10000) + i - 1

PartnerOf(key, read, l, i, guid) ==
  [account_number |-> NumberAt(l, i),
   addressee_id |-> Choice(read, Value(key, <<l, i, "addressee">>)),
   expanded |-> Value(key, <<l, i, "content">>),
   unseeded |-> guid]

ItemOf(key, l, i, guid) ==
  [account_number |-> NumberAt(l, i),
   accounting_sequence_id |-> Choice(SequenceIds, Value(key, <<l, i, "sequence">>)),
   kost1_cost_center_id |->
     IF i = Count[l] THEN None
     ELSE Choice(Ids(CostCenters(key, 1)), Value(key, <<l, i, "cost_center">>)),
   term_of_payment_id |->
     IF i % 2 = 1 THEN Choice(TermNumbers, Value(key, <<l, i, "term">>)) ELSE None,
   unseeded |-> guid]

RuleOf(key, l, i) ==
  [id |-> Str((IF l = "posting_proposal_rules_incoming_invoices" THEN 7000 ELSE 8000) + i - 1),
   accounting_transaction_key |-> Choice(KeysOf(key), Value(key, <<l, i, "key">>)).number,
   account_number |->
     Choice(AccountsOf(key), Value(key, <<l, i, "account">>)).account_number]

StocktakingOf(key, i) ==
  [id |-> Str(5000 + i - 1),
   general_ledger_account |->
     IF i % 2 = 1
     THEN Choice(AccountsOf(key), Value(key, <<"assets_stocktakings", i, "account">>))
     ELSE None]

PartnerLists == {"creditors", "debitors"}

Guid(records, i) == records[i].unseeded

ItemsMade(key, l, records) ==
  records = [i \in 1..Count[l] |-> ItemOf(key, l, i, Guid(records, i))]

\* A list that was made for a key from the addressees that were read.
FromSeed(key, read, l, records) ==
  /\ l = "cost_systems" => records = SystemsOf(key)
  /\ l = "terms_of_payment" => records = TermRecordsOf(key)
  /\ l = "general_ledger_accounts" => records = AccountsOf(key)
  /\ l = "accounting_sequences_processed" => records = SequencesOf(key)
  /\ l = "accounting_transaction_keys" => records = KeysOf(key)
  /\ l = "assets_stocktakings" => records = [i \in 1..Count[l] |-> StocktakingOf(key, i)]
  /\ l \in RuleLists => records = [i \in 1..Count[l] |-> RuleOf(key, l, i)]
  /\ l \in PartnerLists =>
       records = [i \in 1..Count[l] |-> PartnerOf(key, read, l, i, Guid(records, i))]
  /\ l \in OpenItemLists => ItemsMade(key, l, records)

YearOf(client, i) ==
  [id |-> BaseYear(client) + i - 1,
   creditor_term_of_payment_id |->
     Choice(TermNumbers, Value(<<client>>, <<"fiscal_years", i, "term">>)),
   debitor_term_of_payment_id |->
     IF i = Count["fiscal_years"]
     THEN Choice(TermNumbers, Value(<<client>>, <<"fiscal_years", i, "content">>))
     ELSE None]

\* An entry of the history, of a scope or of a client's list of fiscal years.
ScopeEntry(g) ==
  /\ g.key \in ScopeKeys
  /\ IsList(g.read, AddresseeCount)
  /\ \A l \in Lists : FromSeed(g.key, g.read, l, g.content[l])
YearsEntry(g) ==
  \E c \in Clients :
    /\ g.key = <<c>>
    /\ g.content = [i \in 1..Count["fiscal_years"] |-> YearOf(c, i)]

EntriesOK == \A g \in generated : ScopeEntry(g) \/ YearsEntry(g)

\* What a scope is cached for was generated for it.
ScopesOK ==
  \A k \in Cached(scopes) : \E g \in generated : ScopeEntry(g) /\ g.key = k /\ g.content = scopes[k]

\* A call in progress, for the lists and the years it has finished.
ListsFromSeed(c, key) ==
  Rank[c.at] \in 1..15 =>
    \A l \in Lists : Rank[l] < Rank[c.at] => FromSeed(key, c.read, l, c.made[l])
YearsFromSeed(c) ==
  c.want = "years" =>
    /\ IsList(c.records, Count["fiscal_years"])
    /\ \A i \in 1..Count["fiscal_years"] : i <= c.done => c.records[i] = YearOf(c.client, i)

ProgressOK == call # Idle => ListsFromSeed(call, Key) /\ YearsFromSeed(call)

ContentInv == EntriesOK /\ ScopesOK /\ ProgressOK

\* Which list is made in which way.
LEMMA ListKinds ==
  /\ PartnerLists \subseteq Lists /\ OpenItemLists \subseteq Lists /\ RuleLists \subseteq Lists
  /\ \A l \in EarlyLists \cup RuleLists \cup {"assets_stocktakings"} :
       l \in Lists /\ l \notin PartnerLists /\ l \notin OpenItemLists
  /\ \A l \in OpenItemLists : l \notin PartnerLists
  /\ Lists = EarlyLists \cup RuleLists \cup {"assets_stocktakings"} \cup PartnerLists
               \cup OpenItemLists
BY DEF Lists, PartnerLists, OpenItemLists, Payables, RuleLists, EarlyLists

\* What a call has when it makes a list.
LEMMA FinishedLists ==
  ASSUME IInv, ContentInv, NEW list \in Lists, At(list)
  PROVE  \A l \in Lists : Rank[l] < Rank[list] => FromSeed(Key, call.read, l, call.made[l])
BY ListRanks DEF ContentInv, ProgressOK, ListsFromSeed, At

\* A call that makes its next list from its seed keeps the invariant.
LEMMA MakeContent ==
  ASSUME IInv, ContentInv, NEW list \in Lists, NEW records, NEW next \in Steps,
         Rank[next] = Rank[list] + 1,
         Make(list, records, next), UNCHANGED Others,
         FromSeed(Key, call.read, list, records)
  PROVE  ContentInv'
<1> DEFINE made == [call.made EXCEPT ![list] = records]
<1>1. /\ call # Idle /\ call.at = list
      /\ CallTypeOK(call) /\ DOMAIN call.made = Lists
  BY DEF IInv, CallOK, Make, At, MadeSoFar
<1>2. made[list] = records /\ \A l \in Lists : l # list => made[l] = call.made[l]
  BY <1>1
<1>3. call' = [call EXCEPT !.made = made, !.at = next]
  BY DEF Make
<1> HIDE DEF made
<1>4. /\ call'.made = made /\ call'.at = next /\ call'.want = call.want
      /\ call'.client = call.client /\ call'.year = call.year /\ call'.read = call.read
      /\ call'.records = call.records /\ call'.done = call.done
  BY <1>1, <1>3 DEF CallTypeOK
<1>5. Key' = Key
  BY <1>4 DEF Key
<1>6. ListsFromSeed(call', Key)
  <2>1. ASSUME NEW l \in Lists, Rank[l] < Rank[next] PROVE FromSeed(Key, call.read, l, made[l])
    <3>1. CASE l = list
      BY <1>2, <3>1
    <3>2. CASE l # list
      <4>1. Rank[l] < Rank[list]
        BY <2>1, <3>2, RankInjective, ListRanks
      <4>2. FromSeed(Key, call.read, l, call.made[l])
        BY <1>1, <4>1, FinishedLists DEF At
      <4>. QED
        BY <1>2, <3>2, <4>2
    <3>. QED
      BY <3>1, <3>2
  <2>. QED
    BY <1>4, <2>1 DEF ListsFromSeed
<1>7. YearsFromSeed(call')
  BY <1>1, <1>4 DEF ContentInv, ProgressOK, YearsFromSeed
<1>8. ProgressOK'
  BY <1>5, <1>6, <1>7 DEF ProgressOK
<1>9. scopes' = scopes /\ generated' = generated
  BY DEF Others, caches
<1>10. EntriesOK' /\ ScopesOK'
  BY <1>9 DEF ContentInv, EntriesOK, ScopesOK, Cached
<1>. QED
  BY <1>8, <1>10 DEF ContentInv

\* The pools, as a call finds them in the lists it has.
LEMMA PoolsFromSeed ==
  ASSUME NEW key, NEW read, NEW r
  PROVE  /\ FromSeed(key, read, "accounting_sequences_processed", r) => Ids(r) = SequenceIds
         /\ FromSeed(key, read, "terms_of_payment", r) => Numbers(r) = TermNumbers
         /\ FromSeed(key, read, "general_ledger_accounts", r) => r = AccountsOf(key)
         /\ FromSeed(key, read, "accounting_transaction_keys", r) => r = KeysOf(key)
<1>1. \A n : ToInt(Str(n)) = n
  BY DEF ToInt, Str
<1>2. Ids(SequencesOf(key)) = SequenceIds
  BY DEF SequencesOf, Ids, SequenceIds
<1>3. Numbers(TermRecordsOf(key)) = TermNumbers
  BY <1>1 DEF TermRecordsOf, Numbers, TermNumbers
<1>. QED
  BY <1>2, <1>3 DEF FromSeed

LEMMA EarlyContent ==
  ASSUME IInv, ContentInv,
         \/ GenerateCostSystems \/ GenerateTermsOfPayment \/ GenerateGeneralLedgerAccounts
         \/ GenerateAccountingSequencesProcessed \/ GenerateAccountingTransactionKeys
  PROVE  ContentInv'
<1>1. ASSUME NEW list \in EarlyLists, NEW next \in Steps, Rank[next] = Rank[list] + 1,
             NEW records, Make(list, records, next), UNCHANGED Others,
             FromSeed(Key, call.read, list, records)
      PROVE  ContentInv'
  BY <1>1, ListKinds, MakeContent
<1>a. \A list \in EarlyLists : list \notin {"assets_stocktakings"} \cup RuleLists
                                         \cup PartnerLists \cup OpenItemLists
  BY DEF EarlyLists, RuleLists, PartnerLists, OpenItemLists, Payables
<1>b. {"terms_of_payment", "general_ledger_accounts", "accounting_sequences_processed",
       "accounting_transaction_keys", "creditors"} \subseteq Steps
  BY StepsAre
<1>c. /\ Rank["terms_of_payment"] = Rank["cost_systems"] + 1
      /\ Rank["general_ledger_accounts"] = Rank["terms_of_payment"] + 1
      /\ Rank["accounting_sequences_processed"] = Rank["general_ledger_accounts"] + 1
      /\ Rank["accounting_transaction_keys"] = Rank["accounting_sequences_processed"] + 1
      /\ Rank["creditors"] = Rank["accounting_transaction_keys"] + 1
  BY RankValues
<1>2. CASE GenerateCostSystems
  <2> DEFINE r == [i \in 1..Count["cost_systems"] |->
             [id |-> Str(i), is_activated_for_postings |-> Draw("cost_systems", i, "content")]]
  <2>1. Make("cost_systems", r, "terms_of_payment") /\ UNCHANGED Others
    BY <1>2 DEF GenerateCostSystems
  <2>2. r = SystemsOf(Key)
    BY DEF SystemsOf, Draw
  <2> HIDE DEF r
  <2>3. "cost_systems" \in EarlyLists
    BY DEF EarlyLists
  <2>4. FromSeed(Key, call.read, "cost_systems", r)
    BY <1>a, <2>2, <2>3 DEF FromSeed
  <2>. QED
    BY <1>1, <1>b, <1>c, <2>1, <2>3, <2>4
<1>3. CASE GenerateTermsOfPayment
  <2> DEFINE r == [i \in 1..Count["terms_of_payment"] |->
             [id |-> Str(9000 + i - 1), due |-> Draw("terms_of_payment", i, "content")]]
  <2>1. Make("terms_of_payment", r, "general_ledger_accounts") /\ UNCHANGED Others
    BY <1>3 DEF GenerateTermsOfPayment
  <2>2. r = TermRecordsOf(Key)
    BY DEF TermRecordsOf, Draw
  <2> HIDE DEF r
  <2>3. "terms_of_payment" \in EarlyLists
    BY DEF EarlyLists
  <2>4. FromSeed(Key, call.read, "terms_of_payment", r)
    BY <1>a, <2>2, <2>3 DEF FromSeed
  <2>. QED
    BY <1>1, <1>b, <1>c, <2>1, <2>3, <2>4
<1>4. CASE GenerateGeneralLedgerAccounts
  <2> DEFINE r == [i \in 1..Count["general_ledger_accounts"] |->
             [account_number |-> 1000 + i - 1,
              caption |-> Draw("general_ledger_accounts", i, "content")]]
  <2>1. Make("general_ledger_accounts", r, "accounting_sequences_processed") /\ UNCHANGED Others
    BY <1>4 DEF GenerateGeneralLedgerAccounts
  <2>2. r = AccountsOf(Key)
    BY DEF AccountsOf, Draw
  <2> HIDE DEF r
  <2>3. "general_ledger_accounts" \in EarlyLists
    BY DEF EarlyLists
  <2>4. FromSeed(Key, call.read, "general_ledger_accounts", r)
    BY <1>a, <2>2, <2>3 DEF FromSeed
  <2>. QED
    BY <1>1, <1>b, <1>c, <2>1, <2>3, <2>4
<1>5. CASE GenerateAccountingSequencesProcessed
  <2> DEFINE r == [i \in 1..Count["accounting_sequences_processed"] |->
             [id |-> Str(2000 + i - 1), accounting_sequence_id |-> Str(3000 + i - 1),
              record_type |-> Draw("accounting_sequences_processed", i, "content")]]
  <2>1. /\ Make("accounting_sequences_processed", r, "accounting_transaction_keys")
        /\ UNCHANGED Others
    BY <1>5 DEF GenerateAccountingSequencesProcessed
  <2>2. r = SequencesOf(Key)
    BY DEF SequencesOf, Draw
  <2> HIDE DEF r
  <2>3. "accounting_sequences_processed" \in EarlyLists
    BY DEF EarlyLists
  <2>4. FromSeed(Key, call.read, "accounting_sequences_processed", r)
    BY <1>a, <2>2, <2>3 DEF FromSeed
  <2>. QED
    BY <1>1, <1>b, <1>c, <2>1, <2>3, <2>4
<1>6. CASE GenerateAccountingTransactionKeys
  <2> DEFINE r == [i \in 1..Count["accounting_transaction_keys"] |->
             [id |-> Str(4000 + i - 1), number |-> i * 100,
              tax_rate |-> Draw("accounting_transaction_keys", i, "content")]]
  <2>1. Make("accounting_transaction_keys", r, "creditors") /\ UNCHANGED Others
    BY <1>6 DEF GenerateAccountingTransactionKeys
  <2>2. r = KeysOf(Key)
    BY DEF KeysOf, Draw
  <2> HIDE DEF r
  <2>3. "accounting_transaction_keys" \in EarlyLists
    BY DEF EarlyLists
  <2>4. FromSeed(Key, call.read, "accounting_transaction_keys", r)
    BY <1>a, <2>2, <2>3 DEF FromSeed
  <2>. QED
    BY <1>1, <1>b, <1>c, <2>1, <2>3, <2>4
<1>. QED
  BY <1>2, <1>3, <1>4, <1>5, <1>6

LEMMA PartnerContent ==
  ASSUME IInv, ContentInv, GenerateCreditors \/ GenerateDebitors
  PROVE  ContentInv'
<1>1. PICK list \in PartnerLists, next \in {"debitors", "centers"} :
        LET base == IF list = "creditors" THEN 70000 ELSE 10000
        IN  /\ Make(list, [i \in 1..Count[list] |-> Partner(list, base, i)], next)
            /\ Rank[next] = Rank[list] + 1
            /\ UNCHANGED Others
  BY RankValues DEF GenerateCreditors, GenerateDebitors, PartnerLists
<1> DEFINE base == IF list = "creditors" THEN 70000 ELSE 10000
           records == [i \in 1..Count[list] |-> Partner(list, base, i)]
<1>2. \A i : Partner(list, base, i) = PartnerOf(Key, call.read, list, i, fresh + i)
  BY DEF Partner, PartnerOf, NumberAt, PartnerLists, Payables, Draw
<1>3. \A i \in 1..Count[list] : Guid(records, i) = fresh + i
  BY DEF Partner, Guid
<1>4. records = [i \in 1..Count[list] |->
                   PartnerOf(Key, call.read, list, i, Guid(records, i))]
  <2>1. \A i \in 1..Count[list] :
          records[i] = PartnerOf(Key, call.read, list, i, Guid(records, i))
    BY <1>2, <1>3
  <2>2. records = [i \in 1..Count[list] |-> records[i]]
    OBVIOUS
  <2> HIDE DEF records
  <2>. QED
    BY <2>1, <2>2
<1>5. Make(list, records, next) /\ Rank[next] = Rank[list] + 1 /\ UNCHANGED Others
  BY <1>1
<1> HIDE DEF records
<1>6. FromSeed(Key, call.read, list, records)
  BY <1>4 DEF FromSeed, PartnerLists, OpenItemLists, Payables, RuleLists
<1>7. list \in Lists /\ next \in Steps
  BY ListKinds, StepsAre
<1>. QED
  BY <1>5, <1>6, <1>7, MakeContent

LEMMA ItemContent ==
  ASSUME IInv, ContentInv, NEW list \in OpenItemLists, NEW next \in Steps,
         Rank[next] = Rank[list] + 1,
         GenerateOpenItems(list, IF list \in Payables THEN 70000 ELSE 10000, next)
  PROVE  ContentInv'
<1> DEFINE base == IF list \in Payables THEN 70000 ELSE 10000
           records == [i \in 1..Count[list] |-> OpenItem(list, base, i)]
<1>1. Make(list, records, next) /\ UNCHANGED Others
  BY DEF GenerateOpenItems
<1>2. list \in Lists /\ At(list) /\ Rank[list] \in 9..11
  BY <1>1, ListNames DEF Make
<1>3. /\ Ids(call.made["accounting_sequences_processed"]) = SequenceIds
      /\ Numbers(call.made["terms_of_payment"]) = TermNumbers
  <2>1. \A l \in {"accounting_sequences_processed", "terms_of_payment"} :
          FromSeed(Key, call.read, l, call.made[l])
    BY <1>2, FinishedLists, RankValues, ListKinds DEF EarlyLists
  <2>. QED
    BY <2>1, PoolsFromSeed
<1>4. Ids(call.centers) = Ids(CostCenters(Key, 1))
  <2>1. Key \in Cached(centers) /\ call.centers = centers[Key]
    BY <1>2 DEF IInv, CallOK, At
  <2>. QED
    BY <2>1 DEF IInv, CachesOK
<1>5. \A i : OpenItem(list, base, i) = ItemOf(Key, list, i, fresh + i)
  BY <1>3, <1>4 DEF OpenItem, ItemOf, NumberAt, OpenItemLists, Payables, Draw
<1>6. \A i \in 1..Count[list] : Guid(records, i) = fresh + i
  BY DEF OpenItem, Guid
<1>7. ItemsMade(Key, list, records)
  <2>1. \A i \in 1..Count[list] : records[i] = ItemOf(Key, list, i, Guid(records, i))
    BY <1>5, <1>6
  <2>2. records = [i \in 1..Count[list] |-> records[i]]
    OBVIOUS
  <2> HIDE DEF records
  <2>. QED
    BY <2>1, <2>2 DEF ItemsMade
<1> HIDE DEF records
<1>8. FromSeed(Key, call.read, list, records)
  <2>1. /\ list # "cost_systems" /\ list # "terms_of_payment"
        /\ list # "general_ledger_accounts" /\ list # "accounting_sequences_processed"
        /\ list # "accounting_transaction_keys" /\ list # "assets_stocktakings"
        /\ list \notin RuleLists /\ list \notin PartnerLists
    BY DEF PartnerLists, OpenItemLists, Payables, RuleLists
  <2>. QED
    BY <1>7, <2>1 DEF FromSeed
<1>. QED
  BY <1>1, <1>2, <1>8, MakeContent

\* The pools of the stocktakings and the rules.
LEMMA AccountsAndKeys ==
  ASSUME IInv, ContentInv, NEW list \in {"assets_stocktakings"} \cup RuleLists, At(list)
  PROVE  /\ call.made["general_ledger_accounts"] = AccountsOf(Key)
         /\ call.made["accounting_transaction_keys"] = KeysOf(Key)
<1>1. list \in Lists /\ Rank[list] \in 12..14
  BY ListNames
<1>2. \A l \in {"general_ledger_accounts", "accounting_transaction_keys"} :
        FromSeed(Key, call.read, l, call.made[l])
  BY <1>1, FinishedLists, RankValues, ListKinds DEF EarlyLists
<1>3. FromSeed(Key, call.read, "general_ledger_accounts", call.made["general_ledger_accounts"])
  BY <1>2
<1>4. FromSeed(Key, call.read, "accounting_transaction_keys",
               call.made["accounting_transaction_keys"])
  BY <1>2
<1>. QED
  BY <1>3, <1>4, PoolsFromSeed

LEMMA StocktakingContent ==
  ASSUME IInv, ContentInv, GenerateAssetStocktakings
  PROVE  ContentInv'
<1> DEFINE list == "assets_stocktakings"
           next == "posting_proposal_rules_incoming_invoices"
           records == [i \in 1..Count[list] |->
             [id |-> Str(5000 + i - 1),
              general_ledger_account |->
                IF i % 2 = 1
                THEN Choice(call.made["general_ledger_accounts"], Draw(list, i, "account"))
                ELSE None]]
<1>1. Make(list, records, next) /\ UNCHANGED Others
  BY DEF GenerateAssetStocktakings
<1>2. At(list) /\ list \in Lists /\ next \in Steps /\ Rank[next] = Rank[list] + 1
  BY <1>1, ListNames, StepsAre, RankValues DEF Make
<1>3. call.made["general_ledger_accounts"] = AccountsOf(Key)
  BY <1>2, AccountsAndKeys
<1>4. records = [i \in 1..Count[list] |-> StocktakingOf(Key, i)]
  BY <1>3 DEF StocktakingOf, Draw
<1> HIDE DEF records
<1>5. FromSeed(Key, call.read, list, records)
  BY <1>4 DEF FromSeed, PartnerLists, OpenItemLists, Payables, RuleLists
<1>. QED
  BY <1>1, <1>2, <1>5, MakeContent

LEMMA RuleContent ==
  ASSUME IInv, ContentInv, NEW list \in RuleLists, NEW next \in Steps,
         Rank[next] = Rank[list] + 1,
         GeneratePostingProposalRules(list,
           IF list = "posting_proposal_rules_incoming_invoices" THEN 7000 ELSE 8000, next)
  PROVE  ContentInv'
<1> DEFINE base == IF list = "posting_proposal_rules_incoming_invoices" THEN 7000 ELSE 8000
           records == [i \in 1..Count[list] |->
             [id |-> Str(base + i - 1),
              accounting_transaction_key |->
                Choice(call.made["accounting_transaction_keys"], Draw(list, i, "key")).number,
              account_number |->
                Choice(call.made["general_ledger_accounts"],
                       Draw(list, i, "account")).account_number]]
<1>1. Make(list, records, next) /\ UNCHANGED Others
  BY DEF GeneratePostingProposalRules
<1>2. At(list) /\ list \in Lists /\ list \in {"assets_stocktakings"} \cup RuleLists
  BY <1>1, ListNames DEF Make
<1> HIDE DEF records
<1>3. /\ call.made["general_ledger_accounts"] = AccountsOf(Key)
      /\ call.made["accounting_transaction_keys"] = KeysOf(Key)
  BY <1>2, AccountsAndKeys
<1>4. records = [i \in 1..Count[list] |-> RuleOf(Key, list, i)]
  BY <1>3 DEF records, RuleOf, Draw
<1>5. FromSeed(Key, call.read, list, records)
  BY <1>4 DEF FromSeed, PartnerLists, OpenItemLists, Payables, RuleLists
<1>. QED
  BY <1>1, <1>2, <1>5, MakeContent

\* The history and the cached scopes stay as they are.
LEMMA NothingStored ==
  ASSUME ContentInv, UNCHANGED <<scopes, generated>>
  PROVE  EntriesOK' /\ ScopesOK'
BY DEF ContentInv, EntriesOK, ScopesOK, Cached

LEMMA AskContent ==
  ASSUME ContentInv,
         \/ \E c \in Clients, y \in Years : AskScope(c, y)
         \/ \E c \in Clients : AskYears(c)
  PROVE  ContentInv'
<1>1. UNCHANGED <<scopes, generated>>
  BY DEF AskScope, AskYears, Others, caches
<1>2. CASE \E c \in Clients, y \in Years : AskScope(c, y)
  <2>1. call'.at = "scope" /\ call'.want = "scope"
    BY <1>2 DEF AskScope, NewCall
  <2>2. ProgressOK'
    BY <2>1, RankValues DEF ProgressOK, ListsFromSeed, YearsFromSeed
  <2>. QED
    BY <1>1, <2>2, NothingStored DEF ContentInv
<1>3. CASE \E c \in Clients : AskYears(c)
  <2>1. PICK c \in Clients : call' = NewCall("years", c, BaseYear(c), FiscalYears(BaseYear(c)))
    BY <1>3 DEF AskYears
  <2>2. /\ call'.at = "scope" /\ call'.done = 0
        /\ call'.records = FiscalYears(BaseYear(c))
    BY <2>1 DEF NewCall
  <2>3. IsList(call'.records, Count["fiscal_years"])
    BY <2>2 DEF FiscalYears, IsList
  <2>4. ProgressOK'
    BY <2>2, <2>3, RankValues DEF ProgressOK, ListsFromSeed, YearsFromSeed
  <2>. QED
    BY <1>1, <2>4, NothingStored DEF ContentInv
<1>. QED
  BY <1>2, <1>3

LEMMA ScopeContent ==
  ASSUME IInv, ContentInv, HitScope \/ ReadAddressees \/ GetCostCenters
  PROVE  ContentInv'
<1>1. UNCHANGED <<scopes, generated>>
  BY DEF HitScope, ReadAddressees, GetCostCenters, Others, caches
<1>2. call # Idle /\ CallTypeOK(call)
  BY DEF HitScope, ReadAddressees, GetCostCenters, At, IInv, CallOK
<1>3. /\ call'.want = call.want /\ call'.client = call.client /\ call'.year = call.year
      /\ call'.records = call.records /\ call'.done = call.done
  BY <1>2 DEF HitScope, ReadAddressees, GetCostCenters, CallTypeOK
<1>4. YearsFromSeed(call') /\ Key' = Key
  BY <1>2, <1>3 DEF ContentInv, ProgressOK, YearsFromSeed, Key
<1>5. ListsFromSeed(call', Key)
  <2>1. CASE HitScope
    <3>1. call'.at = "answer"
      BY <1>2, <2>1 DEF HitScope, CallTypeOK
    <3>. QED
      BY <3>1, RankValues DEF ListsFromSeed
  <2>2. CASE ReadAddressees
    <3>1. call'.at = "cost_systems"
      BY <1>2, <2>2 DEF ReadAddressees, CallTypeOK
    <3>. QED
      BY <3>1, RankValues, ListRanks DEF ListsFromSeed
  <2>3. CASE GetCostCenters
    <3>1. /\ call'.at = "accounts_payable" /\ call.at = "centers"
          /\ call'.made = call.made /\ call'.read = call.read
      BY <1>2, <2>3 DEF GetCostCenters, CallTypeOK, At
    <3>2. \A l \in Lists : Rank[l] < 9 => Rank[l] < 8
      BY ListRanks
    <3>3. \A l \in Lists : Rank[l] < 8 => FromSeed(Key, call.read, l, call.made[l])
      BY <1>2, <3>1, RankValues DEF ContentInv, ProgressOK, ListsFromSeed
    <3>. QED
      BY <3>1, <3>2, <3>3, RankValues DEF ListsFromSeed
  <2>. QED
    BY <2>1, <2>2, <2>3
<1>6. ProgressOK'
  BY <1>4, <1>5 DEF ProgressOK
<1>. QED
  BY <1>1, <1>6, NothingStored DEF ContentInv

LEMMA StoreContent ==
  ASSUME IInv, ContentInv, StoreScope
  PROVE  ContentInv'
<1> DEFINE g == [key |-> Key, read |-> call.read, content |-> call.made]
<1>1. /\ call # Idle /\ call.at = "store" /\ CallTypeOK(call)
      /\ Len(call.read) = AddresseeCount
  BY RankValues DEF StoreScope, At, IInv, CallOK
<1>2. generated' = generated \cup {g} /\ scopes' = Put(scopes, Key, call.made)
  BY DEF StoreScope
<1>3. ScopeEntry(g)
  <2>1. Key \in ScopeKeys
    BY <1>1 DEF CallTypeOK, Key, ScopeKeys
  <2>2. IsList(call.read, AddresseeCount)
    BY <1>1, CountAssumption DEF CallTypeOK, IsList
  <2>3. \A l \in Lists : FromSeed(Key, call.read, l, call.made[l])
    <3>1. Rank[call.at] = 15 /\ 15 \in 1..15
      BY <1>1, RankValues
    <3>a. \A l \in Lists : Rank[l] < 15
      BY ListRanks
    <3>2. ListsFromSeed(call, Key)
      BY <1>1 DEF ContentInv, ProgressOK
    <3>. QED
      BY <3>1, <3>a, <3>2 DEF ListsFromSeed
  <2>. QED
    BY <2>1, <2>2, <2>3 DEF ScopeEntry
<1>4. g \in generated' /\ g.key = Key /\ g.content = call.made
  BY <1>2
<1> HIDE DEF g
<1>5. EntriesOK'
  BY <1>2, <1>3 DEF ContentInv, EntriesOK
<1>6. ScopesOK'
  <2>1. ASSUME NEW k \in Cached(scopes')
        PROVE  \E h \in generated' : ScopeEntry(h) /\ h.key = k /\ h.content = scopes'[k]
    <3>1. CASE k = Key
      BY <1>2, <1>3, <1>4, <3>1 DEF Put
    <3>2. CASE k # Key
      <4>1. k \in Cached(scopes) /\ scopes'[k] = scopes[k]
        BY <1>2, <2>1, <3>2 DEF Put, Cached
      <4>. QED
        BY <1>2, <4>1 DEF ContentInv, ScopesOK
    <3>. QED
      BY <3>1, <3>2
  <2>. QED
    BY <2>1 DEF ScopesOK, Cached
<1>7. ProgressOK'
  <2>1. /\ call'.at = "answer" /\ call'.want = call.want /\ call'.client = call.client
        /\ call'.records = call.records /\ call'.done = call.done
    BY <1>1 DEF StoreScope, CallTypeOK
  <2>2. ListsFromSeed(call', Key')
    BY <2>1, RankValues DEF ListsFromSeed
  <2>3. YearsFromSeed(call')
    BY <1>1, <2>1 DEF ContentInv, ProgressOK, YearsFromSeed
  <2>. QED
    BY <2>2, <2>3 DEF ProgressOK
<1>. QED
  BY <1>5, <1>6, <1>7 DEF ContentInv

\* A fiscal year with both terms of payment replaced.
LEMMA TermsReplaced ==
  ASSUME NEW old, NEW year, NEW c, NEW d, NEW x, NEW y,
         old = [id |-> year, creditor_term_of_payment_id |-> c, debitor_term_of_payment_id |-> d]
  PROVE  [old EXCEPT !.creditor_term_of_payment_id = x, !.debitor_term_of_payment_id = y] =
         [id |-> year, creditor_term_of_payment_id |-> x, debitor_term_of_payment_id |-> y]
<1> DEFINE mid == [old EXCEPT !.creditor_term_of_payment_id = x]
<1>1. mid = [id |-> year, creditor_term_of_payment_id |-> x, debitor_term_of_payment_id |-> d]
  OBVIOUS
<1>2. [old EXCEPT !.creditor_term_of_payment_id = x, !.debitor_term_of_payment_id = y] =
      [mid EXCEPT !.debitor_term_of_payment_id = y]
  OBVIOUS
<1> HIDE DEF mid
<1>3. [mid EXCEPT !.debitor_term_of_payment_id = y] =
      [id |-> year, creditor_term_of_payment_id |-> x, debitor_term_of_payment_id |-> y]
  BY <1>1
<1>. QED
  BY <1>2, <1>3

\* The year that is filled in names the terms of payment that its client's
\* stream draws, and these are the same numbers in every scope.
LEMMA BackfillContent ==
  ASSUME IInv, ContentInv, BackfillYear
  PROVE  ContentInv'
<1> DEFINE n == Count["fiscal_years"]
           i == call.done + 1
           filled == Backfilled(i)
<1>1. UNCHANGED <<scopes, generated>>
  BY DEF BackfillYear, Others, caches
<1>2. /\ call # Idle /\ call.at = "answer" /\ call.want = "years"
      /\ CallTypeOK(call) /\ YearsSoFar(call) /\ call.done < n
      /\ Key \in Cached(scopes) /\ call.made = scopes[Key]
  BY DEF BackfillYear, At, IInv, CallOK
<1>3. i \in 1..n /\ n \in Nat /\ call.done \in Nat
  BY <1>2, CountAssumption DEF CallTypeOK
<1>4. Numbers(call.made["terms_of_payment"]) = TermNumbers
  <2>1. PICK g \in generated : ScopeEntry(g) /\ g.key = Key /\ g.content = scopes[Key]
    BY <1>2 DEF ContentInv, ScopesOK
  <2>2. "terms_of_payment" \in Lists
    BY DEF Lists
  <2>3. FromSeed(Key, g.read, "terms_of_payment", call.made["terms_of_payment"])
    BY <1>2, <2>1, <2>2 DEF ScopeEntry
  <2>. QED
    BY <2>3, PoolsFromSeed
<1>5. filled = YearOf(call.client, i)
  <2> DEFINE record == call.records[i]
  <2>1. record = [id |-> BaseYear(call.client) + i - 1,
                  creditor_term_of_payment_id |-> record.creditor_term_of_payment_id,
                  debitor_term_of_payment_id |-> record.debitor_term_of_payment_id]
    BY <1>2, <1>3 DEF YearsSoFar
  <2>a. i > call.done
    BY <1>3
  <2>2. record.debitor_term_of_payment_id = IF i = n THEN 10 ELSE None
    BY <1>2, <1>3, <2>a DEF YearsSoFar
  <2>3. 10 # None
    BY CountAssumption
  <2>4. \A field : DrawTerm(i, field) =
          Choice(TermNumbers, Value(<<call.client>>, <<"fiscal_years", i, field>>))
    BY <1>4 DEF DrawTerm
  <2>5. filled = [record EXCEPT
                    !.creditor_term_of_payment_id = DrawTerm(i, "term"),
                    !.debitor_term_of_payment_id =
                      IF record.debitor_term_of_payment_id = None THEN None
                      ELSE DrawTerm(i, "content")]
    BY <2>1 DEF Backfilled
  <2> HIDE DEF record, i, n, filled
  <2>c. (IF record.debitor_term_of_payment_id = None THEN None ELSE DrawTerm(i, "content")) =
          (IF i = n THEN DrawTerm(i, "content") ELSE None)
    BY <2>2, <2>3
  <2>d. filled = [record EXCEPT
                    !.creditor_term_of_payment_id = DrawTerm(i, "term"),
                    !.debitor_term_of_payment_id =
                      IF i = n THEN DrawTerm(i, "content") ELSE None]
    BY <2>5, <2>c
  <2>6. filled = [id |-> BaseYear(call.client) + i - 1,
                  creditor_term_of_payment_id |-> DrawTerm(i, "term"),
                  debitor_term_of_payment_id |->
                    IF i = n THEN DrawTerm(i, "content") ELSE None]
    <3> DEFINE year == BaseYear(call.client) + i - 1
               creditor == record.creditor_term_of_payment_id
               debitor == record.debitor_term_of_payment_id
               first == DrawTerm(i, "term")
               second == IF i = n THEN DrawTerm(i, "content") ELSE None
    <3>1. record = [id |-> year, creditor_term_of_payment_id |-> creditor,
                    debitor_term_of_payment_id |-> debitor]
      BY <2>1
    <3>2. filled = [record EXCEPT !.creditor_term_of_payment_id = first,
                                  !.debitor_term_of_payment_id = second]
      BY <2>d
    <3> HIDE DEF year, creditor, debitor, first, second
    <3>3. filled = [id |-> year, creditor_term_of_payment_id |-> first,
                    debitor_term_of_payment_id |-> second]
      BY <3>1, <3>2, TermsReplaced
    <3>. QED
      BY <3>3 DEF year, first, second
  <2>. QED
    BY <2>4, <2>6 DEF YearOf, n
<1>6. /\ call'.records = [call.records EXCEPT ![i] = filled]
      /\ call'.done = i /\ call'.client = call.client
      /\ call'.at \in {"years", "next"}
  BY <1>2 DEF BackfillYear, CallTypeOK
<1>7. /\ IsList(call.records, n)
      /\ \A j \in 1..n : j <= call.done => call.records[j] = YearOf(call.client, j)
  BY <1>2 DEF ContentInv, ProgressOK, YearsFromSeed
<1>8. YearsFromSeed(call')
  <2> DEFINE old == call.records
             new == [old EXCEPT ![i] = filled]
  <2>1. IsList(new, n) /\ new[i] = filled /\ \A j \in 1..n : j # i => new[j] = old[j]
    <3>1. DOMAIN old = 1..n
      BY <1>7 DEF IsList
    <3> HIDE DEF old, n, i, filled
    <3>. QED
      BY <1>3, <3>1 DEF IsList
  <2>2. \A j \in 1..n : j <= i => j = i \/ j <= call.done
    BY <1>3
  <2> HIDE DEF new, n, filled
  <2>3. \A j \in 1..n : j <= i => new[j] = YearOf(call.client, j)
    BY <1>5, <1>7, <2>1, <2>2
  <2>4. call'.records = new
    BY <1>6 DEF new
  <2> HIDE DEF i
  <2>. QED
    BY <1>6, <2>1, <2>3, <2>4 DEF YearsFromSeed, n
<1>9. ListsFromSeed(call', Key')
  BY <1>6, RankValues DEF ListsFromSeed
<1>. QED
  BY <1>1, <1>8, <1>9, NothingStored DEF ContentInv, ProgressOK

LEMMA NextYearContent ==
  ASSUME IInv, ContentInv, NextYear
  PROVE  ContentInv'
<1>1. UNCHANGED <<scopes, generated>>
  BY DEF NextYear, Others, caches
<1>2. call # Idle /\ call.want = "years"
  BY DEF NextYear, At, IInv, CallOK
<1>3. /\ call'.at = "scope" /\ call'.records = call.records
      /\ call'.done = call.done /\ call'.client = call.client
  BY DEF NextYear, NewCall
<1>4. ListsFromSeed(call', Key')
  BY <1>3, RankValues DEF ListsFromSeed
<1>5. YearsFromSeed(call')
  BY <1>2, <1>3 DEF ContentInv, ProgressOK, YearsFromSeed
<1>. QED
  BY <1>1, <1>4, <1>5, NothingStored DEF ContentInv, ProgressOK

LEMMA StoreYearsContent ==
  ASSUME IInv, ContentInv, StoreYears
  PROVE  ContentInv'
<1> DEFINE g == [key |-> <<call.client>>, read |-> <<>>, content |-> call.records]
           n == Count["fiscal_years"]
<1>1. /\ generated' = generated \cup {g} /\ scopes' = scopes /\ call' = Idle
  BY DEF StoreYears
<1>2. /\ call # Idle /\ call.want = "years" /\ call.done = n /\ call.client \in Clients
  BY DEF StoreYears, At, IInv, CallOK, CallTypeOK
<1>3. /\ IsList(call.records, n)
      /\ \A i \in 1..n : i <= n => call.records[i] = YearOf(call.client, i)
  BY <1>2 DEF ContentInv, ProgressOK, YearsFromSeed
<1>4. n \in Nat
  BY CountAssumption
<1>5. call.records = [i \in 1..n |-> YearOf(call.client, i)]
  <2> HIDE DEF n
  <2>. QED
    BY <1>3, <1>4 DEF IsList
<1>6. YearsEntry(g)
  BY <1>2, <1>5 DEF YearsEntry
<1> HIDE DEF g
<1>7. EntriesOK' /\ ScopesOK'
  BY <1>1, <1>6 DEF ContentInv, EntriesOK, ScopesOK, Cached
<1>. QED
  BY <1>1, <1>7 DEF ContentInv, ProgressOK

LEMMA LossContent ==
  ASSUME ContentInv, AnswerScope \/ Reset \/ Restart \/ UNCHANGED vars
  PROVE  ContentInv'
<1>1. CASE AnswerScope
  <2>1. call' = Idle /\ UNCHANGED <<scopes, generated>>
    BY <1>1 DEF AnswerScope, Others, caches
  <2>. QED
    BY <2>1, NothingStored DEF ContentInv, ProgressOK
<1>2. CASE Reset \/ UNCHANGED vars
  <2>1. UNCHANGED <<scopes, generated, call>>
    BY <1>2 DEF Reset, vars, caches
  <2>2. Key' = Key
    BY <2>1 DEF Key
  <2>. QED
    BY <2>1, <2>2, NothingStored
       DEF ContentInv, ProgressOK, ListsFromSeed, YearsFromSeed
<1>3. CASE Restart
  <2>1. call' = Idle /\ generated' = generated /\ scopes' = Empty
    BY <1>3 DEF Restart
  <2>2. Cached(scopes') = {}
    BY <2>1 DEF Cached, Empty
  <2>. QED
    BY <2>1, <2>2 DEF ContentInv, EntriesOK, ScopesOK, ProgressOK, Cached
<1>. QED
  BY <1>1, <1>2, <1>3

LEMMA ContentPreserved ==
  IInv /\ ContentInv /\ [Next]_vars => ContentInv'
<1> SUFFICES ASSUME IInv, ContentInv, [Next]_vars PROVE ContentInv'
  OBVIOUS
<1>1. ASSUME NEW list \in OpenItemLists, NEW next \in Steps, Rank[next] = Rank[list] + 1,
             NEW base, base = IF list \in Payables THEN 70000 ELSE 10000,
             GenerateOpenItems(list, base, next)
      PROVE  ContentInv'
  BY <1>1, ItemContent
<1>2. /\ "accounts_payable" \in OpenItemLists /\ "accounts_payable" \in Payables
      /\ "accounts_payable_condense" \in OpenItemLists \cap Steps
      /\ "accounts_payable_condense" \in Payables
      /\ "accounts_receivable_condense" \in OpenItemLists \cap Steps
      /\ "accounts_receivable_condense" \notin Payables
      /\ "assets_stocktakings" \in Steps
  BY StepsAre DEF OpenItemLists, Payables
<1>3. CASE
        \/ GenerateOpenItems("accounts_payable", 70000, "accounts_payable_condense")
        \/ GenerateOpenItems("accounts_payable_condense", 70000, "accounts_receivable_condense")
        \/ GenerateOpenItems("accounts_receivable_condense", 10000, "assets_stocktakings")
  <2>1. /\ Rank["accounts_payable_condense"] = Rank["accounts_payable"] + 1
        /\ Rank["accounts_receivable_condense"] = Rank["accounts_payable_condense"] + 1
        /\ Rank["assets_stocktakings"] = Rank["accounts_receivable_condense"] + 1
    BY RankValues
  <2>. QED
    BY <1>1, <1>2, <1>3, <2>1
<1>4. CASE
        \/ GeneratePostingProposalRules("posting_proposal_rules_incoming_invoices", 7000,
                                        "posting_proposal_rules_outgoing_invoices")
        \/ GeneratePostingProposalRules("posting_proposal_rules_outgoing_invoices", 8000, "store")
  <2> DEFINE incoming == "posting_proposal_rules_incoming_invoices"
             outgoing == "posting_proposal_rules_outgoing_invoices"
  <2>1. incoming \in RuleLists /\ outgoing \in RuleLists /\ {outgoing, "store"} \subseteq Steps
    BY StepsAre DEF RuleLists
  <2>2. Rank[outgoing] = Rank[incoming] + 1 /\ Rank["store"] = Rank[outgoing] + 1
    BY RankValues
  <2>3. ASSUME NEW list \in RuleLists, NEW next \in Steps, Rank[next] = Rank[list] + 1,
               NEW base, base = IF list = incoming THEN 7000 ELSE 8000,
               GeneratePostingProposalRules(list, base, next)
        PROVE  ContentInv'
    BY <2>3, RuleContent
  <2>4. outgoing # incoming
    OBVIOUS
  <2>. QED
    BY <1>4, <2>1, <2>2, <2>3, <2>4
<1>. QED
  BY <1>3, <1>4, AskContent, ScopeContent, EarlyContent, PartnerContent, StocktakingContent,
     StoreContent, LossContent, BackfillContent, NextYearContent, StoreYearsContent
     DEF Next

\* What every entry of the history and every cached scope was made from.
LEMMA ContentHolds ==
  Spec => []ContentInv
<1>1. Init => ContentInv
  <2>1. Init => Cached(scopes) = {}
    BY DEF Init, Cached, Empty
  <2>. QED
    BY <2>1 DEF Init, ContentInv, EntriesOK, ScopesOK, ProgressOK
<1>. QED
  BY <1>1, ContentPreserved, InvariantHolds, PTL DEF Spec

\* The fields of a partner and of an open item.
LEMMA PartnerFields ==
  \A key, read, l, i, guid :
         LET r == PartnerOf(key, read, l, i, guid)
         IN  /\ DOMAIN r = {"account_number", "addressee_id", "expanded", "unseeded"}
             /\ r.account_number = NumberAt(l, i)
             /\ r.addressee_id = Choice(read, Value(key, <<l, i, "addressee">>))
             /\ r.expanded = Value(key, <<l, i, "content">>)
BY DEF PartnerOf

LEMMA ItemFields ==
  \A key, l, i, guid :
         LET r == ItemOf(key, l, i, guid)
         IN  /\ DOMAIN r = {"account_number", "accounting_sequence_id", "kost1_cost_center_id",
                            "term_of_payment_id", "unseeded"}
             /\ r.account_number = NumberAt(l, i)
             /\ r.accounting_sequence_id =
                  Choice(SequenceIds, Value(key, <<l, i, "sequence">>))
             /\ r.kost1_cost_center_id =
                  IF i = Count[l] THEN None
                  ELSE Choice(Ids(CostCenters(key, 1)), Value(key, <<l, i, "cost_center">>))
             /\ r.term_of_payment_id =
                  IF i % 2 = 1 THEN Choice(TermNumbers, Value(key, <<l, i, "term">>)) ELSE None
BY DEF ItemOf

\* Every payable is owed to a creditor of its scope and every receivable by a
\* debitor of its scope, whatever the number of records, as long as there are
\* no more open items than partners.
THEOREM PartnersExist ==
  Spec => []ItemsHavePartners
<1>1. ContentInv => ItemsHavePartners
  <2> SUFFICES ASSUME ContentInv, NEW k \in Cached(scopes)
               PROVE  LET numbers(l) == {r.account_number : r \in Elements(scopes[k][l])}
                      IN  /\ \A l \in Payables : numbers(l) \subseteq numbers("creditors")
                          /\ numbers("accounts_receivable_condense") \subseteq numbers("debitors")
    BY DEF ItemsHavePartners
  <2> DEFINE made == scopes[k]
             numbers(l) == {r.account_number : r \in Elements(made[l])}
  <2>1. PICK g \in generated : ScopeEntry(g) /\ g.key = k /\ g.content = made
    BY DEF ContentInv, ScopesOK
  <2>2. ASSUME NEW l \in PartnerLists \cup OpenItemLists
        PROVE  /\ DOMAIN made[l] = 1..Count[l]
               /\ \A i \in 1..Count[l] : made[l][i].account_number = NumberAt(l, i)
    <3>1. FromSeed(k, g.read, l, made[l])
      BY <2>1, ListKinds DEF ScopeEntry
    <3>2. CASE l \in PartnerLists
      <4>1. made[l] = [i \in 1..Count[l] |-> PartnerOf(k, g.read, l, i, Guid(made[l], i))]
        BY <3>1, <3>2 DEF FromSeed
      <4> HIDE DEF made
      <4>2. \A i \in 1..Count[l] :
              made[l][i] = PartnerOf(k, g.read, l, i, Guid(made[l], i))
        BY <4>1
      <4>3. \A i \in 1..Count[l] : made[l][i].account_number = NumberAt(l, i)
        BY <4>2, PartnerFields
      <4>4. DOMAIN made[l] = 1..Count[l]
        BY <4>1
      <4>. QED
        BY <4>3, <4>4
    <3>3. CASE l \in OpenItemLists
      <4>1. made[l] = [i \in 1..Count[l] |-> ItemOf(k, l, i, Guid(made[l], i))]
        BY <3>1, <3>3 DEF FromSeed, ItemsMade
      <4> HIDE DEF made
      <4>2. \A i \in 1..Count[l] : made[l][i] = ItemOf(k, l, i, Guid(made[l], i))
        BY <4>1
      <4>3. \A i \in 1..Count[l] : made[l][i].account_number = NumberAt(l, i)
        BY <4>2, ItemFields
      <4>4. DOMAIN made[l] = 1..Count[l]
        BY <4>1
      <4>. QED
        BY <4>3, <4>4
    <3>. QED
      BY <3>2, <3>3
  <2>3. \A l \in PartnerLists \cup OpenItemLists : Count[l] \in Nat
    BY ListKinds, CountAssumption
  <2> HIDE DEF made
  <2>4. ASSUME NEW l \in OpenItemLists, NEW p \in PartnerLists, Count[l] <= Count[p],
               \A i : NumberAt(l, i) = NumberAt(p, i)
        PROVE  numbers(l) \subseteq numbers(p)
    <3> SUFFICES ASSUME NEW i \in DOMAIN made[l]
                 PROVE  \E j \in DOMAIN made[p] : made[l][i].account_number = made[p][j].account_number
      BY DEF Elements
    <3>1. i \in 1..Count[l] /\ i \in 1..Count[p]
      BY <2>2, <2>3, <2>4
    <3>2. made[l][i].account_number = NumberAt(l, i)
      BY <2>2, <3>1
    <3>3. made[p][i].account_number = NumberAt(p, i) /\ i \in DOMAIN made[p]
      BY <2>2, <3>1
    <3>. QED
      BY <2>4, <3>2, <3>3
  <2>5. /\ \A l \in Payables : \A i : NumberAt(l, i) = NumberAt("creditors", i)
        /\ \A i : NumberAt("accounts_receivable_condense", i) = NumberAt("debitors", i)
        /\ Payables \subseteq OpenItemLists /\ "accounts_receivable_condense" \in OpenItemLists
        /\ "creditors" \in PartnerLists /\ "debitors" \in PartnerLists
    BY DEF NumberAt, Payables, OpenItemLists, PartnerLists
  <2> HIDE DEF numbers
  <2>6. /\ \A l \in Payables : numbers(l) \subseteq numbers("creditors")
        /\ numbers("accounts_receivable_condense") \subseteq numbers("debitors")
    BY <2>4, <2>5, PartnersAssumption
  <2>. QED
    BY <2>6 DEF numbers, made
<1>. QED
  BY <1>1, ContentHolds, PTL

\* Records that were made for the same key are the same but for guids and
\* addressees.
LEMMA SeededAlike ==
  ASSUME NEW key, NEW read1, NEW read2, NEW l \in Lists, NEW a, NEW b,
         FromSeed(key, read1, l, a), FromSeed(key, read2, l, b)
  PROVE  Seeded(a) = Seeded(b)
<1>1. CASE l \in PartnerLists
  <2>1. /\ a = [i \in 1..Count[l] |-> PartnerOf(key, read1, l, i, Guid(a, i))]
        /\ b = [i \in 1..Count[l] |-> PartnerOf(key, read2, l, i, Guid(b, i))]
    BY <1>1 DEF FromSeed
  <2>2. /\ DOMAIN a = 1..Count[l] /\ DOMAIN b = 1..Count[l]
        /\ \A i \in 1..Count[l] :
             /\ a[i] = PartnerOf(key, read1, l, i, Guid(a, i))
             /\ b[i] = PartnerOf(key, read2, l, i, Guid(b, i))
    BY <2>1
  <2>3. ASSUME NEW i \in 1..Count[l]
        PROVE  [f \in DOMAIN a[i] \ {"unseeded", "addressee_id"} |-> a[i][f]] =
               [f \in DOMAIN b[i] \ {"unseeded", "addressee_id"} |-> b[i][f]]
    <3>1. /\ DOMAIN a[i] = {"account_number", "addressee_id", "expanded", "unseeded"}
          /\ a[i].account_number = NumberAt(l, i)
          /\ a[i].expanded = Value(key, <<l, i, "content">>)
      <4>1. a[i] = PartnerOf(key, read1, l, i, Guid(a, i))
        BY <2>2
      <4>. QED
        BY <4>1, PartnerFields
    <3>2. /\ DOMAIN b[i] = {"account_number", "addressee_id", "expanded", "unseeded"}
          /\ b[i].account_number = NumberAt(l, i)
          /\ b[i].expanded = Value(key, <<l, i, "content">>)
      <4>1. b[i] = PartnerOf(key, read2, l, i, Guid(b, i))
        BY <2>2
      <4>. QED
        BY <4>1, PartnerFields
    <3>. QED
      BY <3>1, <3>2
  <2>. QED
    BY <2>2, <2>3 DEF Seeded
<1>2. CASE l \in OpenItemLists
  <2> DEFINE F == {"account_number", "accounting_sequence_id", "kost1_cost_center_id",
                   "term_of_payment_id", "unseeded"}
             Same(r, s) ==
               /\ DOMAIN r = F /\ DOMAIN s = F
               /\ r.account_number = s.account_number
               /\ r.accounting_sequence_id = s.accounting_sequence_id
               /\ r.kost1_cost_center_id = s.kost1_cost_center_id
               /\ r.term_of_payment_id = s.term_of_payment_id
  <2>1. /\ a = [i \in 1..Count[l] |-> ItemOf(key, l, i, Guid(a, i))]
        /\ b = [i \in 1..Count[l] |-> ItemOf(key, l, i, Guid(b, i))]
    BY <1>2 DEF FromSeed, ItemsMade
  <2>2. /\ DOMAIN a = 1..Count[l] /\ DOMAIN b = 1..Count[l]
        /\ \A i \in 1..Count[l] : /\ a[i] = ItemOf(key, l, i, Guid(a, i))
                                  /\ b[i] = ItemOf(key, l, i, Guid(b, i))
    BY <2>1
  <2>3. ASSUME NEW i \in 1..Count[l]
        PROVE  [f \in DOMAIN a[i] \ {"unseeded", "addressee_id"} |-> a[i][f]] =
               [f \in DOMAIN b[i] \ {"unseeded", "addressee_id"} |-> b[i][f]]
    <3>1. \A x, y : Same(ItemOf(key, l, i, x), ItemOf(key, l, i, y))
      BY DEF ItemOf
    <3>2. Same(a[i], b[i])
      <4>1. /\ a[i] = ItemOf(key, l, i, Guid(a, i))
            /\ b[i] = ItemOf(key, l, i, Guid(b, i))
        BY <2>2
      <4> HIDE DEF Same
      <4>. QED
        BY <3>1, <4>1
    <3>. QED
      BY <3>2
  <2>. QED
    BY <2>2, <2>3 DEF Seeded
<1>3. CASE l \notin PartnerLists \cup OpenItemLists
  <2>1. l \in EarlyLists \cup RuleLists \cup {"assets_stocktakings"}
    BY <1>3, ListKinds
  <2>2. a = b
    BY <2>1 DEF FromSeed, EarlyLists
  <2>. QED
    BY <2>2
<1>. QED
  BY <1>1, <1>2, <1>3

\* Partners that were made for the same key are of the addressees at the same
\* places.
LEMMA PlacesAlike ==
  ASSUME NEW g, NEW h, ScopeEntry(g), ScopeEntry(h), g.key = h.key, NEW l \in PartnerLists
  PROVE  SamePlaces(g, h, l)
<1> DEFINE place(i) == 1 + (Value(g.key, <<l, i, "addressee">>) % AddresseeCount)
<1>1. AddresseeCount \in Nat \ {0} /\ l \in Lists /\ Count[l] \in Nat /\ l \in DOMAIN Count
  BY CountAssumption, ListKinds
<1>2. ASSUME NEW e, ScopeEntry(e), e.key = g.key
      PROVE  /\ DOMAIN e.content[l] = 1..Count[l]
             /\ DOMAIN e.read = 1..AddresseeCount
             /\ \A i \in 1..Count[l] : e.content[l][i].addressee_id = e.read[place(i)]
  <2>1. Len(e.read) = AddresseeCount /\ DOMAIN e.read = 1..AddresseeCount
    BY <1>1, <1>2, LenOfFunction DEF ScopeEntry, IsList
  <2> DEFINE r == e.content[l]
  <2>2. r = [i \in 1..Count[l] |-> PartnerOf(g.key, e.read, l, i, Guid(r, i))]
    <3>1. FromSeed(g.key, e.read, l, r)
      BY <1>1, <1>2 DEF ScopeEntry
    <3> HIDE DEF r
    <3>. QED
      BY <3>1 DEF FromSeed
  <2> HIDE DEF r
  <2>3. DOMAIN r = 1..Count[l]
        /\ \A i \in 1..Count[l] : r[i] = PartnerOf(g.key, e.read, l, i, Guid(r, i))
    BY <2>2
  <2>4. \A i \in 1..Count[l] :
          r[i].addressee_id = Choice(e.read, Value(g.key, <<l, i, "addressee">>))
    BY <2>3, PartnerFields
  <2>. QED
    BY <2>1, <2>3, <2>4 DEF Choice, r
<1>3. ASSUME NEW i \in 1..Count[l] PROVE place(i) \in 1..AddresseeCount
  <2>1. <<l, i, "addressee">> \in Places
    BY <1>1 DEF Places, Fields
  <2>2. g.key \in Seeds
    BY DEF ScopeEntry, Seeds
  <2>3. Value(g.key, <<l, i, "addressee">>) \in Nat
    BY <2>1, <2>2, ValueAssumption
  <2>. QED
    BY <1>1, <2>3
<1> HIDE DEF place
<1>. QED
  BY <1>2, <1>3 DEF SamePlaces

\* What a key is generated with does not depend on when it is generated, nor on
\* what was generated before: a scope made again after a restart differs in
\* guids, and in addressees only as the lists of addressees differ.
THEOREM RegenerationAlike ==
  Spec => []RegeneratedAlike
<1>1. ContentInv => RegeneratedAlike
  <2> SUFFICES ASSUME ContentInv, NEW g \in generated, NEW h \in generated, g.key = h.key
               PROVE  IF g.key \in ScopeKeys
                      THEN /\ \A l \in Lists : Seeded(g.content[l]) = Seeded(h.content[l])
                           /\ \A l \in {"creditors", "debitors"} : SamePlaces(g, h, l)
                      ELSE g.content = h.content
    BY DEF RegeneratedAlike
  <2>1. \A c : <<c>> \notin ScopeKeys
    BY DEF ScopeKeys
  <2>2. CASE g.key \in ScopeKeys
    <3>1. ScopeEntry(g) /\ ScopeEntry(h)
      BY <2>1, <2>2 DEF ContentInv, EntriesOK, YearsEntry
    <3>2. \A l \in Lists : Seeded(g.content[l]) = Seeded(h.content[l])
      BY <3>1, SeededAlike DEF ScopeEntry
    <3>3. \A l \in PartnerLists : SamePlaces(g, h, l)
      BY <3>1, PlacesAlike
    <3>. QED
      BY <2>2, <3>2, <3>3 DEF PartnerLists
  <2>3. CASE g.key \notin ScopeKeys
    <3>1. PICK c, d \in Clients :
            /\ g.key = <<c>> /\ h.key = <<d>>
            /\ g.content = [i \in 1..Count["fiscal_years"] |-> YearOf(c, i)]
            /\ h.content = [i \in 1..Count["fiscal_years"] |-> YearOf(d, i)]
      BY <2>3 DEF ContentInv, EntriesOK, ScopeEntry, YearsEntry
    <3>2. <<c>> = <<d>>
      BY <3>1
    <3>3. c = d
      BY <3>2
    <3>. QED
      BY <2>3, <3>1, <3>3
  <2>. QED
    BY <2>2, <2>3
<1>. QED
  BY <1>1, ContentHolds, PTL
=============================================================================
