---------------------------- MODULE GeneratedScope ----------------------------
(***************************************************************************)
(* What app/scoped_data.py generates for a fiscal year, and the generators *)
(* of app/fake_data.py it calls: thirteen lists of records that refer to   *)
(* each other, to the cost centers of the year's primary cost system and   *)
(* to the addressees of the master data, which a reset of the admin API    *)
(* replaces.  The list of a client's fiscal years refers into the scopes.  *)
(*                                                                         *)
(* One action is one generator call, in the code's order.  The order       *)
(* matters: all calls draw from one seeded stream, so a value depends on   *)
(* every request made before it.  ScopedData has the threads and the races *)
(* on the caches; here one call runs at a time, and resets and restarts    *)
(* interleave with its steps.                                              *)
(*                                                                         *)
(* A record keeps its id, its references, and a drawn value for the other  *)
(* fields drawn with it.                                                   *)
(***************************************************************************)
EXTENDS Integers, Sequences, FiniteSets

CONSTANTS
  Clients,         \* client ids a path may hold
  Years,           \* years a path may name
  AddresseeCount,  \* how many addressees are generated (8)
  MaxListed,       \* bounds the addressees there ever are
  Count,           \* per list: how many records its generator makes
  Value(_, _),     \* random.Random: what a seed's stream gives at a place
  MaxRestarts,     \* bounds the restarts
  None,            \* Python's None
  Idle             \* no GET is being served

Payables == {"accounts_payable", "accounts_payable_condense"}
OpenItemLists == Payables \cup {"accounts_receivable_condense"}

RuleLists == {"posting_proposal_rules_incoming_invoices",
              "posting_proposal_rules_outgoing_invoices"}

Lists == {"cost_systems", "terms_of_payment", "general_ledger_accounts",
          "accounting_sequences_processed", "accounting_transaction_keys",
          "creditors", "debitors", "assets_stocktakings"}
           \cup OpenItemLists \cup RuleLists

\* What a generator asks for at a place in its loop.
Fields == {"content", "addressee", "sequence", "cost_center", "term", "account", "key"}

\* _seed_for: distinct keys have distinct seeds.
ScopeKeys == Clients \X Years
Seeds == {<<c>> : c \in Clients} \cup ScopeKeys \cup {<<k[1], k[2], 1>> : k \in ScopeKeys}

ASSUME CountAssumption ==
  /\ Count \in [Lists \cup {"cost_centers", "fiscal_years"} -> Nat \ {0}]
  /\ AddresseeCount \in Nat \ {0}
  /\ MaxListed \in Nat /\ AddresseeCount <= MaxListed
  /\ MaxRestarts \in Nat
  /\ Years \subseteq Nat
  /\ None \notin Nat

\* Business partners and open items are as many, four by default, and the calls
\* that generate a scope name no other number.
ASSUME PartnersAssumption ==
  /\ \A l \in Payables : Count[l] <= Count["creditors"]
  /\ Count["accounts_receivable_condense"] <= Count["debitors"]

Places == UNION {{l} \X (0..Count[l]) \X Fields : l \in DOMAIN Count}

ASSUME ValueAssumption ==
  \A seed \in Seeds, place \in Places : Value(seed, place) \in Nat

\* get_fiscal_years_for_client: the first year of a client, 2018 to 2024.
BaseYear(client) == 2018 + (Value(<<client>>, <<"fiscal_years", 0, "content">>) % 7)

ASSUME YearsAssumption ==
  \A c \in Clients, i \in 1..Count["fiscal_years"] : BaseYear(c) + i - 1 \in Years

VARIABLES
  addressees,  \* the ids of data_store._addressees, in order
  scopes,      \* _fiscal_year_scope_cache
  centers,     \* _cost_centers_cache, for the primary cost systems
  years,       \* _fiscal_years_cache
  call,        \* the GET in progress, or Idle
  fresh,       \* guids drawn so far
  restarts,    \* restarts so far
  listed,      \* how many addressee ids there have been
  generated    \* history: what was generated, for which key, from which addressees

caches == <<scopes, centers, years>>
vars == <<addressees, caches, call, fresh, restarts, listed, generated>>

Nothing == [l \in Lists |-> <<>>]

\* A cache is a dict: it has the keys that something was stored for.
Empty == [k \in {} |-> Nothing]
Cached(cache) == DOMAIN cache
Put(cache, key, value) ==
  [k \in DOMAIN cache \cup {key} |-> IF k = key THEN value ELSE cache[k]]

\* An id of digits is a string; int() makes the number of it.
Str(n) == <<"str", n>>
ToInt(id) == id[2]

\* The n-th id that uuid4() draws for an addressee: all are different.
AddresseeId(n) == <<"addressee", n>>
Known == {AddresseeId(n) : n \in 1..listed}

Init ==
  /\ listed = AddresseeCount
  /\ addressees = [i \in 1..listed |-> AddresseeId(i)]
  /\ scopes = Empty
  /\ centers = Empty
  /\ years = Empty
  /\ call = Idle
  /\ fresh = 0
  /\ restarts = 0
  /\ generated = {}

At(step) == call # Idle /\ call.at = step

Key == <<call.client, call.year>>

\* A variant: the generator falls back to the random module.
Draw_Shared(list, i, field) == fresh + i

\* What the scope's stream gives at a place of a generator.  Every call makes
\* the same requests from the same pools of fixed lengths, so the place decides.
Draw(list, i, field) == Value(Key, <<list, i, field>>)

\* rng.choice(pool)
Choice(pool, drawn) == pool[1 + (drawn % Len(pool))]

\* A generator call returns its records; the next one follows.
Make(list, records, next) ==
  /\ At(list)
  /\ call' = [call EXCEPT !.made = [@ EXCEPT ![list] = records], !.at = next]

Others == <<addressees, caches, restarts, listed, generated>>

(***************************************************************************)
(* A GET arrives                                                           *)
(***************************************************************************)

NewCall(want, client, year, records) ==
  [want |-> want, at |-> "scope", client |-> client, year |-> year, made |-> Nothing,
   read |-> <<>>, centers |-> <<>>, records |-> records, done |-> 0]

\* An accessor of a fiscal year's scope.
AskScope(c, y) ==
  /\ call = Idle
  /\ call' = NewCall("scope", c, y, <<>>)
  /\ UNCHANGED <<fresh, Others>>

\* _generate_fiscal_years: the terms of payment are placeholders; only the
\* last year has one for debitors.
FiscalYears(base) ==
  [i \in 1..Count["fiscal_years"] |->
     [id |-> base + i - 1,
      creditor_term_of_payment_id |-> 3,
      debitor_term_of_payment_id |-> IF i = Count["fiscal_years"] THEN 10 ELSE None]]

\* get_fiscal_years_for_client: the ids first, then scope by scope.
AskYears(c) ==
  /\ call = Idle
  /\ c \notin Cached(years)
  /\ call' = NewCall("years", c, BaseYear(c), FiscalYears(BaseYear(c)))
  /\ UNCHANGED <<fresh, Others>>

(***************************************************************************)
(* _get_fiscal_year_scope                                                  *)
(***************************************************************************)

HitScope ==
  /\ At("scope")
  /\ Key \in Cached(scopes)
  /\ call' = [call EXCEPT !.at = "answer", !.made = scopes[Key]]
  /\ UNCHANGED <<fresh, Others>>

\* list_addressees(), before anything is generated.
ReadAddressees ==
  /\ At("scope")
  /\ Key \notin Cached(scopes)
  /\ call' = [call EXCEPT !.at = "cost_systems", !.read = addressees]
  /\ UNCHANGED <<fresh, Others>>

GenerateCostSystems ==
  /\ Make("cost_systems",
          [i \in 1..Count["cost_systems"] |->
             [id |-> Str(i), is_activated_for_postings |-> Draw("cost_systems", i, "content")]],
          "terms_of_payment")
  /\ UNCHANGED <<fresh, Others>>

GenerateTermsOfPayment ==
  /\ Make("terms_of_payment",
          [i \in 1..Count["terms_of_payment"] |->
             [id |-> Str(9000 + i - 1), due |-> Draw("terms_of_payment", i, "content")]],
          "general_ledger_accounts")
  /\ UNCHANGED <<fresh, Others>>

GenerateGeneralLedgerAccounts ==
  /\ Make("general_ledger_accounts",
          [i \in 1..Count["general_ledger_accounts"] |->
             [account_number |-> 1000 + i - 1,
              caption |-> Draw("general_ledger_accounts", i, "content")]],
          "accounting_sequences_processed")
  /\ UNCHANGED <<fresh, Others>>

\* The record has two ids; open items name the first.
GenerateAccountingSequencesProcessed ==
  /\ Make("accounting_sequences_processed",
          [i \in 1..Count["accounting_sequences_processed"] |->
             [id |-> Str(2000 + i - 1), accounting_sequence_id |-> Str(3000 + i - 1),
              record_type |-> Draw("accounting_sequences_processed", i, "content")]],
          "accounting_transaction_keys")
  /\ UNCHANGED <<fresh, Others>>

\* A variant: nothing is generated between the keys and the debitors.
GenerateAccountingTransactionKeys_NoCreditors ==
  /\ Make("accounting_transaction_keys",
          [i \in 1..Count["accounting_transaction_keys"] |->
             [id |-> Str(4000 + i - 1), number |-> i * 100,
              tax_rate |-> Draw("accounting_transaction_keys", i, "content")]],
          "debitors")
  /\ UNCHANGED <<fresh, Others>>

\* Rules name a key by its number, not by its id.
GenerateAccountingTransactionKeys ==
  /\ Make("accounting_transaction_keys",
          [i \in 1..Count["accounting_transaction_keys"] |->
             [id |-> Str(4000 + i - 1), number |-> i * 100,
              tax_rate |-> Draw("accounting_transaction_keys", i, "content")]],
          "creditors")
  /\ UNCHANGED <<fresh, Others>>

\* A variant: the partners are numbered from one.
Partner_FromOne(list, base, i) ==
  [account_number |-> base + i,
   addressee_id |-> Choice(call.read, Draw(list, i, "addressee")),
   expanded |-> Draw(list, i, "content"),
   unseeded |-> fresh + i]

\* A business partner: expanded stands for the nested records, which have the
\* stream's content but, like the date of last modification, guids that do not
\* come from it: unseeded.
Partner(list, base, i) ==
  [account_number |-> base + i - 1,
   addressee_id |-> Choice(call.read, Draw(list, i, "addressee")),
   expanded |-> Draw(list, i, "content"),
   unseeded |-> fresh + i]

GenerateCreditors ==
  /\ Make("creditors",
          [i \in 1..Count["creditors"] |-> Partner("creditors", 70000, i)], "debitors")
  /\ fresh' = fresh + Count["creditors"]
  /\ UNCHANGED Others

GenerateDebitors ==
  /\ Make("debitors",
          [i \in 1..Count["debitors"] |-> Partner("debitors", 10000, i)], "centers")
  /\ fresh' = fresh + Count["debitors"]
  /\ UNCHANGED Others

\* _generate_cost_centers, from a stream of its own.
CostCenters(key, system) ==
  [i \in 1..Count["cost_centers"] |->
     [id |-> <<"KST", i>>,
      responsible |-> Value(<<key[1], key[2], system>>, <<"cost_centers", i, "content">>)]]

\* _get_cost_centers of the primary cost system, the first one generated:
\* cached or generated.
GetCostCenters ==
  /\ At("centers")
  /\ LET primary == ToInt(call.made["cost_systems"][1].id)
         records == IF Key \in Cached(centers) THEN centers[Key] ELSE CostCenters(Key, primary)
     IN  /\ centers' = Put(centers, Key, records)
         /\ call' = [call EXCEPT !.centers = records, !.at = "accounts_payable"]
  /\ UNCHANGED <<addressees, scopes, years, fresh, restarts, listed, generated>>

Ids(records) == [i \in DOMAIN records |-> records[i].id]
Numbers(records) == [i \in DOMAIN records |-> ToInt(records[i].id)]

\* A variant: the items name a sequence by the other of its two ids.
OpenItem_OtherId(list, base, i) ==
  LET drawn(field) == Draw(list, i, field)
      sequences == call.made["accounting_sequences_processed"]
  IN  [account_number |-> base + i - 1,
       accounting_sequence_id |->
         Choice([j \in DOMAIN sequences |-> sequences[j].accounting_sequence_id],
                drawn("sequence")),
       kost1_cost_center_id |->
         IF i = Count[list] THEN None ELSE Choice(Ids(call.centers), drawn("cost_center")),
       term_of_payment_id |->
         IF i % 2 = 1 THEN Choice(Numbers(call.made["terms_of_payment"]), drawn("term"))
         ELSE None,
       unseeded |-> fresh + i]

\* An open item of _generate_open_items: the last has no cost center, every
\* second no term of payment.  Its partner follows from its place in the list.
OpenItem(list, base, i) ==
  LET drawn(field) == Draw(list, i, field)
  IN  [account_number |-> base + i - 1,
       accounting_sequence_id |->
         Choice(Ids(call.made["accounting_sequences_processed"]), drawn("sequence")),
       kost1_cost_center_id |->
         IF i = Count[list] THEN None ELSE Choice(Ids(call.centers), drawn("cost_center")),
       term_of_payment_id |->
         IF i % 2 = 1 THEN Choice(Numbers(call.made["terms_of_payment"]), drawn("term"))
         ELSE None,
       unseeded |-> fresh + i]

GenerateOpenItems(list, base, next) ==
  /\ Make(list, [i \in 1..Count[list] |-> OpenItem(list, base, i)], next)
  /\ fresh' = fresh + Count[list]
  /\ UNCHANGED Others

\* Every second one lies on an account: its number and caption are of one record.
GenerateAssetStocktakings ==
  /\ Make("assets_stocktakings",
          [i \in 1..Count["assets_stocktakings"] |->
             [id |-> Str(5000 + i - 1),
              general_ledger_account |->
                IF i % 2 = 1
                THEN Choice(call.made["general_ledger_accounts"],
                            Draw("assets_stocktakings", i, "account"))
                ELSE None]],
          "posting_proposal_rules_incoming_invoices")
  /\ UNCHANGED <<fresh, Others>>

\* _generate_posting_proposal_rules draws a key and an account per rule.
GeneratePostingProposalRules(list, base, next) ==
  /\ Make(list,
          [i \in 1..Count[list] |->
             [id |-> Str(base + i - 1),
              accounting_transaction_key |->
                Choice(call.made["accounting_transaction_keys"], Draw(list, i, "key")).number,
              account_number |->
                Choice(call.made["general_ledger_accounts"],
                       Draw(list, i, "account")).account_number]],
          next)
  /\ UNCHANGED <<fresh, Others>>

\* The scope is complete, cached and returned.
StoreScope ==
  /\ At("store")
  /\ scopes' = Put(scopes, Key, call.made)
  /\ generated' = generated \cup {[key |-> Key, read |-> call.read, content |-> call.made]}
  /\ call' = [call EXCEPT !.at = "answer"]
  /\ UNCHANGED <<addressees, centers, years, fresh, restarts, listed>>

(***************************************************************************)
(* The scope is returned: to the handler, which answers, or to the loop    *)
(* over the fiscal years                                                   *)
(***************************************************************************)

AnswerScope ==
  /\ At("answer")
  /\ call.want = "scope"
  /\ call' = Idle
  /\ UNCHANGED <<fresh, Others>>

\* The client's stream, which drew the base year, draws the terms of payment.
DrawTerm(i, field) ==
  Choice(Numbers(call.made["terms_of_payment"]),
         Value(<<call.client>>, <<"fiscal_years", i, field>>))

\* A variant: a debitor term for every year.
Backfilled_All(i) ==
  [call.records[i] EXCEPT !.creditor_term_of_payment_id = DrawTerm(i, "term"),
                          !.debitor_term_of_payment_id = DrawTerm(i, "content")]

\* The terms of payment of a year are drawn from its own scope.
Backfilled(i) ==
  [call.records[i] EXCEPT
     !.creditor_term_of_payment_id = DrawTerm(i, "term"),
     !.debitor_term_of_payment_id = IF @ = None THEN None ELSE DrawTerm(i, "content")]

BackfillYear ==
  /\ At("answer")
  /\ call.want = "years"
  /\ LET i == call.done + 1
     IN  call' = [call EXCEPT !.records = [@ EXCEPT ![i] = Backfilled(i)],
                              !.done = i,
                              !.at = IF i = Count["fiscal_years"] THEN "years" ELSE "next"]
  /\ UNCHANGED <<fresh, Others>>

\* _get_fiscal_year_scope is called for the next year of the list.
NextYear ==
  /\ At("next")
  /\ call' = [NewCall("years", call.client, call.records[call.done + 1].id, call.records)
                EXCEPT !.done = call.done]
  /\ UNCHANGED <<fresh, Others>>

StoreYears ==
  /\ At("years")
  /\ years' = Put(years, call.client, call.records)
  /\ generated' = generated \cup
       {[key |-> <<call.client>>, read |-> <<>>, content |-> call.records]}
  /\ call' = Idle
  /\ UNCHANGED <<addressees, scopes, centers, fresh, restarts, listed>>

(***************************************************************************)
(* A reset replaces the addressees and keeps the caches; a restart loses   *)
(* the caches too                                                          *)
(***************************************************************************)

\* reset() and the import of the module generate addressees, under new ids.
NewAddressees ==
  /\ listed + AddresseeCount <= MaxListed
  /\ addressees' = [i \in 1..AddresseeCount |-> AddresseeId(listed + i)]
  /\ listed' = listed + AddresseeCount

Reset ==
  /\ NewAddressees
  /\ UNCHANGED <<caches, call, fresh, restarts, generated>>

Restart ==
  /\ restarts < MaxRestarts
  /\ restarts' = restarts + 1
  /\ NewAddressees
  /\ scopes' = Empty
  /\ centers' = Empty
  /\ years' = Empty
  /\ call' = Idle
  /\ UNCHANGED <<fresh, generated>>

Next ==
  \/ \E c \in Clients, y \in Years : AskScope(c, y)
  \/ \E c \in Clients : AskYears(c)
  \/ HitScope
  \/ ReadAddressees
  \/ GenerateCostSystems
  \/ GenerateTermsOfPayment
  \/ GenerateGeneralLedgerAccounts
  \/ GenerateAccountingSequencesProcessed
  \/ GenerateAccountingTransactionKeys
  \/ GenerateCreditors
  \/ GenerateDebitors
  \/ GetCostCenters
  \/ GenerateOpenItems("accounts_payable", 70000, "accounts_payable_condense")
  \/ GenerateOpenItems("accounts_payable_condense", 70000, "accounts_receivable_condense")
  \/ GenerateOpenItems("accounts_receivable_condense", 10000, "assets_stocktakings")
  \/ GenerateAssetStocktakings
  \/ GeneratePostingProposalRules("posting_proposal_rules_incoming_invoices", 7000,
                                  "posting_proposal_rules_outgoing_invoices")
  \/ GeneratePostingProposalRules("posting_proposal_rules_outgoing_invoices", 8000, "store")
  \/ StoreScope
  \/ AnswerScope
  \/ BackfillYear
  \/ NextYear
  \/ StoreYears
  \/ Reset
  \/ Restart

Spec == Init /\ [][Next]_vars

(***************************************************************************)
(* Properties                                                              *)
(***************************************************************************)

Steps == Lists \cup {"scope", "centers", "store", "answer", "next", "years"}

\* A list is empty until its generator ran, and complete afterwards.
Generated(made) == \A l \in Lists : DOMAIN made[l] \in {{}, 1..Count[l]}

TypeOK ==
  /\ addressees \in Seq(Known)
  /\ Len(addressees) = AddresseeCount
  /\ Cached(scopes) \subseteq Cached(centers)
  /\ Cached(centers) \subseteq ScopeKeys
  /\ Cached(years) \subseteq Clients
  /\ \A k \in Cached(scopes) :
       DOMAIN scopes[k] = Lists /\ \A l \in Lists : DOMAIN scopes[k][l] = 1..Count[l]
  /\ \A k \in Cached(centers) : centers[k] = CostCenters(k, 1)
  /\ call # Idle =>
       /\ call.want \in {"scope", "years"}
       /\ call.at \in Steps
       /\ call.client \in Clients
       /\ call.year \in Years
       /\ DOMAIN call.made = Lists /\ Generated(call.made)
       /\ call.read \in Seq(Known)
       /\ call.done \in 0..Count["fiscal_years"]
  /\ fresh \in Nat
  /\ restarts \in 0..MaxRestarts
  /\ listed \in 0..MaxListed

Elements(records) == {records[i] : i \in DOMAIN records}

PartnersKnown(made) ==
  \A l \in {"creditors", "debitors"} : \A r \in Elements(made[l]) :
    r.addressee_id \in Known

TermsOf(made) == {ToInt(r.id) : r \in Elements(made["terms_of_payment"])}

ItemsRefer(made, primary) ==
  \A l \in OpenItemLists : \A r \in Elements(made[l]) :
    /\ r.accounting_sequence_id \in
         {s.id : s \in Elements(made["accounting_sequences_processed"])}
    /\ r.kost1_cost_center_id \in {c.id : c \in Elements(primary)} \cup {None}
    /\ r.term_of_payment_id \in TermsOf(made) \cup {None}

StocktakingsRefer(made) ==
  \A r \in Elements(made["assets_stocktakings"]) :
    r.general_ledger_account \in Elements(made["general_ledger_accounts"]) \cup {None}

RulesRefer(made) ==
  \A l \in RuleLists : \A r \in Elements(made[l]) :
    /\ r.accounting_transaction_key \in
         {k.number : k \in Elements(made["accounting_transaction_keys"])}
    /\ r.account_number \in
         {a.account_number : a \in Elements(made["general_ledger_accounts"])}

\* The references of a scope's records.
Consistent(made, primary) ==
  /\ PartnersKnown(made)
  /\ ItemsRefer(made, primary)
  /\ StocktakingsRefer(made)
  /\ RulesRefer(made)

\* However resets fall between the steps that generate a scope, its records refer to
\* records of the same scope, to cost centers of its primary cost system as
\* they are answered, and to addressees that were listed: what scoped_data.py
\* promises as "real, drawn-not-reinvented cross-references".
ReferencesInScope ==
  \A k \in Cached(scopes) : k \in Cached(centers) /\ Consistent(scopes[k], centers[k])

\* A fiscal year names terms of payment of its own scope, and only the last
\* one of a client has a term for debitors.
YearsReferToTheirTerms ==
  \A c \in Cached(years) : \A i \in 1..Count["fiscal_years"] :
    LET record == years[c][i]
        scope == scopes[<<c, record.id>>]
    IN  /\ <<c, record.id>> \in Cached(scopes)
        /\ record.creditor_term_of_payment_id \in TermsOf(scope)
        /\ record.debitor_term_of_payment_id \in
             IF i = Count["fiscal_years"] THEN TermsOf(scope) ELSE {None}

\* Payables are owed to creditors of the scope, receivables by its debitors:
\* nothing but two loops over the same numbers relates them.
ItemsHavePartners ==
  \A k \in Cached(scopes) :
    LET numbers(l) == {r.account_number : r \in Elements(scopes[k][l])}
    IN  /\ \A l \in Payables : numbers(l) \subseteq numbers("creditors")
        /\ numbers("accounts_receivable_condense") \subseteq numbers("debitors")

\* What of a record comes from the seed.
Seeded(records) ==
  [i \in DOMAIN records |->
     [f \in DOMAIN records[i] \ {"unseeded", "addressee_id"} |-> records[i][f]]]

\* Partners name the addressees at the same places of two lists.
SamePlaces(g, h, l) ==
  \A i \in DOMAIN g.content[l] : \E j \in DOMAIN g.read :
    /\ g.read[j] = g.content[l][i].addressee_id
    /\ h.read[j] = h.content[l][i].addressee_id

\* A key that is generated again, after a restart, has the same content but for
\* guids and dates, also when the list of fiscal years made its scope the first
\* time and a GET of the scope the second.
RegeneratedAlike ==
  \A g, h \in generated : g.key = h.key =>
    IF g.key \in ScopeKeys
    THEN /\ \A l \in Lists : Seeded(g.content[l]) = Seeded(h.content[l])
         /\ \A l \in {"creditors", "debitors"} : SamePlaces(g, h, l)
    ELSE g.content = h.content
=============================================================================
