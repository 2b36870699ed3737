----------------------------- MODULE ScopedData -----------------------------
(***************************************************************************)
(* app/scoped_data.py: the three caches of generated accounting data, one  *)
(* per client, per fiscal year and per cost system, filled on first use.   *)
(*                                                                         *)
(* The GET handlers run on the threads of a pool and no cache has a lock:  *)
(* a thread looks a key up, generates on a miss and stores what it made,   *)
(* and other threads run between any two of these.  The caches nest: the   *)
(* list of fiscal years asks for every year's scope, a scope for the cost  *)
(* centers of its primary cost system.                                     *)
(*                                                                         *)
(* Generated content is the seed it was drawn from, where it depends on    *)
(* nothing else.  What depends on more is a field: the addressee a         *)
(* creditor names, the cost centers an open item names, and the guids that *)
(* uuid4() draws with no regard to the seed.                               *)
(*                                                                         *)
(* Everything here is memory: a restart is Init, with other addressees.    *)
(***************************************************************************)
EXTENDS Integers, FiniteSets, Sequences

CONSTANTS
  Threads,       \* threads that may serve a GET
  Clients,       \* client ids a path may hold: any id is accepted
  Years,         \* fiscal-year ids a path may hold
  Systems,       \* cost-system ids a path may hold
  YearList,      \* the fiscal years generated for a client, in order
  PrimarySystem, \* the id of the first generated cost system
  AddresseeIds,  \* the ids uuid4() may draw for addressees (bounds the resets)
  Guids,         \* the guids a scope may be generated with
  Absent,        \* marks a key that is not cached
  Idle           \* marks a thread that serves no GET

ClientKeys == {<<c>> : c \in Clients}
ScopeKeys == Clients \X Years
CenterKeys == Clients \X Years \X Systems

\* _seed_for: a digest of the key, so distinct keys have distinct seeds.
SeedFor(key) == key

ASSUME GenerationAssumption ==
  /\ YearList \in Seq(Years) \ {<<>>}
  /\ PrimarySystem \in Systems
  /\ AddresseeIds # {}

VARIABLES
  addressees,   \* the ids of data_store._addressees
  unused,       \* the ids uuid4() has not drawn for an addressee
  yearsCache,   \* _fiscal_years_cache
  scopeCache,   \* _fiscal_year_scope_cache
  centersCache, \* _cost_centers_cache
  thread,       \* per thread: the call in progress, or Idle
  dropped,      \* history: the addressees a reset removed
  first,        \* history: the first scope each key was answered with
  differed,     \* history: the keys later answered with another scope
  raced         \* history: the keys two threads generated at the same time

caches == <<yearsCache, scopeCache, centersCache>>
histories == <<dropped, first, differed, raced>>
vars == <<addressees, unused, caches, thread, histories>>

\* A list of cost centers: id and content are functions of the seed.
Centers == CenterKeys

\* _FiscalYearScope: the seeded lists, and what else its records depend on.
Scopes ==
  [seed : ScopeKeys, addressee : AddresseeIds, centers : Centers, guid : Guids]

\* The list of fiscal years: per year, the terms of payment it names.
YearLists == [1..Len(YearList) -> ScopeKeys]

Steps == {"years", "scope", "addressees", "centers", "fillCenters", "store"}

\* A call: what its handler asked for, the key it works on, the years of the
\* list still to do, and the values it holds in local variables.
Calls ==
  [want : {"years", "scope", "centers"}, at : Steps,
   client : Clients, year : Years, system : Systems,
   terms : UNION {[1..n -> ScopeKeys] : n \in 0..Len(YearList)},
   read : SUBSET AddresseeIds, centers : Centers \cup {Absent}]

\* The markers are no values, and uuid4() has a guid left that no scope has: one
\* scope of a key may be cached and another be the first it was answered with.
ASSUME MarkerAssumption ==
  Absent \notin Scopes \cup Centers \cup YearLists /\ Idle \notin Calls

ASSUME GuidAssumption ==
  Guids # {} /\ \A f, g \in [ScopeKeys -> Guids] :
                  \E guid \in Guids : \A k \in ScopeKeys : guid \notin {f[k], g[k]}

TypeOK ==
  /\ addressees \in (SUBSET AddresseeIds) \ {{}}
  /\ unused \subseteq AddresseeIds
  /\ yearsCache \in [ClientKeys -> YearLists \cup {Absent}]
  /\ scopeCache \in [ScopeKeys -> Scopes \cup {Absent}]
  /\ centersCache \in [CenterKeys -> Centers \cup {Absent}]
  /\ thread \in [Threads -> Calls \cup {Idle}]
  /\ dropped \subseteq AddresseeIds
  /\ first \in [ScopeKeys -> Scopes \cup {Absent}]
  /\ differed \cup raced \subseteq ScopeKeys

Init ==
  /\ addressees \in (SUBSET AddresseeIds) \ {{}}
  /\ unused = AddresseeIds \ addressees
  /\ yearsCache = [k \in ClientKeys |-> Absent]
  /\ scopeCache = [k \in ScopeKeys |-> Absent]
  /\ centersCache = [k \in CenterKeys |-> Absent]
  /\ thread = [t \in Threads |-> Idle]
  /\ dropped = {}
  /\ first = [k \in ScopeKeys |-> Absent]
  /\ differed = {}
  /\ raced = {}

At(t, step) == thread[t] # Idle /\ thread[t].at = step

ScopeKey(t) == <<thread[t].client, thread[t].year>>
CenterKey(t) == <<thread[t].client, thread[t].year, thread[t].system>>

\* Between its miss and its store a thread generates the scope of its key.
Generating(t, key) ==
  /\ thread[t] # Idle
  /\ thread[t].want # "centers"
  /\ thread[t].at \in {"addressees", "centers", "fillCenters", "store"}
  /\ ScopeKey(t) = key

Goto(t, step) == thread' = [thread EXCEPT ![t].at = step]
Answered(t) == thread' = [thread EXCEPT ![t] = Idle]

(***************************************************************************)
(* A GET arrives                                                           *)
(***************************************************************************)

\* One of the accessors of a fiscal year's scope, or get_cost_centers_for_scope.
AskScope(t, want, c, y, s) ==
  /\ thread[t] = Idle
  /\ want \in {"scope", "centers"}
  /\ want = "scope" => s = PrimarySystem
  /\ thread' = [thread EXCEPT ![t] =
       [want |-> want, at |-> want, client |-> c, year |-> y, system |-> s,
        terms |-> <<>>, read |-> {}, centers |-> Absent]]
  /\ UNCHANGED <<addressees, unused, caches, histories>>

\* get_fiscal_years_for_client, which misses: it generates the list, and starts
\* on its first year.  A hit answers at once and changes nothing.
AskYears(t, c) ==
  /\ thread[t] = Idle
  /\ yearsCache[<<c>>] = Absent
  /\ thread' = [thread EXCEPT ![t] =
       [want |-> "years", at |-> "scope", client |-> c, year |-> Head(YearList),
        system |-> PrimarySystem, terms |-> <<>>, read |-> {}, centers |-> Absent]]
  /\ UNCHANGED <<addressees, unused, caches, histories>>

(***************************************************************************)
(* _get_fiscal_year_scope                                                  *)
(***************************************************************************)

\* The call returns scope: to the handler, which answers with it, or to the
\* loop over the fiscal years, which takes the terms of payment from it.
ReturnScope(t, scope) ==
  LET key == ScopeKey(t)
      terms == Append(thread[t].terms, scope.seed)
  IN  IF thread[t].want = "scope"
      THEN /\ Answered(t)
           /\ first' = IF first[key] = Absent THEN [first EXCEPT ![key] = scope] ELSE first
           /\ differed' = IF first[key] \in {Absent, scope} THEN differed
                          ELSE differed \cup {key}
      ELSE /\ thread' = [thread EXCEPT
                ![t].terms = terms,
                ![t].at = IF Len(terms) = Len(YearList) THEN "years" ELSE "scope",
                ![t].year = IF Len(terms) = Len(YearList) THEN @ ELSE YearList[Len(terms) + 1],
                ![t].read = {},
                ![t].centers = Absent]
           /\ UNCHANGED <<first, differed>>

HitScope(t) ==
  /\ At(t, "scope")
  /\ scopeCache[ScopeKey(t)] # Absent
  /\ ReturnScope(t, scopeCache[ScopeKey(t)])
  /\ UNCHANGED <<addressees, unused, caches, dropped, raced>>

\* A variant: the cache is never looked at.
MissScope_Always(t) ==
  /\ At(t, "scope")
  /\ Goto(t, "addressees")
  /\ raced' = IF \E u \in Threads : Generating(u, ScopeKey(t))
              THEN raced \cup {ScopeKey(t)} ELSE raced
  /\ UNCHANGED <<addressees, unused, caches, dropped, first, differed>>

MissScope(t) ==
  /\ At(t, "scope")
  /\ scopeCache[ScopeKey(t)] = Absent
  /\ Goto(t, "addressees")
  /\ raced' = IF \E u \in Threads : Generating(u, ScopeKey(t))
              THEN raced \cup {ScopeKey(t)} ELSE raced
  /\ UNCHANGED <<addressees, unused, caches, dropped, first, differed>>

\* list_addressees(): the ids the creditors and debitors will be drawn from.
ReadAddressees(t) ==
  /\ At(t, "addressees")
  /\ thread' = [thread EXCEPT ![t].at = "centers", ![t].read = addressees]
  /\ UNCHANGED <<addressees, unused, caches, histories>>

\* The guids somebody could still compare with a new one.
GuidsInUse ==
  {scopeCache[k].guid : k \in {j \in ScopeKeys : scopeCache[j] # Absent}}
    \cup {first[k].guid : k \in {j \in ScopeKeys : first[j] # Absent}}

\* uuid4() draws guids nobody has; which ones makes no difference.
FreshGuid == CHOOSE g \in Guids : g \notin GuidsInUse

\* Variants: the cost centers are forgotten; the addressee is any id.
StoreScope_NoCenters(t) ==
  /\ At(t, "store")
  /\ \E a \in thread[t].read :
       LET scope == [seed |-> SeedFor(ScopeKey(t)), addressee |-> a,
                     centers |-> Absent, guid |-> FreshGuid]
       IN  /\ scopeCache' = [scopeCache EXCEPT ![ScopeKey(t)] = scope]
           /\ ReturnScope(t, scope)
  /\ UNCHANGED <<addressees, unused, yearsCache, centersCache, dropped, raced>>

StoreScope_AnyAddressee(t) ==
  /\ At(t, "store")
  /\ \E a \in AddresseeIds :
       LET scope == [seed |-> SeedFor(ScopeKey(t)), addressee |-> a,
                     centers |-> thread[t].centers, guid |-> FreshGuid]
       IN  /\ scopeCache' = [scopeCache EXCEPT ![ScopeKey(t)] = scope]
           /\ ReturnScope(t, scope)
  /\ UNCHANGED <<addressees, unused, yearsCache, centersCache, dropped, raced>>

\* The scope is complete and replaces whatever another thread stored meanwhile.
StoreScope(t) ==
  /\ At(t, "store")
  /\ \E a \in thread[t].read :
       LET scope == [seed |-> SeedFor(ScopeKey(t)), addressee |-> a,
                     centers |-> thread[t].centers, guid |-> FreshGuid]
       IN  /\ scopeCache' = [scopeCache EXCEPT ![ScopeKey(t)] = scope]
           /\ ReturnScope(t, scope)
  /\ UNCHANGED <<addressees, unused, yearsCache, centersCache, dropped, raced>>

(***************************************************************************)
(* _get_cost_centers                                                       *)
(***************************************************************************)

ReturnCenters(t, centers) ==
  IF thread[t].want = "centers" THEN Answered(t)
  ELSE thread' = [thread EXCEPT ![t].at = "store", ![t].centers = centers]

HitCenters(t) ==
  /\ At(t, "centers")
  /\ centersCache[CenterKey(t)] # Absent
  /\ ReturnCenters(t, centersCache[CenterKey(t)])
  /\ UNCHANGED <<addressees, unused, caches, histories>>

MissCenters(t) ==
  /\ At(t, "centers")
  /\ centersCache[CenterKey(t)] = Absent
  /\ Goto(t, "fillCenters")
  /\ UNCHANGED <<addressees, unused, caches, histories>>

\* A variant: content that is not a function of the key.
GeneratedCenters_Random(key) == CHOOSE k \in CenterKeys : k # centersCache[key]

GeneratedCenters(key) == SeedFor(key)

FillCenters(t) ==
  /\ At(t, "fillCenters")
  /\ LET centers == GeneratedCenters(CenterKey(t))
     IN  /\ centersCache' = [centersCache EXCEPT ![CenterKey(t)] = centers]
         /\ ReturnCenters(t, centers)
  /\ UNCHANGED <<addressees, unused, yearsCache, scopeCache, histories>>

\* Every year's terms are backfilled: the list is stored and answered.
StoreYears(t) ==
  /\ At(t, "years")
  /\ yearsCache' = [yearsCache EXCEPT ![<<thread[t].client>>] = thread[t].terms]
  /\ Answered(t)
  /\ UNCHANGED <<addressees, unused, scopeCache, centersCache, histories>>

\* data_store.reset() replaces the addressees; no cache is told.
Reset ==
  /\ \E ids \in (SUBSET unused) \ {{}} :
       /\ addressees' = ids
       /\ unused' = unused \ ids
  /\ dropped' = dropped \cup addressees
  /\ UNCHANGED <<caches, thread, first, differed, raced>>

Next ==
  \/ \E t \in Threads :
       \/ \E want \in {"scope", "centers"}, c \in Clients, y \in Years, s \in Systems :
            AskScope(t, want, c, y, s)
       \/ \E c \in Clients : AskYears(t, c)
       \/ HitScope(t)
       \/ MissScope(t)
       \/ ReadAddressees(t)
       \/ StoreScope(t)
       \/ HitCenters(t)
       \/ MissCenters(t)
       \/ FillCenters(t)
       \/ StoreYears(t)
  \/ Reset

Spec == Init /\ [][Next]_vars

(***************************************************************************)
(* Properties                                                              *)
(***************************************************************************)

\* However the three caches are filled and overwritten, what they hold agrees:
\* the open items of a cached scope name cost centers that its primary system
\* is answered with, and a fiscal year names terms of payment of its own scope.
CachesAgree ==
  /\ \A k \in ScopeKeys : scopeCache[k] # Absent =>
       scopeCache[k].centers = centersCache[<<k[1], k[2], PrimarySystem>>]
  /\ \A c \in Clients : yearsCache[<<c>>] # Absent =>
       \A i \in 1..Len(YearList) :
         LET scope == scopeCache[<<c, YearList[i]>>]
         IN  scope # Absent /\ scope.seed = yearsCache[<<c>>][i]

\* A creditor of a cached scope names an addressee that is listed, or was until
\* a reset: also when the reset came while the scope was being generated.
AddresseesKnown ==
  \A k \in ScopeKeys : scopeCache[k] # Absent =>
    scopeCache[k].addressee \in addressees \cup dropped

\* A scope that never two threads generated at once is answered with the same
\* content every time, through any of its accessors.
UncontestedScope == differed \subseteq raced
=============================================================================
