-------------------------- MODULE ScopedDataProofs --------------------------
(***************************************************************************)
(* Theorems about the caches of generated data, for any number of threads, *)
(* clients, fiscal years and resets.                                       *)
(***************************************************************************)
EXTENDS ScopedData, SequenceTheorems, TLAPS

PrimaryCenters(key) == <<key[1], key[2], PrimarySystem>>

\* The centers of a key, once cached, are those of its seed.
CentersSound == \A k \in CenterKeys : centersCache[k] \in {Absent, k}

\* A cached scope has its own seed, and names cost centers that are cached.
ScopesSound ==
  \A k \in ScopeKeys : scopeCache[k] # Absent =>
    /\ scopeCache[k].seed = k
    /\ scopeCache[k].centers = PrimaryCenters(k)
    /\ centersCache[PrimaryCenters(k)] = PrimaryCenters(k)

\* A list of terms names the scopes of the years it covers, which are all cached.
TermsSound(client, terms, scopes) ==
  \A i \in 1..Len(terms) :
    terms[i] = <<client, YearList[i]>> /\ scopes[<<client, YearList[i]>>] # Absent

YearsSound ==
  \A c \in Clients : yearsCache[<<c>>] # Absent => TermsSound(c, yearsCache[<<c>>], scopeCache)

\* What a call holds in local variables is what it may hold where it is, given the
\* two caches it read and the addressees there were.
CallSound(call, scopes, centers, known) ==
  /\ call.want = "centers" => call.at \in {"centers", "fillCenters"}
  /\ call.want # "centers" => call.system = PrimarySystem
  /\ call.want = "scope" => call.at # "years"
  /\ call.want = "years" /\ call.at # "years" =>
       /\ Len(call.terms) < Len(YearList)
       /\ call.year = YearList[Len(call.terms) + 1]
  /\ call.at = "years" => Len(call.terms) = Len(YearList)
  /\ TermsSound(call.client, call.terms, scopes)
  /\ call.at = "store" =>
       /\ call.centers = <<call.client, call.year, call.system>>
       /\ centers[call.centers] = call.centers
  /\ call.read \subseteq known

CallsSound ==
  \A t \in Threads : thread[t] # Idle =>
    CallSound(thread[t], scopeCache, centersCache, addressees \cup dropped)

\* Generating(t, key), of the call rather than of the thread.
Generates(call, key) ==
  /\ call # Idle
  /\ call.want # "centers"
  /\ call.at \in {"addressees", "centers", "fillCenters", "store"}
  /\ <<call.client, call.year>> = key

\* A key never two threads generated at once: whoever generates it is alone and it
\* is not cached yet, and whatever it was first answered with is what is cached.
SoleGenerator(key) ==
  /\ \A t, u \in Threads : Generates(thread[t], key) /\ Generates(thread[u], key) => t = u
  /\ \A t \in Threads : Generates(thread[t], key) => scopeCache[key] = Absent
  /\ first[key] # Absent => scopeCache[key] = first[key]

Uncontested ==
  UncontestedScope /\ \A k \in ScopeKeys \ raced : SoleGenerator(k)

ScopedInv ==
  /\ TypeOK
  /\ CentersSound /\ ScopesSound /\ YearsSound
  /\ CallsSound
  /\ AddresseesKnown
  /\ Uncontested
-----------------------------------------------------------------------------
LEMMA YearListFacts ==
  /\ YearList \in Seq(Years) /\ Len(YearList) \in Nat \ {0}
  /\ \A i \in 1..Len(YearList) : YearList[i] \in Years
  /\ Head(YearList) = YearList[1]
<1>1. YearList \in Seq(Years) /\ YearList # <<>>
  BY GenerationAssumption
<1> QED
  BY <1>1, EmptySeq, ElementOfSeq

\* The lists of terms a call may hold are the sequences no longer than the years.
LEMMA TermLists ==
  ASSUME NEW terms
  PROVE  terms \in UNION {[1..n -> ScopeKeys] : n \in 0..Len(YearList)}
           <=> terms \in Seq(ScopeKeys) /\ Len(terms) <= Len(YearList)
<1>1. ASSUME NEW n \in 0..Len(YearList), terms \in [1..n -> ScopeKeys]
      PROVE  terms \in Seq(ScopeKeys) /\ Len(terms) <= Len(YearList)
  BY <1>1, YearListFacts
<1>2. ASSUME terms \in Seq(ScopeKeys), Len(terms) <= Len(YearList)
      PROVE  \E n \in 0..Len(YearList) : terms \in [1..n -> ScopeKeys]
  <2>1. Len(terms) \in Nat /\ terms \in [1..Len(terms) -> ScopeKeys]
    BY <1>2, LenProperties
  <2>2. Len(terms) \in 0..Len(YearList)
    BY <1>2, <2>1, YearListFacts
  <2> QED
    BY <2>1, <2>2
<1> QED
  BY <1>1, <1>2

\* The fields of a call, and the keys it works on.
LEMMA CallTyped ==
  ASSUME NEW call \in Calls
  PROVE  /\ call.want \in {"years", "scope", "centers"} /\ call.at \in Steps
         /\ call.client \in Clients /\ call.year \in Years /\ call.system \in Systems
         /\ call.terms \in Seq(ScopeKeys) /\ Len(call.terms) <= Len(YearList)
         /\ Len(call.terms) \in Nat
         /\ call.read \subseteq AddresseeIds /\ call.centers \in Centers \cup {Absent}
         /\ <<call.client, call.year>> \in ScopeKeys
         /\ <<call.client, call.year, call.system>> \in CenterKeys
         /\ call # Idle
<1>1. /\ call.want \in {"years", "scope", "centers"} /\ call.at \in Steps
      /\ call.client \in Clients /\ call.year \in Years /\ call.system \in Systems
      /\ call.terms \in UNION {[1..n -> ScopeKeys] : n \in 0..Len(YearList)}
      /\ call.read \subseteq AddresseeIds /\ call.centers \in Centers \cup {Absent}
  BY DEF Calls
<1>2. call.terms \in Seq(ScopeKeys) /\ Len(call.terms) <= Len(YearList)
  BY <1>1, TermLists
<1>3. Len(call.terms) \in Nat
  BY <1>2, LenProperties
<1>4. call # Idle
  BY MarkerAssumption
<1> QED
  BY <1>1, <1>2, <1>3, <1>4 DEF ScopeKeys, CenterKeys

\* A call that goes to another step keeps the rest.
LEMMA CallMoved ==
  ASSUME TypeOK, NEW t \in Threads, thread[t] # Idle, NEW a \in Steps, Goto(t, a)
  PROVE  LET r == [thread[t] EXCEPT !.at = a]
         IN  /\ thread[t] \in Calls /\ r \in Calls /\ thread' = [thread EXCEPT ![t] = r]
             /\ r.at = a /\ r.want = thread[t].want /\ r.client = thread[t].client
             /\ r.year = thread[t].year /\ r.system = thread[t].system
             /\ r.terms = thread[t].terms /\ r.read = thread[t].read
             /\ r.centers = thread[t].centers
<1>1. thread[t] \in Calls /\ thread \in [Threads -> Calls \cup {Idle}]
  BY DEF TypeOK
<1>2. thread' = [thread EXCEPT ![t] = [thread[t] EXCEPT !.at = a]]
  BY <1>1 DEF Goto
<1> QED
  BY <1>1, <1>2 DEF Calls
-----------------------------------------------------------------------------
\* What the caches hold stays, and addressees stay known.
Growing ==
  /\ \A k \in ScopeKeys : scopeCache[k] # Absent => scopeCache'[k] # Absent
  /\ \A k \in CenterKeys : centersCache[k] = k => centersCache'[k] = k
  /\ addressees \cup dropped \subseteq addressees' \cup dropped'

\* Terms stay sound as scopes are added.
LEMMA TermsStay ==
  ASSUME Growing, NEW c \in Clients, NEW terms, Len(terms) \in Nat,
         Len(terms) <= Len(YearList), TermsSound(c, terms, scopeCache)
  PROVE  TermsSound(c, terms, scopeCache')
<1> SUFFICES ASSUME NEW i \in 1..Len(terms)
             PROVE  terms[i] = <<c, YearList[i]>> /\ scopeCache'[<<c, YearList[i]>>] # Absent
  BY DEF TermsSound
<1>1. terms[i] = <<c, YearList[i]>> /\ scopeCache[<<c, YearList[i]>>] # Absent
  BY DEF TermsSound
<1>2. i \in 1..Len(YearList)
  BY YearListFacts
<1>3. <<c, YearList[i]>> \in ScopeKeys
  BY <1>2, YearListFacts DEF ScopeKeys
<1> QED
  BY <1>1, <1>3 DEF Growing

LEMMA CallStays ==
  ASSUME Growing, NEW call \in Calls,
         CallSound(call, scopeCache, centersCache, addressees \cup dropped)
  PROVE  CallSound(call, scopeCache', centersCache', addressees' \cup dropped')
<1>1. TermsSound(call.client, call.terms, scopeCache')
  BY CallTyped, TermsStay DEF CallSound
<1>2. call.at = "store" => centersCache'[call.centers] = call.centers
  BY CallTyped DEF CallSound, Growing
<1>3. call.read \subseteq addressees' \cup dropped'
  BY DEF CallSound, Growing
<1> QED
  BY <1>1, <1>2, <1>3 DEF CallSound

\* A step of one thread: the calls of the others stay what they are.
LEMMA ThreadStep ==
  ASSUME TypeOK, CallsSound, NEW t \in Threads, NEW r \in Calls \cup {Idle},
         thread' = [thread EXCEPT ![t] = r], Growing,
         r # Idle => CallSound(r, scopeCache', centersCache', addressees' \cup dropped')
  PROVE  /\ thread' \in [Threads -> Calls \cup {Idle}]
         /\ thread'[t] = r /\ \A u \in Threads \ {t} : thread'[u] = thread[u]
         /\ CallsSound'
<1>1. /\ thread' \in [Threads -> Calls \cup {Idle}]
      /\ thread'[t] = r /\ \A u \in Threads \ {t} : thread'[u] = thread[u]
  BY DEF TypeOK
<1>2. ASSUME NEW u \in Threads, thread'[u] # Idle
      PROVE  CallSound(thread'[u], scopeCache', centersCache', addressees' \cup dropped')
  <2>1. CASE u = t
    BY <1>1, <1>2, <2>1
  <2>2. CASE u # t
    <3>1. thread'[u] = thread[u] /\ thread[u] \in Calls
      BY <1>1, <1>2, <2>2 DEF TypeOK
    <3>2. CallSound(thread[u], scopeCache, centersCache, addressees \cup dropped)
      BY <1>2, <3>1 DEF CallsSound
    <3> QED
      BY <3>1, <3>2, CallStays
  <2> QED
    BY <2>1, <2>2
<1> QED
  BY <1>1, <1>2 DEF CallsSound

\* A thread that does not begin to generate leaves every key as contested as it was.
LEMMA UncontestedStep ==
  ASSUME Uncontested, NEW t \in Threads,
         \A u \in Threads \ {t} : thread'[u] = thread[u],
         \A k \in ScopeKeys : Generates(thread'[t], k) => Generates(thread[t], k),
         UNCHANGED <<scopeCache, first, differed, raced>>
  PROVE  Uncontested'
<1>1. \A u \in Threads, k \in ScopeKeys : Generates(thread'[u], k) => Generates(thread[u], k)
  BY DEF Generates
<1> HIDE DEF Generates
<1>2. UncontestedScope'
  BY DEF Uncontested, UncontestedScope
<1>3. ASSUME NEW k \in ScopeKeys \ raced' PROVE SoleGenerator(k)'
  BY <1>1 DEF Uncontested, SoleGenerator
<1> QED
  BY <1>2, <1>3 DEF Uncontested

\* A step of one thread that touches no cache and no history.
LEMMA LocalStep ==
  ASSUME ScopedInv, NEW t \in Threads, NEW r \in Calls \cup {Idle},
         thread' = [thread EXCEPT ![t] = r],
         UNCHANGED <<addressees, unused, caches, histories>>,
         r # Idle => CallSound(r, scopeCache, centersCache, addressees \cup dropped),
         \A k \in ScopeKeys : Generates(r, k) => Generates(thread[t], k)
  PROVE  ScopedInv'
<1>1. Growing /\ TypeOK /\ CallsSound /\ Uncontested
  BY DEF Growing, ScopedInv, caches, histories
<1>2. /\ thread' \in [Threads -> Calls \cup {Idle}]
      /\ thread'[t] = r /\ \A u \in Threads \ {t} : thread'[u] = thread[u]
      /\ CallsSound'
  BY <1>1, ThreadStep DEF caches, histories
<1>3. TypeOK'
  BY <1>1, <1>2 DEF TypeOK, caches, histories
<1>4. Uncontested'
  BY <1>1, <1>2, UncontestedStep DEF caches, histories
<1>5. CentersSound' /\ ScopesSound' /\ YearsSound' /\ AddresseesKnown'
  BY DEF ScopedInv, CentersSound, ScopesSound, YearsSound, AddresseesKnown, caches, histories
<1> QED
  BY <1>2, <1>3, <1>4, <1>5 DEF ScopedInv
-----------------------------------------------------------------------------
LEMMA ScopedInitHolds == Init => ScopedInv
<1> SUFFICES ASSUME Init PROVE ScopedInv
  OBVIOUS
<1>1. \A t \in Threads : thread[t] = Idle
  BY DEF Init
<1>2. TypeOK
  BY DEF Init, TypeOK
<1>3. CentersSound /\ ScopesSound /\ AddresseesKnown
  BY DEF Init, CentersSound, ScopesSound, AddresseesKnown
<1>4. YearsSound
  BY DEF Init, YearsSound, ClientKeys
<1>5. CallsSound
  BY <1>1 DEF CallsSound
<1>6. Uncontested
  BY <1>1 DEF Init, Uncontested, UncontestedScope, SoleGenerator, Generates
<1> QED
  BY <1>2, <1>3, <1>4, <1>5, <1>6 DEF ScopedInv

\* A GET arrives: its call holds nothing yet.
LEMMA AskScopeHolds ==
  ASSUME ScopedInv, NEW t \in Threads, NEW want \in {"scope", "centers"}, NEW c \in Clients,
         NEW y \in Years, NEW s \in Systems, AskScope(t, want, c, y, s)
  PROVE  ScopedInv'
<1> DEFINE r == [want |-> want, at |-> want, client |-> c, year |-> y, system |-> s,
                 terms |-> <<>>, read |-> {}, centers |-> Absent]
<1>1. r \in Calls
  <2>1. <<>> \in UNION {[1..n -> ScopeKeys] : n \in 0..Len(YearList)}
    BY TermLists, EmptySeq, YearListFacts
  <2> QED
    BY <2>1 DEF Calls, Steps
<1>2. /\ thread' = [thread EXCEPT ![t] = r]
      /\ UNCHANGED <<addressees, unused, caches, histories>>
  BY DEF AskScope
<1>3. CallSound(r, scopeCache, centersCache, addressees \cup dropped)
  BY EmptySeq DEF CallSound, TermsSound, AskScope
<1>4. \A k \in ScopeKeys : ~ Generates(r, k)
  BY DEF Generates
<1> HIDE DEF r
<1> QED
  BY <1>1, <1>2, <1>3, <1>4, LocalStep

LEMMA AskYearsHolds ==
  ASSUME ScopedInv, NEW t \in Threads, NEW c \in Clients, AskYears(t, c)
  PROVE  ScopedInv'
<1> DEFINE r == [want |-> "years", at |-> "scope", client |-> c, year |-> Head(YearList),
                 system |-> PrimarySystem, terms |-> <<>>, read |-> {}, centers |-> Absent]
<1>1. r \in Calls
  <2>1. <<>> \in UNION {[1..n -> ScopeKeys] : n \in 0..Len(YearList)}
    BY TermLists, EmptySeq, YearListFacts
  <2>2. Head(YearList) \in Years /\ PrimarySystem \in Systems
    BY YearListFacts, GenerationAssumption
  <2> QED
    BY <2>1, <2>2 DEF Calls, Steps
<1>2. /\ thread' = [thread EXCEPT ![t] = r]
      /\ UNCHANGED <<addressees, unused, caches, histories>>
  BY DEF AskYears
<1>3. CallSound(r, scopeCache, centersCache, addressees \cup dropped)
  BY EmptySeq, YearListFacts DEF CallSound, TermsSound
<1>4. \A k \in ScopeKeys : ~ Generates(r, k)
  BY DEF Generates
<1> HIDE DEF r
<1> QED
  BY <1>1, <1>2, <1>3, <1>4, LocalStep

\* The addressees are read: only those that are listed now.
LEMMA ReadAddresseesHolds ==
  ASSUME ScopedInv, NEW t \in Threads, ReadAddressees(t)
  PROVE  ScopedInv'
<1> DEFINE r == [thread[t] EXCEPT !.at = "centers", !.read = addressees]
<1>1. /\ thread[t] \in Calls /\ thread[t].at = "addressees" /\ addressees \subseteq AddresseeIds
      /\ CallSound(thread[t], scopeCache, centersCache, addressees \cup dropped)
      /\ UNCHANGED <<addressees, unused, caches, histories>>
  BY DEF ReadAddressees, At, ScopedInv, TypeOK, CallsSound
<1>2. /\ r \in Calls /\ r.at = "centers" /\ r.want = thread[t].want /\ r.read = addressees
      /\ r.client = thread[t].client /\ r.year = thread[t].year /\ r.system = thread[t].system
      /\ r.terms = thread[t].terms
  BY <1>1 DEF Calls, Steps
<1>3. thread' = [thread EXCEPT ![t] = r]
  BY <1>1 DEF ReadAddressees, ScopedInv, TypeOK
<1> HIDE DEF r
<1>4. CallSound(r, scopeCache, centersCache, addressees \cup dropped)
  BY <1>1, <1>2 DEF CallSound
<1>5. \A k \in ScopeKeys : Generates(r, k) => Generates(thread[t], k)
  BY <1>1, <1>2, CallTyped DEF Generates
<1> QED
  BY <1>1, <1>2, <1>3, <1>4, <1>5, LocalStep

\* The centers are not cached: the thread will generate them.
LEMMA MissCentersHolds ==
  ASSUME ScopedInv, NEW t \in Threads, MissCenters(t)
  PROVE  ScopedInv'
<1>1. /\ thread[t] \in Calls /\ thread[t].at = "centers" /\ thread[t] # Idle /\ TypeOK
      /\ CallSound(thread[t], scopeCache, centersCache, addressees \cup dropped)
      /\ UNCHANGED <<addressees, unused, caches, histories>> /\ Goto(t, "fillCenters")
  BY DEF MissCenters, At, ScopedInv, TypeOK, CallsSound
<1>2. PICK r \in Calls :
        /\ thread' = [thread EXCEPT ![t] = r]
        /\ r.at = "fillCenters" /\ r.want = thread[t].want /\ r.client = thread[t].client
        /\ r.year = thread[t].year /\ r.system = thread[t].system
        /\ r.terms = thread[t].terms /\ r.read = thread[t].read
  BY <1>1, CallMoved DEF Steps
<1>3. CallSound(r, scopeCache, centersCache, addressees \cup dropped)
  BY <1>1, <1>2 DEF CallSound
<1>4. \A k \in ScopeKeys : Generates(r, k) => Generates(thread[t], k)
  BY <1>1, <1>2, CallTyped DEF Generates
<1> QED
  BY <1>1, <1>2, <1>3, <1>4, LocalStep

\* The centers of a call come back, whether cached or just filled: to the handler
\* that asked for them, or to the scope that is being generated.
LEMMA CentersReturn ==
  ASSUME ScopedInv, NEW t \in Threads, thread[t] # Idle,
         thread[t].at \in {"centers", "fillCenters"}, ReturnCenters(t, CenterKey(t)),
         Growing, scopeCache' = scopeCache,
         centersCache'[CenterKey(t)] = CenterKey(t)
  PROVE  \E r \in Calls \cup {Idle} :
           /\ thread' = [thread EXCEPT ![t] = r]
           /\ r # Idle => CallSound(r, scopeCache', centersCache', addressees' \cup dropped')
           /\ \A k \in ScopeKeys : Generates(r, k) => Generates(thread[t], k)
<1>1. /\ thread[t] \in Calls /\ thread \in [Threads -> Calls \cup {Idle}]
      /\ CallSound(thread[t], scopeCache, centersCache, addressees \cup dropped)
  BY DEF ScopedInv, TypeOK, CallsSound
<1>2. CASE thread[t].want = "centers"
  <2>1. thread' = [thread EXCEPT ![t] = Idle]
    BY <1>2 DEF ReturnCenters, Answered
  <2> QED
    BY <2>1 DEF Generates
<1>3. CASE thread[t].want # "centers"
  <2> DEFINE r == [thread[t] EXCEPT !.at = "store", !.centers = CenterKey(t)]
  <2>1. CenterKey(t) \in Centers
    BY <1>1, CallTyped DEF CenterKey, Centers
  <2>2. /\ r \in Calls /\ r.at = "store" /\ r.want = thread[t].want
        /\ r.client = thread[t].client /\ r.year = thread[t].year
        /\ r.system = thread[t].system /\ r.terms = thread[t].terms
        /\ r.read = thread[t].read /\ r.centers = CenterKey(t)
    BY <1>1, <2>1 DEF Calls, Steps
  <2>3. thread' = [thread EXCEPT ![t] = r]
    BY <1>1, <1>3 DEF ReturnCenters
  <2> HIDE DEF r
  <2>4. CallSound(thread[t], scopeCache', centersCache', addressees' \cup dropped')
    BY <1>1, CallStays
  <2>5. CallSound(r, scopeCache', centersCache', addressees' \cup dropped')
    BY <1>3, <2>2, <2>4 DEF CallSound, CenterKey
  <2>6. \A k \in ScopeKeys : Generates(r, k) => Generates(thread[t], k)
    BY <1>3, <2>2 DEF Generates
  <2> QED
    BY <2>2, <2>3, <2>5, <2>6
<1> QED
  BY <1>2, <1>3

LEMMA HitCentersHolds ==
  ASSUME ScopedInv, NEW t \in Threads, HitCenters(t)
  PROVE  ScopedInv'
<1>1. /\ thread[t] \in Calls /\ thread[t] # Idle /\ thread[t].at = "centers"
      /\ centersCache[CenterKey(t)] # Absent
      /\ ReturnCenters(t, centersCache[CenterKey(t)])
      /\ UNCHANGED <<addressees, unused, caches, histories>>
  BY DEF HitCenters, At, ScopedInv, TypeOK
<1>2. centersCache[CenterKey(t)] = CenterKey(t)
  BY <1>1, CallTyped DEF ScopedInv, CentersSound, CenterKey
<1>3. Growing
  BY <1>1 DEF Growing, caches, histories
<1>4. /\ scopeCache' = scopeCache /\ centersCache' = centersCache
      /\ addressees' = addressees /\ dropped' = dropped
  BY <1>1 DEF caches, histories
<1>5. ReturnCenters(t, CenterKey(t)) /\ centersCache'[CenterKey(t)] = CenterKey(t)
  BY <1>1, <1>2, <1>4
<1>6. PICK r \in Calls \cup {Idle} :
        /\ thread' = [thread EXCEPT ![t] = r]
        /\ r # Idle => CallSound(r, scopeCache', centersCache', addressees' \cup dropped')
        /\ \A k \in ScopeKeys : Generates(r, k) => Generates(thread[t], k)
  BY <1>1, <1>3, <1>4, <1>5, CentersReturn
<1> QED
  BY <1>1, <1>4, <1>6, LocalStep

\* The centers are generated and cached under their key: whatever another thread
\* stored there meanwhile was the same.
LEMMA FillCentersHolds ==
  ASSUME ScopedInv, NEW t \in Threads, FillCenters(t)
  PROVE  ScopedInv'
<1>1. /\ thread[t] \in Calls /\ thread[t] # Idle /\ thread[t].at = "fillCenters"
      /\ centersCache' = [centersCache EXCEPT ![CenterKey(t)] = CenterKey(t)]
      /\ ReturnCenters(t, CenterKey(t))
      /\ UNCHANGED <<addressees, unused, yearsCache, scopeCache, dropped, first, differed, raced>>
  BY DEF FillCenters, GeneratedCenters, SeedFor, At, ScopedInv, TypeOK, histories
<1>2. CenterKey(t) \in CenterKeys
  BY <1>1, CallTyped DEF CenterKey
<1>3. centersCache' \in [CenterKeys -> Centers \cup {Absent}]
      /\ centersCache'[CenterKey(t)] = CenterKey(t)
      /\ \A k \in CenterKeys : centersCache'[k] \in {centersCache[k], k}
  BY <1>1, <1>2 DEF ScopedInv, TypeOK, Centers
<1>4. Growing
  BY <1>1, <1>3 DEF Growing
<1>5. PICK r \in Calls \cup {Idle} :
        /\ thread' = [thread EXCEPT ![t] = r]
        /\ r # Idle => CallSound(r, scopeCache', centersCache', addressees' \cup dropped')
        /\ \A k \in ScopeKeys : Generates(r, k) => Generates(thread[t], k)
  BY <1>1, <1>3, <1>4, CentersReturn
<1>6. /\ thread' \in [Threads -> Calls \cup {Idle}]
      /\ thread'[t] = r /\ \A u \in Threads \ {t} : thread'[u] = thread[u]
      /\ CallsSound'
  BY <1>4, <1>5, ThreadStep DEF ScopedInv
<1>7. TypeOK'
  BY <1>1, <1>3, <1>6 DEF ScopedInv, TypeOK
<1>8. CentersSound'
  BY <1>3 DEF ScopedInv, CentersSound
<1>9. ScopesSound'
  <2>1. \A k \in ScopeKeys : PrimaryCenters(k) \in CenterKeys
    BY GenerationAssumption DEF PrimaryCenters, ScopeKeys, CenterKeys
  <2> QED
    BY <1>1, <1>4, <2>1 DEF ScopedInv, ScopesSound, Growing
<1>10. YearsSound' /\ AddresseesKnown'
  BY <1>1 DEF ScopedInv, YearsSound, AddresseesKnown
<1>11. Uncontested'
  BY <1>1, <1>5, <1>6, UncontestedStep DEF ScopedInv
<1> QED
  BY <1>6, <1>7, <1>8, <1>9, <1>10, <1>11 DEF ScopedInv

\* A reset replaces the addressees: those before it are remembered as dropped.
LEMMA ResetHolds == ASSUME ScopedInv, Reset PROVE ScopedInv'
<1>1. /\ addressees' \in (SUBSET AddresseeIds) \ {{}} /\ unused' \subseteq AddresseeIds
      /\ dropped' = dropped \cup addressees /\ dropped' \subseteq AddresseeIds
      /\ UNCHANGED <<yearsCache, scopeCache, centersCache, thread, first, differed, raced>>
  BY DEF Reset, ScopedInv, TypeOK, caches
<1>2. TypeOK'
  BY <1>1 DEF ScopedInv, TypeOK
<1>3. Growing
  BY <1>1 DEF Growing
<1>4. CallsSound'
  <2> SUFFICES ASSUME NEW t \in Threads, thread[t] # Idle
               PROVE  CallSound(thread[t], scopeCache', centersCache', addressees' \cup dropped')
    BY <1>1 DEF CallsSound
  <2>1. thread[t] \in Calls
    BY DEF ScopedInv, TypeOK
  <2>2. CallSound(thread[t], scopeCache, centersCache, addressees \cup dropped)
    BY DEF ScopedInv, CallsSound
  <2> QED
    BY <1>3, <2>1, <2>2, CallStays
<1>5. CentersSound' /\ ScopesSound' /\ YearsSound'
  BY <1>1 DEF ScopedInv, CentersSound, ScopesSound, YearsSound
<1>6. AddresseesKnown'
  BY <1>1 DEF ScopedInv, AddresseesKnown
<1>7. Uncontested'
  BY <1>1 DEF ScopedInv, Uncontested, UncontestedScope, SoleGenerator
<1> QED
  BY <1>2, <1>4, <1>5, <1>6, <1>7 DEF ScopedInv

\* The scope is not cached: the thread generates it, and if another one is at it
\* already the key is contested from here on.
LEMMA MissScopeHolds ==
  ASSUME ScopedInv, NEW t \in Threads, MissScope(t)
  PROVE  ScopedInv'
<1> DEFINE key == ScopeKey(t)
<1>1. /\ thread[t] \in Calls /\ thread[t].at = "scope" /\ thread[t] # Idle /\ TypeOK /\ CallsSound
      /\ CallSound(thread[t], scopeCache, centersCache, addressees \cup dropped)
      /\ UNCHANGED <<addressees, unused, yearsCache, scopeCache, centersCache, dropped,
                     first, differed>>
      /\ Goto(t, "addressees") /\ scopeCache[key] = Absent
      /\ raced' = IF \E u \in Threads : Generating(u, key) THEN raced \cup {key} ELSE raced
  BY DEF MissScope, At, ScopedInv, TypeOK, CallsSound, caches
<1>2. PICK r \in Calls :
        /\ thread' = [thread EXCEPT ![t] = r]
        /\ r.at = "addressees" /\ r.want = thread[t].want /\ r.client = thread[t].client
        /\ r.year = thread[t].year /\ r.system = thread[t].system
        /\ r.terms = thread[t].terms /\ r.read = thread[t].read
  BY <1>1, CallMoved DEF Steps
<1>3. Growing
  BY <1>1 DEF Growing
<1>4. CallSound(r, scopeCache', centersCache', addressees' \cup dropped')
  BY <1>1, <1>2 DEF CallSound
<1>5. /\ thread' \in [Threads -> Calls \cup {Idle}]
      /\ thread'[t] = r /\ \A u \in Threads \ {t} : thread'[u] = thread[u]
      /\ CallsSound'
  BY <1>1, <1>2, <1>3, <1>4, ThreadStep
<1>6. key \in ScopeKeys /\ \A k \in ScopeKeys : Generates(r, k) => k = key
  BY <1>1, <1>2, CallTyped DEF Generates, ScopeKey
<1>7. \A u \in Threads : Generates(thread[u], key) => Generating(u, key)
  BY DEF Generates, Generating, ScopeKey
<1> HIDE DEF key
<1>8. TypeOK'
  BY <1>1, <1>5, <1>6 DEF TypeOK
<1>9. CentersSound' /\ ScopesSound' /\ YearsSound' /\ AddresseesKnown'
  BY <1>1 DEF ScopedInv, CentersSound, ScopesSound, YearsSound, AddresseesKnown
<1>10. UncontestedScope'
  BY <1>1 DEF ScopedInv, Uncontested, UncontestedScope
<1>11. ASSUME NEW k \in ScopeKeys \ raced' PROVE SoleGenerator(k)'
  <2>1. k \notin raced /\ SoleGenerator(k)
    BY <1>1, <1>11 DEF ScopedInv, Uncontested
  <2>2. CASE k # key
    <3>1. \A u \in Threads : Generates(thread'[u], k) => Generates(thread[u], k)
      BY <1>5, <1>6, <2>2
    <3> QED
      BY <1>1, <2>1, <3>1 DEF SoleGenerator
  <2>3. CASE k = key
    <3>1. \A u \in Threads : ~ Generates(thread[u], key)
      BY <1>1, <1>7, <1>11, <2>3
    <3>2. \A u \in Threads : Generates(thread'[u], key) => u = t
      BY <1>5, <3>1
    <3> QED
      BY <1>1, <2>1, <2>3, <3>2 DEF SoleGenerator
  <2> QED
    BY <2>2, <2>3
<1> QED
  BY <1>5, <1>8, <1>9, <1>10, <1>11 DEF ScopedInv, Uncontested

\* The scope of a key comes back, cached or just stored: to the handler that asked
\* for it, or to the list of years, which goes on to its next year or is complete.
LEMMA ScopeReturn ==
  ASSUME ScopedInv, NEW t \in Threads, thread[t] # Idle, thread[t].want # "centers",
         thread[t].at # "years", NEW scope \in Scopes, scope.seed = ScopeKey(t),
         ReturnScope(t, scope), Growing, scopeCache'[ScopeKey(t)] # Absent
  PROVE  \E r \in Calls \cup {Idle} :
           /\ thread' = [thread EXCEPT ![t] = r]
           /\ r # Idle => CallSound(r, scopeCache', centersCache', addressees' \cup dropped')
           /\ \A k \in ScopeKeys : ~ Generates(r, k)
<1>1. /\ thread[t] \in Calls /\ thread \in [Threads -> Calls \cup {Idle}]
      /\ CallSound(thread[t], scopeCache, centersCache, addressees \cup dropped)
  BY DEF ScopedInv, TypeOK, CallsSound
<1>2. CASE thread[t].want = "scope"
  <2>1. thread' = [thread EXCEPT ![t] = Idle]
    BY <1>2 DEF ReturnScope, Answered
  <2> QED
    BY <2>1 DEF Generates
<1>3. CASE thread[t].want # "scope"
  <2> DEFINE old == thread[t].terms
             terms == Append(old, scope.seed)
             done == Len(terms) = Len(YearList)
             at == IF done THEN "years" ELSE "scope"
             year == IF done THEN thread[t].year ELSE YearList[Len(terms) + 1]
             r == [thread[t] EXCEPT !.terms = terms, !.at = at, !.year = year,
                                    !.read = {}, !.centers = Absent]
  <2>1. /\ thread[t].want = "years" /\ old \in Seq(ScopeKeys) /\ Len(old) \in Nat
        /\ Len(old) < Len(YearList) /\ thread[t].year = YearList[Len(old) + 1]
        /\ scope.seed = <<thread[t].client, thread[t].year>> /\ scope.seed \in ScopeKeys
    BY <1>1, <1>3, CallTyped DEF CallSound, ScopeKey
  <2>2. /\ terms \in Seq(ScopeKeys) /\ Len(terms) = Len(old) + 1
        /\ \A i \in 1..Len(old) : terms[i] = old[i]
        /\ terms[Len(old) + 1] = scope.seed
    BY <2>1, AppendProperties
  <2> HIDE DEF old, terms
  <2>3. Len(terms) <= Len(YearList) /\ Len(terms) \in Nat
    BY <2>1, <2>2, YearListFacts
  <2>4. terms \in UNION {[1..n -> ScopeKeys] : n \in 0..Len(YearList)}
    BY <2>2, <2>3, TermLists
  <2>5. year \in Years /\ at \in Steps
    <3>1. ~ done => Len(terms) + 1 \in 1..Len(YearList)
      BY <2>3, YearListFacts
    <3>2. thread[t].year \in Years
      BY <1>1, CallTyped
    <3> QED
      BY <3>1, <3>2, YearListFacts DEF Steps
  <2>6. ~ done => Len(terms) < Len(YearList) /\ year = YearList[Len(terms) + 1]
    BY <2>3, YearListFacts
  <2>7. thread' = [thread EXCEPT ![t].terms = terms, ![t].at = at, ![t].year = year,
                                 ![t].read = {}, ![t].centers = Absent]
    BY <1>1, <1>3 DEF ReturnScope, terms, old
  <2>8. at \in {"years", "scope"} /\ (at = "years" <=> done)
    OBVIOUS
  <2> HIDE DEF done, at, year
  <2>9. thread' = [thread EXCEPT ![t] = r]
    BY <1>1, <2>7
  <2>10. /\ r \in Calls /\ r.terms = terms /\ r.at = at /\ r.year = year /\ r.read = {}
         /\ r.want = "years" /\ r.client = thread[t].client /\ r.system = thread[t].system
    BY <1>1, <2>1, <2>4, <2>5 DEF Calls
  <2> HIDE DEF r
  <2>11. TermsSound(r.client, r.terms, scopeCache')
    <3> SUFFICES ASSUME NEW i \in 1..Len(terms)
                 PROVE  /\ terms[i] = <<thread[t].client, YearList[i]>>
                        /\ scopeCache'[<<thread[t].client, YearList[i]>>] # Absent
      BY <2>10 DEF TermsSound
    <3>1. TermsSound(thread[t].client, old, scopeCache')
      BY <1>1, <2>1, CallTyped, TermsStay DEF CallSound, old
    <3>2. CASE i <= Len(old)
      <4>1. i \in 1..Len(old) /\ terms[i] = old[i]
        BY <2>1, <2>2, <3>2
      <4> QED
        BY <3>1, <4>1 DEF TermsSound
    <3>3. CASE i = Len(old) + 1
      <4>1. terms[i] = scope.seed /\ YearList[i] = thread[t].year
        BY <2>1, <2>2, <3>3
      <4>2. scopeCache'[scope.seed] # Absent
        OBVIOUS
      <4> QED
        BY <2>1, <4>1, <4>2
    <3> QED
      BY <2>1, <2>2, <3>2, <3>3
  <2>12. CallSound(r, scopeCache', centersCache', addressees' \cup dropped')
    BY <1>1, <2>1, <2>6, <2>8, <2>10, <2>11 DEF CallSound, done
  <2>13. \A k \in ScopeKeys : ~ Generates(r, k)
    BY <2>8, <2>10 DEF Generates
  <2> QED
    BY <2>9, <2>10, <2>12, <2>13
<1> QED
  BY <1>2, <1>3

\* The scope is cached: what the key is answered with is what it was answered with
\* before, unless two threads had generated it.
LEMMA HitScopeHolds ==
  ASSUME ScopedInv, NEW t \in Threads, HitScope(t)
  PROVE  ScopedInv'
<1> DEFINE key == ScopeKey(t)
           scope == scopeCache[key]
<1>1. /\ thread[t] \in Calls /\ thread[t].at = "scope" /\ thread[t] # Idle /\ TypeOK /\ CallsSound
      /\ UNCHANGED <<addressees, unused, yearsCache, scopeCache, centersCache, dropped, raced>>
      /\ scope # Absent /\ ReturnScope(t, scope)
  BY DEF HitScope, At, ScopedInv, TypeOK, caches
<1>2. key \in ScopeKeys /\ scope \in Scopes /\ scope.seed = key /\ thread[t].want # "centers"
  <2>1. key \in ScopeKeys
    BY <1>1, CallTyped DEF ScopeKey
  <2>2. thread[t].want # "centers"
    BY <1>1 DEF CallsSound, CallSound
  <2> QED
    BY <1>1, <2>1, <2>2 DEF ScopedInv, TypeOK, ScopesSound
<1>3. Growing
  BY <1>1 DEF Growing
<1>4. PICK r \in Calls \cup {Idle} :
        /\ thread' = [thread EXCEPT ![t] = r]
        /\ r # Idle => CallSound(r, scopeCache', centersCache', addressees' \cup dropped')
        /\ \A k \in ScopeKeys : ~ Generates(r, k)
  BY <1>1, <1>2, <1>3, ScopeReturn
<1>5. /\ thread' \in [Threads -> Calls \cup {Idle}]
      /\ thread'[t] = r /\ \A u \in Threads \ {t} : thread'[u] = thread[u]
      /\ CallsSound'
  BY <1>1, <1>3, <1>4, ThreadStep
<1>6. \/ UNCHANGED <<first, differed>>
      \/ /\ first' = IF first[key] = Absent THEN [first EXCEPT ![key] = scope] ELSE first
         /\ differed' = IF first[key] \in {Absent, scope} THEN differed ELSE differed \cup {key}
  BY <1>1 DEF ReturnScope
<1> HIDE DEF key, scope
<1>7. /\ first' \in [ScopeKeys -> Scopes \cup {Absent}] /\ differed' \subseteq ScopeKeys
      /\ \A k \in ScopeKeys : first'[k] = first[k] \/ (k = key /\ first'[k] = scope)
  BY <1>1, <1>2, <1>6 DEF TypeOK
<1>8. TypeOK'
  BY <1>1, <1>5, <1>7 DEF TypeOK
<1>9. CentersSound' /\ ScopesSound' /\ YearsSound' /\ AddresseesKnown'
  BY <1>1 DEF ScopedInv, CentersSound, ScopesSound, YearsSound, AddresseesKnown
<1>10. UncontestedScope'
  <2>1. key \notin raced => first[key] \in {Absent, scope}
    BY <1>2 DEF ScopedInv, Uncontested, SoleGenerator, scope
  <2> QED
    BY <1>1, <1>6, <2>1 DEF ScopedInv, Uncontested, UncontestedScope
<1>11. \A u \in Threads, k \in ScopeKeys : Generates(thread'[u], k) => Generates(thread[u], k)
  BY <1>4, <1>5
<1>12. ASSUME NEW k \in ScopeKeys \ raced' PROVE SoleGenerator(k)'
  <2>1. SoleGenerator(k)
    BY <1>1 DEF ScopedInv, Uncontested
  <2>2. first'[k] # Absent => scopeCache[k] = first'[k]
    BY <1>7, <2>1 DEF SoleGenerator, scope
  <2> QED
    BY <1>1, <1>11, <2>1, <2>2 DEF SoleGenerator
<1> QED
  BY <1>5, <1>8, <1>9, <1>10, <1>12 DEF ScopedInv, Uncontested

\* There is a guid that no scope somebody could still compare has.
LEMMA FreshGuidExists == ASSUME TypeOK PROVE FreshGuid \in Guids
<1>1. PICK some \in Guids : TRUE
  BY GuidAssumption
<1> DEFINE f == [k \in ScopeKeys |-> IF scopeCache[k] # Absent THEN scopeCache[k].guid ELSE some]
           g == [k \in ScopeKeys |-> IF first[k] # Absent THEN first[k].guid ELSE some]
<1>2. f \in [ScopeKeys -> Guids] /\ g \in [ScopeKeys -> Guids]
  BY DEF TypeOK, Scopes
<1>3. PICK guid \in Guids : \A k \in ScopeKeys : guid \notin {f[k], g[k]}
  BY <1>2, GuidAssumption
<1>4. guid \notin GuidsInUse
  BY <1>3 DEF GuidsInUse
<1> QED
  BY <1>4 DEF FreshGuid

\* The scope is stored: nobody else was generating it, or the key is contested.
LEMMA StoreScopeHolds ==
  ASSUME ScopedInv, NEW t \in Threads, StoreScope(t)
  PROVE  ScopedInv'
<1> DEFINE key == ScopeKey(t)
<1>1. /\ thread[t] \in Calls /\ thread[t].at = "store" /\ thread[t] # Idle /\ TypeOK /\ CallsSound
      /\ CallSound(thread[t], scopeCache, centersCache, addressees \cup dropped)
      /\ UNCHANGED <<addressees, unused, yearsCache, centersCache, dropped, raced>>
  BY DEF StoreScope, At, ScopedInv, TypeOK, CallsSound
<1>2. PICK a \in thread[t].read :
        LET made == [seed |-> key, addressee |-> a, centers |-> thread[t].centers,
                     guid |-> FreshGuid]
        IN  scopeCache' = [scopeCache EXCEPT ![key] = made] /\ ReturnScope(t, made)
  BY DEF StoreScope, SeedFor
<1> DEFINE scope == [seed |-> key, addressee |-> a, centers |-> thread[t].centers,
                     guid |-> FreshGuid]
<1>3. /\ key = <<thread[t].client, thread[t].year>> /\ key \in ScopeKeys
      /\ thread[t].want # "centers"
      /\ thread[t].centers = PrimaryCenters(key) /\ PrimaryCenters(key) \in CenterKeys
      /\ centersCache[PrimaryCenters(key)] = PrimaryCenters(key)
      /\ thread[t].read \subseteq addressees \cup dropped /\ thread[t].read \subseteq AddresseeIds
  BY <1>1, CallTyped, GenerationAssumption DEF CallSound, ScopeKey, PrimaryCenters, CenterKeys
<1>4. scope \in Scopes /\ scope # Absent /\ scope.seed = key
      /\ scope.centers = PrimaryCenters(key) /\ scope.addressee \in addressees \cup dropped
  BY <1>1, <1>3, FreshGuidExists, MarkerAssumption DEF Scopes, Centers
<1>5. scopeCache' = [scopeCache EXCEPT ![key] = scope] /\ ReturnScope(t, scope)
  BY <1>2
<1>6. Generates(thread[t], key)
  BY <1>1, <1>3 DEF Generates
<1>7. \/ UNCHANGED <<first, differed>>
      \/ /\ first' = IF first[key] = Absent THEN [first EXCEPT ![key] = scope] ELSE first
         /\ differed' = IF first[key] \in {Absent, scope} THEN differed ELSE differed \cup {key}
  BY <1>5 DEF ReturnScope
<1>8. scope.seed = ScopeKey(t) /\ scopeCache'[ScopeKey(t)] # Absent
  BY <1>1, <1>3, <1>4, <1>5 DEF TypeOK
<1> HIDE DEF key, scope
<1>9. /\ scopeCache' \in [ScopeKeys -> Scopes \cup {Absent}] /\ scopeCache'[key] = scope
      /\ \A k \in ScopeKeys \ {key} : scopeCache'[k] = scopeCache[k]
  BY <1>1, <1>3, <1>4, <1>5 DEF TypeOK
<1>10. Growing
  BY <1>1, <1>4, <1>9 DEF Growing
<1>11. PICK r \in Calls \cup {Idle} :
        /\ thread' = [thread EXCEPT ![t] = r]
        /\ r # Idle => CallSound(r, scopeCache', centersCache', addressees' \cup dropped')
        /\ \A k \in ScopeKeys : ~ Generates(r, k)
  BY <1>1, <1>3, <1>4, <1>5, <1>8, <1>10, ScopeReturn
<1>12. /\ thread' \in [Threads -> Calls \cup {Idle}]
       /\ thread'[t] = r /\ \A u \in Threads \ {t} : thread'[u] = thread[u]
       /\ CallsSound'
  BY <1>1, <1>10, <1>11, ThreadStep
<1>13. /\ first' \in [ScopeKeys -> Scopes \cup {Absent}] /\ differed' \subseteq ScopeKeys
       /\ \A k \in ScopeKeys \ {key} : first'[k] = first[k]
       /\ first[key] = Absent => first'[key] \in {Absent, scope} /\ differed' = differed
       /\ differed' \subseteq differed \cup {key}
  BY <1>1, <1>3, <1>4, <1>7 DEF TypeOK
<1>14. TypeOK'
  BY <1>1, <1>9, <1>12, <1>13 DEF TypeOK
<1>15. CentersSound'
  BY <1>1 DEF ScopedInv, CentersSound
<1>16. ScopesSound' /\ AddresseesKnown'
  BY <1>1, <1>3, <1>4, <1>9 DEF ScopedInv, ScopesSound, AddresseesKnown
<1>17. YearsSound'
  <2> SUFFICES ASSUME NEW c \in Clients, yearsCache[<<c>>] # Absent
               PROVE  TermsSound(c, yearsCache[<<c>>], scopeCache')
    BY <1>1 DEF YearsSound
  <2>1. TermsSound(c, yearsCache[<<c>>], scopeCache)
    BY DEF ScopedInv, YearsSound
  <2>2. yearsCache[<<c>>] \in YearLists
    BY <1>1 DEF TypeOK, ClientKeys
  <2>3. Len(yearsCache[<<c>>]) = Len(YearList)
    BY <2>2, YearListFacts DEF YearLists
  <2> QED
    BY <1>10, <2>1, <2>3, TermsStay, YearListFacts
<1>18. key \notin raced => SoleGenerator(key) /\ scopeCache[key] = Absent /\ first[key] = Absent
  BY <1>3, <1>6 DEF ScopedInv, Uncontested, SoleGenerator
<1>19. UncontestedScope'
  BY <1>1, <1>13, <1>18 DEF ScopedInv, Uncontested, UncontestedScope
<1>20. \A u \in Threads, k \in ScopeKeys :
         Generates(thread'[u], k) => Generates(thread[u], k) /\ u # t
  BY <1>11, <1>12
<1>21. ASSUME NEW k \in ScopeKeys \ raced' PROVE SoleGenerator(k)'
  <2>1. SoleGenerator(k)
    BY <1>1 DEF ScopedInv, Uncontested
  <2>2. CASE k # key
    BY <1>9, <1>13, <1>20, <2>1, <2>2 DEF SoleGenerator
  <2>3. CASE k = key
    <3>1. \A u \in Threads : ~ Generates(thread'[u], key)
      BY <1>6, <1>20, <2>1, <2>3 DEF SoleGenerator
    <3>2. first'[key] \in {Absent, scope}
      BY <1>1, <1>13, <1>18, <1>21, <2>3
    <3> QED
      BY <1>9, <2>3, <3>1, <3>2 DEF SoleGenerator
  <2> QED
    BY <2>2, <2>3
<1> QED
  BY <1>12, <1>14, <1>15, <1>16, <1>17, <1>19, <1>21 DEF ScopedInv, Uncontested

\* The list of years is complete: it is stored under its client.
LEMMA StoreYearsHolds ==
  ASSUME ScopedInv, NEW t \in Threads, StoreYears(t)
  PROVE  ScopedInv'
<1> DEFINE terms == thread[t].terms
           client == thread[t].client
<1>1. /\ thread[t] \in Calls /\ thread[t].at = "years" /\ thread[t] # Idle /\ TypeOK /\ CallsSound
      /\ CallSound(thread[t], scopeCache, centersCache, addressees \cup dropped)
      /\ UNCHANGED <<addressees, unused, scopeCache, centersCache, dropped, first, differed, raced>>
      /\ yearsCache' = [yearsCache EXCEPT ![<<client>>] = terms]
      /\ thread' = [thread EXCEPT ![t] = Idle]
  BY DEF StoreYears, At, Answered, ScopedInv, TypeOK, CallsSound, histories
<1>2. /\ client \in Clients /\ terms \in Seq(ScopeKeys) /\ Len(terms) = Len(YearList)
      /\ TermsSound(client, terms, scopeCache)
  BY <1>1, CallTyped DEF CallSound
<1>3. terms \in YearLists
  BY <1>2, LenProperties DEF YearLists
<1> HIDE DEF terms, client
<1>4. /\ yearsCache' \in [ClientKeys -> YearLists \cup {Absent}]
      /\ \A c \in Clients : yearsCache'[<<c>>] = IF c = client THEN terms ELSE yearsCache[<<c>>]
  BY <1>1, <1>2, <1>3 DEF TypeOK, ClientKeys
<1>5. Growing
  BY <1>1 DEF Growing
<1>6. /\ thread' \in [Threads -> Calls \cup {Idle}]
      /\ thread'[t] = Idle /\ \A u \in Threads \ {t} : thread'[u] = thread[u]
      /\ CallsSound'
  BY <1>1, <1>5, ThreadStep
<1>7. TypeOK'
  BY <1>1, <1>4, <1>6 DEF TypeOK
<1>8. CentersSound' /\ ScopesSound' /\ AddresseesKnown'
  BY <1>1 DEF ScopedInv, CentersSound, ScopesSound, AddresseesKnown
<1>9. YearsSound'
  BY <1>1, <1>2, <1>4 DEF ScopedInv, YearsSound
<1>10. Uncontested'
  BY <1>1, <1>6, UncontestedStep DEF ScopedInv, Generates
<1> QED
  BY <1>6, <1>7, <1>8, <1>9, <1>10 DEF ScopedInv
-----------------------------------------------------------------------------
LEMMA ScopedNextHolds == ScopedInv /\ [Next]_vars => ScopedInv'
<1> SUFFICES ASSUME ScopedInv, [Next]_vars PROVE ScopedInv'
  OBVIOUS
<1>1. CASE UNCHANGED vars
  <2>1. UNCHANGED <<addressees, unused, yearsCache, scopeCache, centersCache, thread, dropped,
                    first, differed, raced>>
    BY <1>1 DEF vars, caches, histories
  <2> QED
    BY <2>1 DEF ScopedInv, TypeOK, CentersSound, ScopesSound, YearsSound, CallsSound,
       AddresseesKnown, Uncontested, UncontestedScope, SoleGenerator
<1>2. ASSUME NEW t \in Threads, NEW want \in {"scope", "centers"}, NEW c \in Clients,
             NEW y \in Years, NEW s \in Systems, AskScope(t, want, c, y, s)
      PROVE  ScopedInv'
  BY <1>2, AskScopeHolds
<1>3. ASSUME NEW t \in Threads, NEW c \in Clients, AskYears(t, c) PROVE ScopedInv'
  BY <1>3, AskYearsHolds
<1>4. ASSUME NEW t \in Threads, HitScope(t) PROVE ScopedInv'
  BY <1>4, HitScopeHolds
<1>5. ASSUME NEW t \in Threads, MissScope(t) PROVE ScopedInv'
  BY <1>5, MissScopeHolds
<1>6. ASSUME NEW t \in Threads, ReadAddressees(t) PROVE ScopedInv'
  BY <1>6, ReadAddresseesHolds
<1>7. ASSUME NEW t \in Threads, StoreScope(t) PROVE ScopedInv'
  BY <1>7, StoreScopeHolds
<1>8. ASSUME NEW t \in Threads, HitCenters(t) PROVE ScopedInv'
  BY <1>8, HitCentersHolds
<1>9. ASSUME NEW t \in Threads, MissCenters(t) PROVE ScopedInv'
  BY <1>9, MissCentersHolds
<1>10. ASSUME NEW t \in Threads, FillCenters(t) PROVE ScopedInv'
  BY <1>10, FillCentersHolds
<1>11. ASSUME NEW t \in Threads, StoreYears(t) PROVE ScopedInv'
  BY <1>11, StoreYearsHolds
<1>12. CASE Reset
  BY <1>12, ResetHolds
<1> QED
  BY <1>1, <1>2, <1>3, <1>4, <1>5, <1>6, <1>7, <1>8, <1>9, <1>10, <1>11, <1>12 DEF Next

LEMMA ScopedInvariant == Spec => []ScopedInv
<1> QED
  BY ScopedInitHolds, ScopedNextHolds, PTL DEF Spec

\* The caches hold generated data of their own keys or nothing, and a call what its
\* step needs.
THEOREM ScopedTyped == Spec => []TypeOK
<1>1. ScopedInv => TypeOK
  BY DEF ScopedInv
<1> QED
  BY <1>1, ScopedInvariant, PTL

\* However many threads fill and overwrite the three caches, the open items of a
\* cached scope name cost centers that are cached for its primary system, and a
\* cached fiscal year names terms of payment of its own cached scope.
THEOREM CachesAlwaysAgree == Spec => []CachesAgree
<1>1. ScopedInv => CachesAgree
  <2> SUFFICES ASSUME ScopedInv PROVE CachesAgree
    OBVIOUS
  <2>1. \A k \in ScopeKeys : scopeCache[k] # Absent =>
          scopeCache[k].centers = centersCache[<<k[1], k[2], PrimarySystem>>]
    BY DEF ScopedInv, ScopesSound, PrimaryCenters
  <2>2. ASSUME NEW c \in Clients, yearsCache[<<c>>] # Absent, NEW i \in 1..Len(YearList)
        PROVE  LET scope == scopeCache[<<c, YearList[i]>>]
               IN  scope # Absent /\ scope.seed = yearsCache[<<c>>][i]
    <3>1. yearsCache[<<c>>] \in YearLists /\ <<c, YearList[i]>> \in ScopeKeys
      BY <2>2, YearListFacts DEF ScopedInv, TypeOK, ClientKeys, ScopeKeys
    <3>2. Len(yearsCache[<<c>>]) = Len(YearList)
      BY <3>1, YearListFacts DEF YearLists
    <3>3. /\ yearsCache[<<c>>][i] = <<c, YearList[i]>>
          /\ scopeCache[<<c, YearList[i]>>] # Absent
      BY <2>2, <3>2 DEF ScopedInv, YearsSound, TermsSound
    <3> QED
      BY <3>1, <3>3 DEF ScopedInv, ScopesSound
  <2> QED
    BY <2>1, <2>2 DEF CachesAgree
<1> QED
  BY <1>1, ScopedInvariant, PTL

\* A cached creditor names an addressee that is or was listed, also when the list
\* was replaced while its scope was being generated.
THEOREM CachedAddresseesKnown == Spec => []AddresseesKnown
<1>1. ScopedInv => AddresseesKnown
  BY DEF ScopedInv
<1> QED
  BY <1>1, ScopedInvariant, PTL

\* A scope is answered with the same content every time, unless two threads once
\* generated it at the same time.
THEOREM ScopesStable == Spec => []UncontestedScope
<1>1. ScopedInv => UncontestedScope
  BY DEF ScopedInv, Uncontested
<1> QED
  BY <1>1, ScopedInvariant, PTL
=============================================================================
