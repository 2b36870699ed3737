--------------------------- MODULE OverridesProofs ---------------------------
(***************************************************************************)
(* Theorems about Overrides, for every set of threads and files, and for   *)
(* any number of uploads and overrides.  All but the second and the last   *)
(* hold whatever detection answers: Candidates is expanded only to show    *)
(* what parses, and Keys only to show that there are finitely many.        *)
(***************************************************************************)
EXTENDS Overrides, SequenceTheorems, FiniteSetTheorems, TLAPS

Object == [file : Stored, enabled : BOOLEAN]

\* A sequence with one place changed, if it has that place at all.
LEMMA PlaceChanged ==
  ASSUME NEW S, NEW s \in Seq(S), NEW i, NEW e, i \in 1..Len(s) => e \in S
  PROVE  LET r == [s EXCEPT ![i] = e] IN
         /\ r \in Seq(S) /\ Len(r) = Len(s)
         /\ DOMAIN r = 1..Len(s) /\ DOMAIN s = 1..Len(s)
         /\ \A j \in 1..Len(s) : r[j] = IF j = i THEN e ELSE s[j]
<1>1. CASE i \in 1..Len(s)
  BY <1>1, ExceptSeq
<1>2. CASE i \notin 1..Len(s)
  <2>1. [s EXCEPT ![i] = e] = s
    BY <1>2
  <2>2. DOMAIN s = 1..Len(s)
    BY LenProperties
  <2>. QED
    BY <1>2, <2>1, <2>2
<1>. QED
  BY <1>1, <1>2

\* A thread that is between two steps of a call holds the fields of that call.
LEMMA CallFields ==
  ASSUME TypeOK, NEW t \in Threads, thread[t] # Idle
  PROVE  /\ thread[t] \in Calls
         /\ Doing(t, "assign") =>
              thread[t].id \in Ids /\ thread[t].key \in Keys /\ thread[t].file \in Stored
         /\ Doing(t, "discard") => thread[t].id \in Ids
         /\ Doing(t, "toggle") =>
              thread[t].object \in Objects /\ thread[t].enabled \in BOOLEAN
         /\ Doing(t, "list") => thread[t] \in
              [op : {"list"}, seen : SUBSET Keys, began : SUBSET Keys]
BY DEF TypeOK, Calls, Doing

\* set_override keeps the table and the objects well formed.
LEMMA SetOverrideType ==
  ASSUME TypeOK, NEW key \in Keys, NEW file \in Stored, SetOverride(key, file)
  PROVE  /\ overrides' \in [Keys -> DOMAIN object' \cup {Absent}]
         /\ object' \in Seq(Object)
         /\ Len(object') <= MaxObjects
         /\ Len(object') = Len(object) + 1
         /\ object'[Len(object')] = [file |-> file, enabled |-> TRUE]
         /\ \A o \in DOMAIN object : o \in DOMAIN object' /\ object'[o] = object[o]
<1> DEFINE new == [file |-> file, enabled |-> TRUE]
<1>1. object \in Seq(Object) /\ new \in Object
  BY DEF TypeOK, Object
<1>2. object' = Append(object, new) /\ Len(object) < MaxObjects
  BY DEF SetOverride
<1>. HIDE DEF new
<1>3. /\ object' \in Seq(Object)
      /\ Len(object') = Len(object) + 1
      /\ object'[Len(object) + 1] = new
      /\ \A o \in 1..Len(object) : object'[o] = object[o]
  BY <1>1, <1>2, AppendProperties
<1>4. DOMAIN object = 1..Len(object) /\ DOMAIN object' = 1..Len(object') /\ Len(object) \in Nat
  BY <1>1, <1>3, LenProperties
<1>5. Len(object') <= MaxObjects
  BY <1>2, <1>3, <1>4, BoundAssumption
<1>6. overrides' = [overrides EXCEPT ![key] = Len(object')]
  BY DEF SetOverride
<1>7. overrides' \in [Keys -> DOMAIN object' \cup {Absent}]
  BY <1>3, <1>4, <1>6 DEF TypeOK
<1>. QED
  BY <1>3, <1>4, <1>5, <1>7 DEF new

\* The table holds files that were uploaded, and every call in progress has the
\* fields that its next step reads.
THEOREM TypeCorrect == Spec => []TypeOK
<1>1. Init => TypeOK
  BY BoundAssumption, EmptySeq DEF Init, TypeOK
<1>2. TypeOK /\ [Next]_vars => TypeOK'
  <2> SUFFICES ASSUME TypeOK, [Next]_vars PROVE TypeOK'
    OBVIOUS
  <2>a. ASSUME NEW t \in Threads, NEW c \in Calls \cup {Idle}, Goto(t, c)
        PROVE  thread' \in [Threads -> Calls \cup {Idle}]
    BY <2>a DEF TypeOK, Goto
  <2>b. ASSUME NEW t \in Threads, Done(t)
        PROVE  thread' \in [Threads -> Calls \cup {Idle}]
    BY <2>b DEF TypeOK, Done, Goto
  <2>1. ASSUME NEW file \in Files, PostMatched(file) PROVE TypeOK'
    <3>1. PICK key \in Keys : SetOverride(key, Sanitized(file))
      BY <2>1 DEF PostMatched
    <3>2. Sanitized(file) \in Stored
      BY DEF Stored
    <3>. QED
      BY <2>1, <3>1, <3>2, SetOverrideType DEF PostMatched, TypeOK, Object
  <2>2. ASSUME NEW file \in Files, PostAmbiguous(file) PROVE TypeOK'
    <3>1. Sanitized(file) \in Stored \cup {Absent}
      BY DEF Stored
    <3>2. /\ pending \in Seq(Stored \cup {Absent}) /\ granted \in Seq(Nat)
          /\ Len(granted) = Len(pending) /\ Len(pending) < MaxUploads
      BY <2>2 DEF PostAmbiguous, TypeOK
    <3>3. pending' = Append(pending, Sanitized(file)) /\ granted' = Append(granted, 0)
      BY <2>2 DEF PostAmbiguous
    <3>4. /\ pending' \in Seq(Stored \cup {Absent}) /\ Len(pending') = Len(pending) + 1
          /\ granted' \in Seq(Nat) /\ Len(granted') = Len(granted) + 1
          /\ Len(pending) \in Nat
      BY <3>1, <3>2, <3>3, AppendProperties, LenProperties
    <3>5. Len(pending') <= MaxUploads /\ Len(granted') = Len(pending')
      BY <3>2, <3>4, BoundAssumption
    <3>. QED
      BY <2>2, <3>4, <3>5 DEF PostAmbiguous, TypeOK
  <2>3. ASSUME NEW t \in Threads, NEW id \in DOMAIN pending, NEW key \in Keys,
               FindPending(t, id, key)
        PROVE  TypeOK'
    <3>1. id \in Ids /\ pending[id] \in Stored
      <4>1. /\ pending \in Seq(Stored \cup {Absent}) /\ Len(pending) <= MaxUploads
            /\ pending[id] # Absent
        BY <2>3 DEF TypeOK, FindPending
      <4>2. DOMAIN pending = 1..Len(pending) /\ Len(pending) \in Nat
            /\ pending[id] \in Stored \cup {Absent}
        BY <4>1, LenProperties, ElementOfSeq
      <4>. QED
        BY <4>1, <4>2, BoundAssumption DEF Ids
    <3>2. [op |-> "assign", id |-> id, key |-> key, file |-> pending[id]] \in Calls
      BY <3>1 DEF Calls
    <3>. QED
      BY <2>3, <2>a, <3>2 DEF FindPending, TypeOK
  <2>4. ASSUME NEW t \in Threads, AssignPending(t) PROVE TypeOK'
    <3>1. /\ thread[t].id \in Ids /\ thread[t].key \in Keys
          /\ thread[t].file \in Stored
      BY <2>4, CallFields DEF AssignPending, Doing
    <3>2. [op |-> "discard", id |-> thread[t].id] \in Calls
      BY <3>1 DEF Calls
    <3>. QED
      BY <2>4, <2>a, <3>1, <3>2, SetOverrideType DEF AssignPending, TypeOK, Object
  <2>5. ASSUME NEW t \in Threads, DiscardPending(t) PROVE TypeOK'
    <3>1. /\ pending' \in Seq(Stored \cup {Absent}) /\ Len(pending') = Len(pending)
          /\ granted' \in Seq(Nat) /\ Len(granted') = Len(granted)
      <4>1. pending \in Seq(Stored \cup {Absent}) /\ granted \in Seq(Nat)
        BY DEF TypeOK
      <4> DEFINE id == thread[t].id
                 S == Stored \cup {Absent}
                 e == granted[id] + 1
      <4>2. (id \in 1..Len(granted) => e \in Nat) /\ Absent \in S
        BY <4>1, ElementOfSeq
      <4>3. CASE UNCHANGED <<pending, granted>>
        BY <4>1, <4>3
      <4>4. CASE /\ pending' = [pending EXCEPT ![id] = Absent]
                 /\ granted' = [granted EXCEPT ![id] = e]
        <5>. HIDE DEF id, S, e
        <5>1. pending' \in Seq(S) /\ Len(pending') = Len(pending)
          <6>1. pending \in Seq(S)
            BY <4>1 DEF S
          <6>. QED
            BY <4>2, <4>4, <6>1, PlaceChanged
        <5>2. granted' \in Seq(Nat) /\ Len(granted') = Len(granted)
          BY <4>1, <4>2, <4>4, PlaceChanged
        <5>. QED
          BY <5>1, <5>2 DEF S
      <4>. QED
        BY <2>5, <4>3, <4>4 DEF DiscardPending
    <3>. QED
      BY <2>5, <2>b, <3>1 DEF DiscardPending, TypeOK
  <2>6. ASSUME NEW t \in Threads, NEW key \in Keys, NEW enabled \in BOOLEAN,
               FindOverride(t, key, enabled)
        PROVE  TypeOK'
    <3>1. overrides[key] \in Objects /\ Len(object) \in Objects
      <4>1. /\ overrides[key] \in DOMAIN object /\ object \in Seq(Object)
            /\ Len(object) <= MaxObjects
        BY <2>6 DEF FindOverride, TypeOK, Object
      <4>2. DOMAIN object = 1..Len(object) /\ Len(object) \in Nat
        BY <4>1, LenProperties
      <4>. QED
        BY <4>1, <4>2, BoundAssumption DEF Objects
    <3>2. [op |-> "toggle", key |-> key, object |-> overrides[key],
           enabled |-> enabled, made |-> Len(object)] \in Calls
      BY <3>1 DEF Calls
    <3>. QED
      BY <2>6, <2>a, <3>2 DEF FindOverride, TypeOK
  <2>7. ASSUME NEW t \in Threads, SetEnabled(t) PROVE TypeOK'
    <3>1. thread[t].enabled \in BOOLEAN
      BY <2>7, CallFields DEF SetEnabled, Doing
    <3>2. object' \in Seq(Object) /\ Len(object') = Len(object)
          /\ DOMAIN object' = DOMAIN object
      <4> DEFINE o == thread[t].object
                 e == [object[o] EXCEPT !.enabled = thread[t].enabled]
      <4>1. object \in Seq(Object)
        BY DEF TypeOK, Object
      <4>2. ASSUME o \in 1..Len(object) PROVE e \in Object
        <5>1. object[o] \in Object
          BY <4>1, <4>2, ElementOfSeq
        <5>. QED
          BY <3>1, <5>1 DEF Object
      <4>3. object' = [object EXCEPT ![o] = e]
        BY <2>7 DEF SetEnabled
      <4>. QED
        BY <4>1, <4>2, <4>3, PlaceChanged
    <3>. QED
      BY <2>7, <2>b, <3>2 DEF SetEnabled, TypeOK, Object
  <2>8. ASSUME NEW key \in Keys, DeleteOverride(key) PROVE TypeOK'
    BY <2>8 DEF DeleteOverride, TypeOK
  <2>9. ASSUME NEW t \in Threads, ListOverrides(t) PROVE TypeOK'
    <3>1. [op |-> "list", seen |-> {}, began |-> Listed] \in Calls
      BY DEF Calls, Listed
    <3>. QED
      BY <2>9, <2>a, <3>1 DEF ListOverrides, TypeOK
  <2>10. ASSUME NEW t \in Threads, ListNext(t) PROVE TypeOK'
    <3>1. PICK key \in Listed : Goto(t, [thread[t] EXCEPT !.seen = @ \cup {key}])
      BY <2>10 DEF ListNext
    <3>2. thread[t] \in [op : {"list"}, seen : SUBSET Keys, began : SUBSET Keys]
      BY <2>10, CallFields DEF ListNext, Doing
    <3>3. [thread[t] EXCEPT !.seen = @ \cup {key}] \in Calls
      BY <3>2 DEF Calls, Listed
    <3>. QED
      BY <2>10, <2>a, <3>1, <3>3 DEF ListNext, TypeOK
  <2>11. ASSUME NEW t \in Threads, ListEnd(t) PROVE TypeOK'
    <3>1. thread[t].seen \in SUBSET Keys
      BY <2>11, CallFields DEF ListEnd, Doing
    <3>2. [op |-> "listed", seen |-> thread[t].seen] \in Calls
      BY <3>1 DEF Calls
    <3>. QED
      BY <2>11, <2>a, <3>2 DEF ListEnd, TypeOK
  <2>12. ASSUME NEW t \in Threads, ListFails(t) \/ Respond(t) PROVE TypeOK'
    BY <2>12, <2>b DEF ListFails, Respond, TypeOK
  <2>13. CASE UNCHANGED vars
    BY <2>13 DEF vars, TypeOK
  <2>. QED
    BY <2>1, <2>2, <2>3, <2>4, <2>5, <2>6, <2>7, <2>8, <2>9, <2>10, <2>11, <2>12, <2>13
       DEF Next, ThreadStep
<1>. QED
  BY <1>1, <1>2, PTL DEF Spec

(***************************************************************************)
(* An endpoint is overridden only by files of its own.  A thread that is   *)
(* about to assign a file carries the check it made from one step to the   *)
(* next, and so the invariant speaks of it as well.                        *)
(***************************************************************************)
AssignsCandidate ==
  \A t \in Threads : Doing(t, "assign") => thread[t].key \in Candidates(thread[t].file)

CandidateInv == TypeOK /\ AssignsCandidate /\ StoredIsCandidate

\* A step that leaves the files of the table's objects alone, and adds nothing
\* to the table, keeps the table right.
LEMMA TableShrinks ==
  ASSUME StoredIsCandidate,
         \A k \in Keys : overrides'[k] # Absent =>
           overrides'[k] = overrides[k] /\ object'[overrides[k]].file = object[overrides[k]].file
  PROVE  StoredIsCandidate'
BY DEF StoredIsCandidate, Listed

\* set_override with one of the file's candidates keeps the table right.
LEMMA TableGrows ==
  ASSUME TypeOK, StoredIsCandidate, NEW key \in Keys, NEW file \in Stored,
         key \in Candidates(file), SetOverride(key, file)
  PROVE  StoredIsCandidate'
<1>1. overrides' = [overrides EXCEPT ![key] = Len(object')]
  BY DEF SetOverride
<1>2. /\ object'[Len(object')] = [file |-> file, enabled |-> TRUE]
      /\ \A o \in DOMAIN object : object'[o] = object[o]
  BY SetOverrideType
<1>3. ASSUME NEW k \in Keys, overrides'[k] # Absent
      PROVE  k \in Candidates(object'[overrides'[k]].file)
  <2>1. CASE k = key
    BY <1>1, <1>2, <2>1 DEF TypeOK
  <2>2. CASE k # key
    <3>1. overrides'[k] = overrides[k] /\ overrides[k] \in DOMAIN object
      BY <1>1, <1>3, <2>2 DEF TypeOK
    <3>. QED
      BY <1>2, <1>3, <3>1 DEF StoredIsCandidate, Listed
  <2>. QED
    BY <2>1, <2>2
<1>. QED
  BY <1>3 DEF StoredIsCandidate, Listed

\* No sequence of uploads, resolve calls, toggles and deletions on any threads
\* makes an endpoint answer with a file that detection did not find to be its.
THEOREM CandidatesCorrect == Spec => []StoredIsCandidate
<1>1. Init => AssignsCandidate /\ StoredIsCandidate
  BY DEF Init, AssignsCandidate, StoredIsCandidate, Listed, Doing
<1>2. CandidateInv /\ [Next]_vars => AssignsCandidate' /\ StoredIsCandidate'
  <2> SUFFICES ASSUME CandidateInv, [Next]_vars
               PROVE  AssignsCandidate' /\ StoredIsCandidate'
    OBVIOUS
  <2> USE DEF CandidateInv
  <2>a. ASSUME NEW t \in Threads, NEW c, Goto(t, c),
               c # Idle /\ c.op = "assign" => c.key \in Candidates(c.file)
        PROVE  AssignsCandidate'
    BY <2>a DEF AssignsCandidate, Goto, Doing, TypeOK
  <2>b. ASSUME UNCHANGED thread PROVE AssignsCandidate'
    BY <2>b DEF AssignsCandidate, Doing
  <2>c. ASSUME UNCHANGED <<overrides, object>> PROVE StoredIsCandidate'
    BY <2>c, TableShrinks
  <2>1. ASSUME NEW file \in Files, PostMatched(file)
        PROVE  AssignsCandidate' /\ StoredIsCandidate'
    <3>1. PICK key \in Keys : /\ Candidates(Sanitized(file)) = {key}
                              /\ SetOverride(key, Sanitized(file))
      BY <2>1 DEF PostMatched
    <3>2. Sanitized(file) \in Stored
      BY DEF Stored
    <3>3. StoredIsCandidate'
      BY <3>1, <3>2, TableGrows
    <3>. QED
      BY <2>1, <2>b, <3>3 DEF PostMatched
  <2>2. ASSUME NEW file \in Files, PostAmbiguous(file)
        PROVE  AssignsCandidate' /\ StoredIsCandidate'
    BY <2>2, <2>b, <2>c DEF PostAmbiguous
  <2>3. ASSUME NEW t \in Threads, NEW id \in DOMAIN pending, NEW key \in Keys,
               FindPending(t, id, key)
        PROVE  AssignsCandidate' /\ StoredIsCandidate'
    BY <2>3, <2>a, <2>c DEF FindPending
  <2>4. ASSUME NEW t \in Threads, AssignPending(t)
        PROVE  AssignsCandidate' /\ StoredIsCandidate'
    <3>1. /\ thread[t].key \in Keys /\ thread[t].file \in Stored
          /\ thread[t].key \in Candidates(thread[t].file)
      BY <2>4, CallFields DEF AssignPending, AssignsCandidate, Doing
    <3>2. StoredIsCandidate'
      BY <2>4, <3>1, TableGrows DEF AssignPending
    <3>. QED
      BY <2>4, <2>a, <3>2 DEF AssignPending
  <2>5. ASSUME NEW t \in Threads, DiscardPending(t)
        PROVE  AssignsCandidate' /\ StoredIsCandidate'
    BY <2>5, <2>a, <2>c DEF DiscardPending, Done
  <2>6. ASSUME NEW t \in Threads, NEW key \in Keys, NEW enabled \in BOOLEAN,
               FindOverride(t, key, enabled)
        PROVE  AssignsCandidate' /\ StoredIsCandidate'
    BY <2>6, <2>a, <2>c DEF FindOverride
  <2>7. ASSUME NEW t \in Threads, SetEnabled(t)
        PROVE  AssignsCandidate' /\ StoredIsCandidate'
    <3>1. \A o \in DOMAIN object : object'[o].file = object[o].file
      <4>1. object' = [object EXCEPT ![thread[t].object] =
                         [object[thread[t].object] EXCEPT !.enabled = thread[t].enabled]]
        BY <2>7 DEF SetEnabled
      <4>2. \A o \in DOMAIN object : object[o] \in Object
        BY ElementOfSeq, LenProperties DEF TypeOK, Object
      <4>. QED
        BY <4>1, <4>2 DEF Object
    <3>2. UNCHANGED overrides
      BY <2>7 DEF SetEnabled
    <3>3. \A k \in Keys : overrides[k] \in DOMAIN object \cup {Absent}
      BY DEF TypeOK
    <3>4. StoredIsCandidate'
      BY <3>1, <3>2, <3>3, TableShrinks
    <3>. QED
      BY <2>7, <2>a, <3>4 DEF SetEnabled, Done
  <2>8. ASSUME NEW key \in Keys, DeleteOverride(key)
        PROVE  AssignsCandidate' /\ StoredIsCandidate'
    <3>1. \A k \in Keys : overrides'[k] # Absent =>
            overrides'[k] = overrides[k] /\ object'[overrides[k]].file = object[overrides[k]].file
      BY <2>8 DEF DeleteOverride, TypeOK
    <3>. QED
      BY <2>8, <2>b, <3>1, TableShrinks DEF DeleteOverride
  <2>9. ASSUME NEW t \in Threads, ListOverrides(t) \/ ListNext(t) \/ ListEnd(t)
        PROVE  AssignsCandidate' /\ StoredIsCandidate'
    <3>1. UNCHANGED <<overrides, object>>
      BY <2>9 DEF ListOverrides, ListNext, ListEnd
    <3>2. PICK c : Goto(t, c) /\ c.op # "assign"
      <4>1. CASE ListNext(t)
        <5>1. thread[t] \in [op : {"list"}, seen : SUBSET Keys, began : SUBSET Keys]
          BY <4>1, CallFields DEF ListNext, Doing
        <5>. QED
          BY <4>1, <5>1 DEF ListNext
      <4>. QED
        BY <2>9, <4>1 DEF ListOverrides, ListEnd
    <3>. QED
      BY <2>a, <2>c, <3>1, <3>2
  <2>10. ASSUME NEW t \in Threads, ListFails(t) \/ Respond(t)
        PROVE  AssignsCandidate' /\ StoredIsCandidate'
    BY <2>10, <2>a, <2>c DEF ListFails, Respond, Done
  <2>11. CASE UNCHANGED vars
    BY <2>11, <2>b, <2>c DEF vars
  <2>. QED
    BY <2>1, <2>2, <2>3, <2>4, <2>5, <2>6, <2>7, <2>8, <2>9, <2>10, <2>11
       DEF Next, ThreadStep
<1>. QED
  BY <1>1, <1>2, TypeCorrect, PTL DEF Spec, CandidateInv

(***************************************************************************)
(* What is served parses.  Detection parses a file as it is after it was   *)
(* sanitized, and so its answer says something about a stored file only    *)
(* because sanitizing a file twice is the same as sanitizing it once.      *)
(***************************************************************************)

LEMMA SanitizedOnce ==
  ASSUME NEW file
  PROVE  Sanitized(Sanitized(file)) = Sanitized(file)
<1> DEFINE s == [file EXCEPT !.bare = FALSE]
<1>1. [s EXCEPT !.bare = FALSE] = s
  OBVIOUS
<1>2. Sanitized(file) \in {file, s}
  BY DEF Sanitized
<1>3. Sanitized(s) = s
  BY <1>1 DEF Sanitized
<1>4. Sanitized(file) # s => Sanitized(file) = file
  BY <1>2
<1>. QED
  BY <1>3, <1>4

\* A file with a candidate parses, once it is sanitized.
LEMMA CandidateParses ==
  ASSUME NEW file \in Stored, Candidates(file) # {}
  PROVE  Parses(file)
<1>1. Sanitized(file) = file
  BY SanitizedOnce DEF Stored
<1>2. (file.form = "xml" /\ Parses(file)) \/ file.form = "json"
  BY <1>1 DEF Candidates
<1>. QED
  BY <1>2 DEF Parses

\* A client's parser accepts whatever an endpoint is overridden with, however
\* the file came to be there, and although uploads need not be well formed.
THEOREM ServedFilesParse == Spec => []ServedParses
<1>1. TypeOK /\ StoredIsCandidate => ServedParses
  <2> SUFFICES ASSUME TypeOK, StoredIsCandidate, NEW key \in Listed
               PROVE  Parses(object[overrides[key]].file)
    BY DEF ServedParses
  <2>1. overrides[key] \in DOMAIN object
    BY DEF TypeOK, Listed
  <2>2. object[overrides[key]] \in Object
    BY <2>1, ElementOfSeq, LenProperties DEF TypeOK, Object
  <2>. QED
    BY <2>2, CandidateParses DEF StoredIsCandidate, Object
<1>. QED
  BY <1>1, TypeCorrect, CandidatesCorrect, PTL

(***************************************************************************)
(* An ambiguous upload is granted once: as long as it waits, no resolve    *)
(* call was granted, and the one that takes it away is.                    *)
(***************************************************************************)
WaitingNotGranted ==
  \A id \in DOMAIN granted : pending[id] # Absent => granted[id] = 0

GrantInv == TypeOK /\ WaitingNotGranted /\ ResolvedOnce

\* Of any number of threads that resolve the same upload, however they overlap,
\* at most one is answered that it succeeded.
THEOREM GrantsCorrect == Spec => []ResolvedOnce
<1>1. Init => WaitingNotGranted /\ ResolvedOnce
  BY DEF Init, WaitingNotGranted, ResolvedOnce
<1>2. GrantInv /\ [Next]_vars => WaitingNotGranted' /\ ResolvedOnce'
  <2> SUFFICES ASSUME GrantInv, [Next]_vars
               PROVE  WaitingNotGranted' /\ ResolvedOnce'
    OBVIOUS
  <2> USE DEF GrantInv
  <2>a. ASSUME UNCHANGED <<pending, granted>>
        PROVE  WaitingNotGranted' /\ ResolvedOnce'
    BY <2>a DEF WaitingNotGranted, ResolvedOnce
  <2>b. /\ pending \in Seq(Stored \cup {Absent}) /\ granted \in Seq(Nat)
        /\ Len(pending) = Len(granted)
    BY DEF TypeOK
  <2>c. DOMAIN pending = DOMAIN granted
    BY <2>b, LenProperties
  <2>1. ASSUME NEW file \in Files, PostAmbiguous(file)
        PROVE  WaitingNotGranted' /\ ResolvedOnce'
    <3>1. /\ pending' = Append(pending, Sanitized(file))
          /\ granted' = Append(granted, 0)
      BY <2>1 DEF PostAmbiguous
    <3>2. DOMAIN granted' = 1..Len(granted) + 1 /\ DOMAIN granted = 1..Len(granted)
          /\ Len(granted) \in Nat
      BY <2>b, <3>1, AppendProperties, LenProperties
    <3>3. ASSUME NEW id \in 1..Len(granted)
          PROVE  granted'[id] = granted[id] /\ pending'[id] = pending[id]
      BY <2>b, <3>1, AppendProperties, Sanitized(file) \in Stored DEF Stored
    <3>4. granted'[Len(granted) + 1] = 0
      BY <2>b, <3>1, AppendProperties
    <3>. QED
      BY <3>2, <3>3, <3>4 DEF WaitingNotGranted, ResolvedOnce
  <2>2. ASSUME NEW t \in Threads, DiscardPending(t)
        PROVE  WaitingNotGranted' /\ ResolvedOnce'
    <3> DEFINE id == thread[t].id
    <3>1. CASE pending[id] = Absent
      BY <2>2, <2>a, <3>1 DEF DiscardPending
    <3>2. CASE pending[id] # Absent
      <4>1. /\ pending' = [pending EXCEPT ![id] = Absent]
            /\ granted' = [granted EXCEPT ![id] = @ + 1]
        BY <2>2, <3>2 DEF DiscardPending
      <4>2. DOMAIN granted' = DOMAIN granted
        BY <4>1
      <4>3. ASSUME NEW j \in DOMAIN granted, j # id
            PROVE  granted'[j] = granted[j] /\ pending'[j] = pending[j]
        BY <2>c, <4>1, <4>3
      <4>4. ASSUME id \in DOMAIN granted
            PROVE  granted'[id] = 1 /\ pending'[id] = Absent
        BY <2>c, <3>2, <4>1, <4>4 DEF WaitingNotGranted
      <4>. QED
        BY <4>2, <4>3, <4>4 DEF WaitingNotGranted, ResolvedOnce
    <3>. QED
      BY <3>1, <3>2
  <2>3. ASSUME NEW file \in Files, PostMatched(file)
        PROVE  WaitingNotGranted' /\ ResolvedOnce'
    BY <2>3, <2>a DEF PostMatched
  <2>4. ASSUME NEW key \in Keys, DeleteOverride(key)
        PROVE  WaitingNotGranted' /\ ResolvedOnce'
    BY <2>4, <2>a DEF DeleteOverride
  <2>5. ASSUME NEW t \in Threads, ThreadStep(t), ~DiscardPending(t)
        PROVE  WaitingNotGranted' /\ ResolvedOnce'
    BY <2>5, <2>a DEF ThreadStep, FindPending, AssignPending, FindOverride, SetEnabled,
                      ListOverrides, ListNext, ListEnd, ListFails, Respond
  <2>6. CASE UNCHANGED vars
    BY <2>6, <2>a DEF vars
  <2>. QED
    BY <2>1, <2>2, <2>3, <2>4, <2>5, <2>6 DEF Next
<1>. QED
  BY <1>1, <1>2, TypeCorrect, PTL DEF Spec, GrantInv

(***************************************************************************)
(* A call to enable or disable an override acts on the object it looked    *)
(* up, and that object is not younger than the call.                       *)
(***************************************************************************)
TogglesOlder ==
  \A t \in Threads : Doing(t, "toggle") => thread[t].object <= thread[t].made

\* Whichever calls to disable overrides are in progress when a file is uploaded
\* or assigned, it is enabled until a later call disables it.
THEOREM NewOnesStayEnabled == Spec => NewStaysEnabled
<1>1. Init => TogglesOlder
  BY DEF Init, TogglesOlder, Doing
<1>2. TypeOK /\ TogglesOlder /\ [Next]_vars => TogglesOlder'
  <2> SUFFICES ASSUME TypeOK, TogglesOlder, [Next]_vars PROVE TogglesOlder'
    OBVIOUS
  <2>a. ASSUME NEW t \in Threads, NEW c, Goto(t, c),
               c # Idle /\ c.op = "toggle" => c.object <= c.made
        PROVE  TogglesOlder'
    BY <2>a DEF TogglesOlder, Goto, Doing, TypeOK
  <2>b. ASSUME UNCHANGED thread PROVE TogglesOlder'
    BY <2>b DEF TogglesOlder, Doing
  <2>1. ASSUME NEW file \in Files, PostMatched(file) \/ PostAmbiguous(file)
        PROVE  TogglesOlder'
    BY <2>1, <2>b DEF PostMatched, PostAmbiguous
  <2>2. ASSUME NEW key \in Keys, DeleteOverride(key) PROVE TogglesOlder'
    BY <2>2, <2>b DEF DeleteOverride
  <2>3. ASSUME NEW t \in Threads, NEW key \in Keys, NEW enabled \in BOOLEAN,
               FindOverride(t, key, enabled)
        PROVE  TogglesOlder'
    <3>1. overrides[key] <= Len(object)
      <4>1. overrides[key] \in DOMAIN object /\ object \in Seq(Object)
        BY <2>3 DEF FindOverride, TypeOK, Object
      <4>. QED
        BY <4>1, LenProperties
    <3>. QED
      BY <2>3, <2>a, <3>1 DEF FindOverride
  <2>4. ASSUME NEW t \in Threads, NEW id, NEW key, FindPending(t, id, key)
        PROVE  TogglesOlder'
    BY <2>4, <2>a DEF FindPending
  <2>5. ASSUME NEW t \in Threads, ListNext(t) PROVE TogglesOlder'
    <3>1. thread[t] \in [op : {"list"}, seen : SUBSET Keys, began : SUBSET Keys]
      BY <2>5, CallFields DEF ListNext, Doing
    <3>. QED
      BY <2>5, <2>a, <3>1 DEF ListNext
  <2>6. ASSUME NEW t \in Threads,
               \/ AssignPending(t) \/ ListOverrides(t) \/ ListEnd(t)
               \/ DiscardPending(t) \/ SetEnabled(t) \/ ListFails(t) \/ Respond(t)
        PROVE  TogglesOlder'
    BY <2>6, <2>a DEF AssignPending, ListOverrides, ListEnd, DiscardPending, SetEnabled,
                      ListFails, Respond, Done
  <2>7. CASE UNCHANGED vars
    BY <2>7, <2>b DEF vars
  <2>. QED
    BY <2>1, <2>2, <2>3, <2>4, <2>5, <2>6, <2>7 DEF Next, ThreadStep
<1> DEFINE Disables(o) == object[o].enabled /\ ~object'[o].enabled
           Called(o) == \E t \in Threads :
                          Doing(t, "toggle") /\ thread'[t] = Idle /\ thread[t].made >= o
<1>3. TypeOK /\ TogglesOlder /\ [Next]_vars =>
        [\A o \in DOMAIN object : Disables(o) => Called(o)]_vars
  <2> SUFFICES ASSUME TypeOK, TogglesOlder, Next, NEW o \in DOMAIN object, Disables(o)
               PROVE  Called(o)
    OBVIOUS
  <2>1. ASSUME NEW key \in Keys, NEW file \in Stored, SetOverride(key, file)
        PROVE  FALSE
    BY <2>1, SetOverrideType
  <2>2. object' # object
    OBVIOUS
  <2>3. \A file \in Files : ~PostMatched(file)
    BY <2>1 DEF PostMatched, Stored
  <2>4. \A t \in Threads : ~AssignPending(t)
    BY <2>1, CallFields DEF AssignPending, Doing
  <2>5. PICK t \in Threads : SetEnabled(t)
    BY <2>2, <2>3, <2>4 DEF Next, ThreadStep, PostAmbiguous, DeleteOverride, FindPending,
       DiscardPending, FindOverride, ListOverrides, ListNext, ListEnd, ListFails, Respond
  <2>6. thread[t].object = o
    BY <2>5 DEF SetEnabled
  <2>7. Doing(t, "toggle") /\ thread'[t] = Idle
    BY <2>5 DEF SetEnabled, Done, Goto, TypeOK
  <2>8. thread[t].made >= o
    <3>1. thread[t].object \in Objects /\ thread[t].made \in Objects
      BY <2>7 DEF TypeOK, Calls, Doing
    <3>. QED
      BY <2>6, <2>7, <3>1 DEF TogglesOlder, Objects
  <2>. QED
    BY <2>7, <2>8
<1>. QED
  BY <1>1, <1>2, <1>3, TypeCorrect, PTL DEF Spec, NewStaysEnabled

(***************************************************************************)
(* A listing yields a key at a time, and never more than it began with.    *)
(* When it ends undisturbed there are as many keys as it began with, all   *)
(* of which it has seen, and so there is none that it has seen besides.    *)
(***************************************************************************)

\* The listing of one call.
ListingSound(call) ==
  /\ IsFiniteSet(call.seen) /\ Cardinality(call.began) \in Nat
  /\ Cardinality(call.seen) <= Cardinality(call.began)

ListingsSound == \A t \in Threads : Doing(t, "list") => ListingSound(thread[t])

\* A set of six is finite.
LEMMA SixFinite ==
  ASSUME NEW a, NEW b, NEW c, NEW d, NEW e, NEW f
  PROVE  IsFiniteSet({a, b, c, d, e, f})
<1> DEFINE X == {a} \cup {b} \cup {c}
           Y == {d} \cup {e} \cup {f}
<1>1. IsFiniteSet(X) /\ IsFiniteSet(Y)
  BY FS_Singleton, FS_AddElement
<1>2. {a, b, c, d, e, f} = X \cup Y
  OBVIOUS
<1>. HIDE DEF X, Y
<1>3. IsFiniteSet(X \cup Y)
  BY <1>1, FS_Union
<1>. QED
  BY <1>2, <1>3

\* Detection knows finitely many endpoints.
LEMMA KeysFinite == IsFiniteSet(Keys)
<1> DEFINE
  Small == {"diagnostics.echo", "master_data.clients", "master_data.addressees",
            "master_data.banks", "dms.domains", "dms.documents"}
  Ledger == {"accounting.clients", "accounting.fiscal_years", "accounting.cost_systems",
             "accounting.cost_centers", "accounting.general_ledger_accounts",
             "accounting.terms_of_payment"}
  Partners == {"accounting.creditors", "accounting.debitors", "accounting.accounts_payable",
               "accounting.accounts_payable_condense",
               "accounting.accounts_receivable_condense",
               "accounting.accounting_sequences_processed"}
  Rest == {"accounting.accounting_transaction_keys", "accounting.assets_stocktakings",
           "accounting.posting_proposal_rules_incoming",
           "accounting.posting_proposal_rules_outgoing"}
  All == (Small \cup Ledger) \cup (Partners \cup Rest)
<1>1. IsFiniteSet(Small) /\ IsFiniteSet(Ledger) /\ IsFiniteSet(Partners)
  BY SixFinite
<1>2. ASSUME NEW a, NEW b, NEW c, NEW d PROVE IsFiniteSet({a, b, c, d})
  <2>1. IsFiniteSet({a, b, c, d, d, d})
    BY SixFinite
  <2>2. {a, b, c, d, d, d} = {a, b, c, d}
    OBVIOUS
  <2>. QED
    BY <2>1, <2>2, Zenon
<1>3. IsFiniteSet(Rest)
  BY <1>2
<1>4. IsFiniteSet(All)
  <2>. HIDE DEF Small, Ledger, Partners, Rest
  <2>. QED
    BY <1>1, <1>3, FS_Union
<1>5. \A r \in DOMAIN RootEndpoints : RootEndpoints[r] \subseteq All
  BY DEF RootEndpoints
<1>6. \A g \in Fingerprints : g.keys \subseteq All
  BY DEF Fingerprints, Fingerprint
<1>7. Keys \subseteq All
  <2>. HIDE DEF All
  <2>1. UNION {RootEndpoints[r] : r \in DOMAIN RootEndpoints} \subseteq All
    <3>1. SUFFICES ASSUME NEW k \in UNION {RootEndpoints[r] : r \in DOMAIN RootEndpoints}
                   PROVE  k \in All
      OBVIOUS
    <3>2. PICK r \in DOMAIN RootEndpoints : k \in RootEndpoints[r]
      OBVIOUS
    <3>. QED
      BY <1>5, <3>2
  <2>2. UNION {g.keys : g \in Fingerprints} \subseteq All
    BY <1>6
  <2>. QED
    BY <2>1, <2>2 DEF Keys
<1>. QED
  BY <1>4, <1>7, FS_Subset

\* Adding a key to a listing that is not disturbed and has one to add.
LEMMA OneMoreSeen ==
  ASSUME NEW call, ListingSound(call), NEW key \in Listed \ call.seen,
         Cardinality(call.seen) # Cardinality(call.began)
  PROVE  /\ IsFiniteSet(call.seen \cup {key})
         /\ Cardinality(call.seen \cup {key}) <= Cardinality(call.began)
<1>1. Cardinality(call.seen) \in Nat
  BY FS_CardinalityType DEF ListingSound
<1>2. Cardinality(call.seen \cup {key}) = Cardinality(call.seen) + 1
      /\ IsFiniteSet(call.seen \cup {key})
  BY FS_AddElement DEF ListingSound
<1>. QED
  BY <1>1, <1>2 DEF ListingSound

\* Whatever was uploaded and deleted while a listing was made, one that is
\* answered shows the overrides there are at that moment.
THEOREM ListingsAreExact == Spec => ListingIsExact
<1>1. Init => ListingsSound
  BY DEF Init, ListingsSound, Doing
<1>2. TypeOK /\ ListingsSound /\ [Next]_vars => ListingsSound'
  <2> SUFFICES ASSUME TypeOK, ListingsSound, [Next]_vars PROVE ListingsSound'
    OBVIOUS
  <2>a. ASSUME NEW t \in Threads, NEW c, Goto(t, c),
               c # Idle /\ c.op = "list" => ListingSound(c)
        PROVE  ListingsSound'
    BY <2>a DEF ListingsSound, ListingSound, Goto, Doing, TypeOK
  <2>b. ASSUME UNCHANGED thread PROVE ListingsSound'
    BY <2>b DEF ListingsSound, ListingSound, Doing
  <2>1. ASSUME NEW t \in Threads, ListOverrides(t) PROVE ListingsSound'
    <3>1. ListingSound([op |-> "list", seen |-> {}, began |-> Listed])
      <4>1. IsFiniteSet(Listed)
        BY KeysFinite, FS_Subset DEF Listed
      <4>2. Cardinality(Listed) \in Nat
        BY <4>1, FS_CardinalityType
      <4>3. Cardinality({}) = 0 /\ IsFiniteSet({})
        BY FS_EmptySet
      <4>. QED
        BY <4>2, <4>3 DEF ListingSound
    <3>. QED
      BY <2>1, <2>a, <3>1 DEF ListOverrides
  <2>2. ASSUME NEW t \in Threads, ListNext(t) PROVE ListingsSound'
    <3> DEFINE c == thread[t]
    <3>1. PICK key \in Listed \ c.seen : Goto(t, [c EXCEPT !.seen = @ \cup {key}])
      BY <2>2 DEF ListNext
    <3>2. c \in [op : {"list"}, seen : SUBSET Keys, began : SUBSET Keys]
      BY <2>2, CallFields DEF ListNext, Doing
    <3>3. ListingSound(c) /\ Cardinality(c.seen) # Cardinality(c.began)
      BY <2>2, <3>1 DEF ListNext, Disturbed, ListingsSound
    <3>4. /\ IsFiniteSet(c.seen \cup {key})
          /\ Cardinality(c.seen \cup {key}) <= Cardinality(c.began)
      BY <3>3, OneMoreSeen
    <3>5. ListingSound([c EXCEPT !.seen = @ \cup {key}])
      BY <3>2, <3>3, <3>4 DEF ListingSound
    <3>. QED
      BY <2>a, <3>1, <3>5
  <2>3. ASSUME NEW t \in Threads, NEW id, NEW key, FindPending(t, id, key)
        PROVE  ListingsSound'
    BY <2>3, <2>a DEF FindPending
  <2>4. ASSUME NEW t \in Threads, NEW key, NEW enabled, FindOverride(t, key, enabled)
        PROVE  ListingsSound'
    BY <2>4, <2>a DEF FindOverride
  <2>5. ASSUME NEW t \in Threads,
               \/ AssignPending(t) \/ ListEnd(t) \/ DiscardPending(t)
               \/ SetEnabled(t) \/ ListFails(t) \/ Respond(t)
        PROVE  ListingsSound'
    BY <2>5, <2>a DEF AssignPending, ListEnd, DiscardPending, SetEnabled, ListFails,
                      Respond, Done
  <2>6. ASSUME NEW file \in Files, PostMatched(file) \/ PostAmbiguous(file)
        PROVE  ListingsSound'
    BY <2>6, <2>b DEF PostMatched, PostAmbiguous
  <2>7. ASSUME NEW key \in Keys, DeleteOverride(key) PROVE ListingsSound'
    BY <2>7, <2>b DEF DeleteOverride
  <2>8. CASE UNCHANGED vars
    BY <2>8, <2>b DEF vars
  <2>. QED
    BY <2>1, <2>2, <2>3, <2>4, <2>5, <2>6, <2>7, <2>8 DEF Next, ThreadStep
<1> DEFINE Answers(t) == Doing(t, "list") /\ thread'[t] # Idle /\ thread'[t].op = "listed"
<1>3. TypeOK /\ ListingsSound /\ [Next]_vars =>
        [\A t \in Threads : Answers(t) => thread'[t].seen = Listed]_vars
  <2> SUFFICES ASSUME TypeOK, ListingsSound, Next, NEW t \in Threads, Answers(t)
               PROVE  thread'[t].seen = Listed
    OBVIOUS
  <2>1. ListEnd(t)
    <3>1. ASSUME NEW u \in Threads, NEW c, Goto(u, c) PROVE u = t /\ thread'[t] = c
      BY <3>1 DEF Goto, TypeOK, Doing
    <3>2. thread' # thread
      BY DEF Doing
    <3>3. PICK u \in Threads : ThreadStep(u)
      BY <3>2 DEF Next, PostMatched, PostAmbiguous, DeleteOverride
    <3>4. \A id, key : ~FindPending(u, id, key)
      BY <3>1 DEF FindPending
    <3>5. \A key, enabled : ~FindOverride(u, key, enabled)
      BY <3>1 DEF FindOverride
    <3>6. ~ListNext(u)
      <4> SUFFICES ASSUME ListNext(u) PROVE FALSE
        OBVIOUS
      <4>1. u = t
        BY <3>1 DEF ListNext
      <4>2. thread[t] \in [op : {"list"}, seen : SUBSET Keys, began : SUBSET Keys]
        BY <4>1, CallFields DEF ListNext, Doing
      <4>. QED
        BY <3>1, <4>1, <4>2 DEF ListNext
    <3>7. ~(AssignPending(u) \/ DiscardPending(u) \/ SetEnabled(u) \/ ListOverrides(u)
            \/ ListFails(u) \/ Respond(u))
      BY <3>1 DEF AssignPending, DiscardPending, SetEnabled, ListOverrides, ListFails,
                  Respond, Done
    <3>8. ListEnd(u)
      BY <3>3, <3>4, <3>5, <3>6, <3>7 DEF ThreadStep
    <3>. QED
      BY <3>1, <3>8 DEF ListEnd
  <2> DEFINE seen == thread[t].seen
  <2>2. /\ Cardinality(Listed) = Cardinality(thread[t].began)
        /\ Listed \subseteq seen /\ thread'[t].seen = seen
    BY <2>1 DEF ListEnd, Disturbed, Goto, TypeOK
  <2>3. IsFiniteSet(seen) /\ Cardinality(seen) <= Cardinality(Listed)
    BY <2>2 DEF ListingsSound, ListingSound
  <2>4. Cardinality(Listed) <= Cardinality(seen) /\ IsFiniteSet(Listed)
    BY <2>2, <2>3, FS_Subset
  <2>5. Cardinality(Listed) \in Nat /\ Cardinality(seen) \in Nat
    BY <2>3, <2>4, FS_CardinalityType
  <2>6. Cardinality(seen) = Cardinality(Listed)
    BY <2>3, <2>4, <2>5
  <2>. QED
    BY <2>2, <2>3, <2>6, FS_Subset
<1>. QED
  BY <1>1, <1>2, <1>3, TypeCorrect, PTL DEF Spec, ListingIsExact
=============================================================================
