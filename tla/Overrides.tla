------------------------------ MODULE Overrides ------------------------------
(***************************************************************************)
(* The second half of app/overrides.py and its handlers in                 *)
(* routers/admin.py: the uploaded files that endpoints answer with instead *)
(* of their own data, and the ambiguous uploads that wait until somebody   *)
(* chooses an endpoint for them.                                           *)
(*                                                                         *)
(* Uploads run on the event loop and finish in one step.  All other calls  *)
(* run on the threads of a pool, without a lock; a step of a thread is one *)
(* operation on a dict or on an Override object.  The table refers to its  *)
(* Override objects, and so does a thread that looked one up, even after   *)
(* the table let go of it: objects are numbered as they are made.          *)
(*                                                                         *)
(* A GET of an endpoint only reads, and a call that finds no override, or  *)
(* is answered 400, changes nothing: such calls are not modelled.          *)
(***************************************************************************)
EXTENDS EndpointDetection, Integers, Sequences

CONSTANTS
  Threads,    \* threads that may serve an admin call
  Files,      \* files that may be uploaded
  MaxUploads, \* bound on the ambiguous uploads
  MaxObjects, \* bound on the Override objects made
  Absent,     \* marks an endpoint or a pending id that has no entry
  Idle        \* marks a thread that serves no call

ASSUME BoundAssumption == MaxUploads \in Nat /\ MaxObjects \in Nat

VARIABLES
  overrides, \* _overrides: per endpoint, the number of its object
  object,    \* per object made: its file and whether it is enabled
  pending,   \* _pending: per pending id, the file that waits
  thread,    \* per thread: the call in progress, or Idle
  granted    \* history: how many resolve calls a pending id was granted to

vars == <<overrides, object, pending, thread, granted>>

Ids == 1..MaxUploads
Objects == 1..MaxObjects

\* The files that are stored: what post_override made of those uploaded.
Stored == {Sanitized(file) : file \in Files}

\* Calls between two of their steps, and a listing that is ready to be sent.
\* made is a history: the objects there were when the call arrived.
Calls ==
  [op : {"assign"}, id : Ids, key : Keys, file : Stored]
  \cup [op : {"discard"}, id : Ids]
  \cup [op : {"toggle"}, key : Keys, object : Objects, enabled : BOOLEAN,
        made : Objects]
  \cup [op : {"list"}, seen : SUBSET Keys, began : SUBSET Keys]
  \cup [op : {"listed"}, seen : SUBSET Keys]

TypeOK ==
  /\ overrides \in [Keys -> DOMAIN object \cup {Absent}]
  /\ object \in Seq([file : Stored, enabled : BOOLEAN])
  /\ Len(object) <= MaxObjects
  /\ pending \in Seq(Stored \cup {Absent})
  /\ Len(pending) <= MaxUploads
  /\ granted \in Seq(Nat) /\ Len(granted) = Len(pending)
  /\ thread \in [Threads -> Calls \cup {Idle}]

Init ==
  /\ overrides = [k \in Keys |-> Absent]
  /\ object = <<>>
  /\ pending = <<>>
  /\ thread = [t \in Threads |-> Idle]
  /\ granted = <<>>

Listed == {k \in Keys : overrides[k] # Absent}
Doing(t, op) == thread[t] # Idle /\ thread[t].op = op
Goto(t, call) == thread' = [thread EXCEPT ![t] = call]
Done(t) == Goto(t, Idle)

\* set_override: a new object, enabled, takes the endpoint's place in the table.
SetOverride(key, file) ==
  /\ Len(object) < MaxObjects
  /\ object' = Append(object, [file |-> file, enabled |-> TRUE])
  /\ overrides' = [overrides EXCEPT ![key] = Len(object')]

(***************************************************************************)
(* POST /admin/api/overrides.  A file without candidates is answered 422.  *)
(***************************************************************************)

\* A variant: the document is stored as it came, not as it was repaired.
PostMatched_Raw(file) ==
  /\ \E key \in Keys : Candidates(Sanitized(file)) = {key} /\ SetOverride(key, file)
  /\ UNCHANGED <<pending, thread, granted>>

\* One candidate: the file is served from now on.
PostMatched(file) ==
  LET stored == Sanitized(file) IN
  /\ \E key \in Keys : Candidates(stored) = {key} /\ SetOverride(key, stored)
  /\ UNCHANGED <<pending, thread, granted>>

\* Several candidates: the file waits under a fresh id.
PostAmbiguous(file) ==
  LET stored == Sanitized(file) IN
  /\ Cardinality(Candidates(stored)) > 1
  /\ Len(pending) < MaxUploads
  /\ pending' = Append(pending, stored)
  /\ granted' = Append(granted, 0)
  /\ UNCHANGED <<overrides, object, thread>>

(***************************************************************************)
(* POST /admin/api/overrides/resolve                                       *)
(***************************************************************************)

\* A variant: the endpoint is not checked against the candidates.
FindPending_AnyKey(t, id, key) ==
  /\ thread[t] = Idle
  /\ pending[id] # Absent
  /\ Goto(t, [op |-> "assign", id |-> id, key |-> key, file |-> pending[id]])
  /\ UNCHANGED <<overrides, object, pending, granted>>

\* resolve_pending finds the upload, and the endpoint among its candidates.
\* Candidates that were stored with the upload are those of its file.
FindPending(t, id, key) ==
  /\ thread[t] = Idle
  /\ pending[id] # Absent
  /\ key \in Candidates(pending[id])
  /\ Goto(t, [op |-> "assign", id |-> id, key |-> key, file |-> pending[id]])
  /\ UNCHANGED <<overrides, object, pending, granted>>

AssignPending(t) ==
  /\ Doing(t, "assign")
  /\ SetOverride(thread[t].key, thread[t].file)
  /\ Goto(t, [op |-> "discard", id |-> thread[t].id])
  /\ UNCHANGED <<pending, granted>>

\* A variant: _pending.pop(pending_id, None), which raises nothing.
DiscardPending_Pop(t) ==
  /\ Doing(t, "discard")
  /\ pending' = [pending EXCEPT ![thread[t].id] = Absent]
  /\ granted' = [granted EXCEPT ![thread[t].id] = @ + 1]
  /\ Done(t)
  /\ UNCHANGED <<overrides, object>>

\* del _pending[pending_id]: a KeyError, answered 500, if it is gone by now.
DiscardPending(t) ==
  /\ Doing(t, "discard")
  /\ LET id == thread[t].id IN
     IF pending[id] # Absent
     THEN /\ pending' = [pending EXCEPT ![id] = Absent]
          /\ granted' = [granted EXCEPT ![id] = @ + 1]
     ELSE UNCHANGED <<pending, granted>>
  /\ Done(t)
  /\ UNCHANGED <<overrides, object>>

(***************************************************************************)
(* PUT and DELETE /admin/api/overrides/{key}                               *)
(***************************************************************************)

\* set_enabled looks the object up ...
FindOverride(t, key, enabled) ==
  /\ thread[t] = Idle
  /\ overrides[key] # Absent
  /\ Goto(t, [op |-> "toggle", key |-> key, object |-> overrides[key],
              enabled |-> enabled, made |-> Len(object)])
  /\ UNCHANGED <<overrides, object, pending, granted>>

\* A variant: the flag is set on whatever the table holds under the key by then.
SetEnabled_ByKey(t) ==
  /\ Doing(t, "toggle")
  /\ LET o == overrides[thread[t].key] IN
     object' = IF o = Absent THEN object
               ELSE [object EXCEPT ![o].enabled = thread[t].enabled]
  /\ Done(t)
  /\ UNCHANGED <<overrides, pending, granted>>

\* ... and sets its flag, whether or not it is still in the table.
SetEnabled(t) ==
  /\ Doing(t, "toggle")
  /\ object' = [object EXCEPT ![thread[t].object].enabled = thread[t].enabled]
  /\ Done(t)
  /\ UNCHANGED <<overrides, pending, granted>>

DeleteOverride(key) ==
  /\ overrides[key] # Absent
  /\ overrides' = [overrides EXCEPT ![key] = Absent]
  /\ UNCHANGED <<object, pending, thread, granted>>

(***************************************************************************)
(* GET /admin/api/overrides                                                *)
(***************************************************************************)

\* list_overrides iterates over the table itself.  The iterator remembers how
\* many keys it began with and yields that many, in an order of no matter here.
ListOverrides(t) ==
  /\ thread[t] = Idle
  /\ Listed # {}
  /\ Goto(t, [op |-> "list", seen |-> {}, began |-> Listed])
  /\ UNCHANGED <<overrides, object, pending, granted>>

\* A variant: a weakly consistent iterator, which never raises.
Disturbed_Never(t) == FALSE

\* It raises RuntimeError, answered 500, when the size is another by now, or
\* when there is one key more than it has to yield.
Disturbed(t) ==
  \/ Cardinality(Listed) # Cardinality(thread[t].began)
  \/ /\ Cardinality(thread[t].seen) = Cardinality(thread[t].began)
     /\ ~(Listed \subseteq thread[t].seen)

ListNext(t) ==
  /\ Doing(t, "list")
  /\ ~Disturbed(t)
  /\ \E key \in Listed \ thread[t].seen :
       Goto(t, [thread[t] EXCEPT !.seen = @ \cup {key}])
  /\ UNCHANGED <<overrides, object, pending, granted>>

ListEnd(t) ==
  /\ Doing(t, "list")
  /\ ~Disturbed(t)
  /\ Listed \subseteq thread[t].seen
  /\ Goto(t, [op |-> "listed", seen |-> thread[t].seen])
  /\ UNCHANGED <<overrides, object, pending, granted>>

ListFails(t) ==
  /\ Doing(t, "list")
  /\ Disturbed(t)
  /\ Done(t)
  /\ UNCHANGED <<overrides, object, pending, granted>>

Respond(t) ==
  /\ Doing(t, "listed")
  /\ Done(t)
  /\ UNCHANGED <<overrides, object, pending, granted>>

ThreadStep(t) ==
  \/ \E id \in DOMAIN pending, key \in Keys : FindPending(t, id, key)
  \/ AssignPending(t)
  \/ DiscardPending(t)
  \/ \E key \in Keys, enabled \in BOOLEAN : FindOverride(t, key, enabled)
  \/ SetEnabled(t)
  \/ ListOverrides(t)
  \/ ListNext(t)
  \/ ListEnd(t)
  \/ ListFails(t)
  \/ Respond(t)

Next ==
  \/ \E file \in Files : PostMatched(file) \/ PostAmbiguous(file)
  \/ \E t \in Threads : ThreadStep(t)
  \/ \E key \in Keys : DeleteOverride(key)

Spec == Init /\ [][Next]_vars

(***************************************************************************)
(* Properties                                                              *)
(***************************************************************************)

\* An endpoint is only ever overridden by a file that detection found to be
\* one of that endpoint's, through however many calls the file got there.
StoredIsCandidate ==
  \A key \in Listed : key \in Candidates(object[overrides[key]].file)

\* Whatever an endpoint is overridden with is accepted by a client's parser,
\* although uploads with bare ampersands are.
ServedParses == \A key \in Listed : Parses(object[overrides[key]].file)

\* However many threads resolve one ambiguous upload at the same time, at most
\* one of them is answered that it succeeded.
ResolvedOnce == \A id \in DOMAIN granted : granted[id] <= 1

\* An override is enabled when it is uploaded.  A call that arrived before, to
\* disable the one it replaced, does not reach the new one.
NewStaysEnabled ==
  [][\A o \in DOMAIN object :
       (object[o].enabled /\ ~object'[o].enabled) =>
         \E t \in Threads :
           Doing(t, "toggle") /\ thread'[t] = Idle /\ thread[t].made >= o]_vars

\* A listing that is answered at all is the list of the overrides there are at
\* that moment, with no key lost and none that is gone, whatever was uploaded
\* and deleted while it was made.
ListingIsExact ==
  [][\A t \in Threads :
       (Doing(t, "list") /\ thread'[t] # Idle /\ thread'[t].op = "listed") =>
         thread'[t].seen = Listed]_vars
=============================================================================
