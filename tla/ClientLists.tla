---------------------------- MODULE ClientLists ----------------------------
(***************************************************************************)
(* The lists of clients that the admin page edits: data_store.py behind    *)
(* the handlers of routers/admin.py.  The master-data clients and the      *)
(* accounting clients are two lists with the same operations, and no call  *)
(* but reset() touches both; this is one of them.                          *)
(*                                                                         *)
(* Handlers run on pool threads and there is no lock.  A loop over the     *)
(* list looks at one place after the other of the list as it is by then,   *)
(* and any other thread may run between two places.  A single append, item *)
(* assignment or slice assignment is one step of the interpreter.          *)
(***************************************************************************)
EXTENDS Naturals, Sequences, FiniteSets

CONSTANTS
  Threads,   \* pool threads
  Fields,    \* the fields a PUT may send, its Id not among them
  Values,    \* what it may send for one
  Fresh,     \* what a field of a new record holds
  Size,      \* how many records are generated
  MaxIds,    \* bounds the ids that are drawn
  MaxCalls,  \* bounds the calls
  Idle       \* a thread that serves no request

ASSUME ListAssumption ==
  /\ Size \in Nat /\ MaxIds \in Nat /\ Size <= MaxIds /\ MaxCalls \in Nat

Changes == [field : Fields, value : Values]
Records == [id : Nat, fields : [Fields -> Values \cup {Fresh}]]

\* What a handler has in hand: where its loop is, and what it has copied or kept.
Calls == [op : {"update", "delete"}, pc : {"scan", "store", "assign"}, at : Nat \ {0}, id : Nat,
          change : Changes \cup {Idle}, kept : Seq(Records)]

ASSUME IdleAssumption == Idle \notin Calls /\ Idle \notin Changes

VARIABLES
  list,     \* _master_data, or _accounting_clients
  drawn,    \* ids drawn so far; an id is its number
  calls,    \* calls so far
  call,     \* what each thread is doing
  crossed,  \* history: the running calls whose places another call has changed
  spoiled   \* history: such a call has changed the list

vars == <<list, drawn, calls, call, crossed, spoiled>>

Record(id) == [id |-> id, fields |-> [f \in Fields |-> Fresh]]

\* The generated records, with the next ids.
Generate(from) == [i \in 1..Size |-> Record(from + i)]

Init ==
  /\ list = Generate(0)
  /\ drawn = Size
  /\ calls = 0
  /\ call = [t \in Threads |-> Idle]
  /\ crossed = {}
  /\ spoiled = FALSE

Doing(t, op, step) == call[t] # Idle /\ call[t].op = op /\ call[t].pc = step

\* The loop of t has places left.
InList(t) == call[t].at <= Len(list)

Arrive(t) ==
  /\ call[t] = Idle
  /\ calls < MaxCalls
  /\ calls' = calls + 1

Begin(t, op, id, change) ==
  /\ Arrive(t)
  /\ call' = [call EXCEPT ![t] =
       [op |-> op, pc |-> "scan", at |-> 1, id |-> id, change |-> change, kept |-> <<>>]]
  /\ crossed' = crossed \ {t}
  /\ UNCHANGED <<list, drawn, spoiled>>

Step(t, next) ==
  /\ call' = [call EXCEPT ![t] = next]
  /\ UNCHANGED <<list, drawn, calls, crossed, spoiled>>

\* The call of t ends without a change.
End(t) ==
  /\ call' = [call EXCEPT ![t] = Idle]
  /\ crossed' = crossed \ {t}
  /\ UNCHANGED <<list, drawn, calls, spoiled>>

Running == {t \in Threads : call[t] # Idle}

\* The last step of t makes the list what it is now.  It crosses these other calls,
\* or all that are running if it was crossed itself.
Change(t, new, others) ==
  /\ list' = new
  /\ call' = [call EXCEPT ![t] = Idle]
  /\ spoiled' = (spoiled \/ t \in crossed)
  /\ crossed' = (crossed \cup (IF t \in crossed THEN Running ELSE others)) \ {t}

\* A variant: the id is the one the client sent, if it sent one.
Add_GivenId(t) ==
  /\ Arrive(t)
  /\ drawn < MaxIds
  /\ drawn' = drawn + 1
  /\ \E id \in 1..drawn + 1 :
       Change(t, Append(list, Record(id)), {d \in Threads : Doing(d, "delete", "assign")})

\* add_master_data: a fresh id, one append.  Whoever has come to the end of the
\* list and goes on to assign what it kept does not have the new record.
Add(t) ==
  /\ Arrive(t)
  /\ drawn < MaxIds
  /\ drawn' = drawn + 1
  /\ Change(t, Append(list, Record(drawn + 1)), {d \in Threads : Doing(d, "delete", "assign")})

StartUpdate(t, id, change) == Begin(t, "update", id, change)

\* dataclasses.replace
Replaced(record, change) == [record EXCEPT !.fields[change.field] = change.value]

\* update_master_data looks at the next place, and copies the record if it is the one.
ScanUpdate(t) ==
  /\ Doing(t, "update", "scan")
  /\ InList(t)
  /\ LET c == call[t]
         record == list[c.at]
     IN  Step(t, IF record.id = c.id
                 THEN [c EXCEPT !.pc = "store", !.kept = <<Replaced(record, c.change)>>]
                 ELSE [c EXCEPT !.at = @ + 1])

\* KeyError, answered with 404
UpdateMissing(t) ==
  /\ Doing(t, "update", "scan")
  /\ ~ InList(t)
  /\ End(t)

\* The copy goes to the place where the record was: another record may be there by
\* now.  Behind the end of the list it is an IndexError, answered with 500.
StoreUpdate(t) ==
  /\ Doing(t, "update", "store")
  /\ \/ /\ InList(t)
        /\ LET at == call[t].at
               stale == {u \in Running \ {t} :
                           \/ Doing(u, "update", "store") /\ call[u].at = at
                           \/ call[u].op = "delete" /\ call[u].at > at}
           IN  Change(t, [list EXCEPT ![at] = call[t].kept[1]], stale)
        /\ UNCHANGED <<drawn, calls>>
     \/ ~ InList(t) /\ End(t)

StartDelete(t, id) == Begin(t, "delete", id, Idle)

\* A variant: records are removed while the list is walked, so that the one after
\* a match is passed over.
ScanDelete_SkipNext(t) ==
  /\ Doing(t, "delete", "scan")
  /\ LET c == call[t]
     IN  Step(t, IF ~ InList(t) THEN [c EXCEPT !.pc = "assign"]
                 ELSE IF list[c.at].id = c.id THEN [c EXCEPT !.at = @ + 2]
                 ELSE [c EXCEPT !.at = @ + 1, !.kept = Append(@, list[c.at])])

\* The comprehension of delete_master_data looks at the next place.
ScanDelete(t) ==
  /\ Doing(t, "delete", "scan")
  /\ LET c == call[t]
     IN  Step(t, IF ~ InList(t) THEN [c EXCEPT !.pc = "assign"]
                 ELSE IF list[c.at].id = c.id THEN [c EXCEPT !.at = @ + 1]
                 ELSE [c EXCEPT !.at = @ + 1, !.kept = Append(@, list[c.at])])

\* _master_data[:] = [...]
AssignDelete(t) ==
  /\ Doing(t, "delete", "assign")
  /\ Change(t, call[t].kept, Running)
  /\ UNCHANGED <<drawn, calls>>

\* reset() makes new records and assigns them; it reads nothing.
Reset(t) ==
  /\ Arrive(t)
  /\ drawn + Size <= MaxIds
  /\ drawn' = drawn + Size
  /\ Change(t, Generate(drawn), Running)

Next ==
  \E t \in Threads :
    \/ Add(t)
    \/ \E id \in 1..MaxIds, change \in Changes : StartUpdate(t, id, change)
    \/ ScanUpdate(t)
    \/ UpdateMissing(t)
    \/ StoreUpdate(t)
    \/ \E id \in 1..MaxIds : StartDelete(t, id)
    \/ ScanDelete(t)
    \/ AssignDelete(t)
    \/ Reset(t)

Spec == Init /\ [][Next]_vars
-----------------------------------------------------------------------------
\* The first place of an id in the list
IsFirst(i, id) == list[i].id = id /\ \A j \in 1..i - 1 : list[j].id # id

Updated(id, change) ==
  [i \in 1..Len(list) |-> IF IsFirst(i, id) THEN Replaced(list[i], change) ELSE list[i]]

\* Of the first n places of a list, these are the records of other ids, in their order.
Rest(seq, n, id, rest) ==
  \E place \in [1..Len(rest) -> 1..n] :
    /\ \A k, l \in 1..Len(rest) : k < l => place[k] < place[l]
    /\ \A k \in 1..Len(rest) : rest[k] = seq[place[k]] /\ seq[place[k]].id # id
    /\ \A i \in 1..n : seq[i].id # id => \E k \in 1..Len(rest) : place[k] = i

Listed(id) == \E i \in 1..Len(list) : list[i].id = id

\* A call that no other one crossed is one step on the list as it is at its end:
\* an update changes one field of one record, a delete takes one record away, and
\* both leave everything else as it is by then, with what was added, and edited at
\* places still to come, since they began.  A 404 means that the record is not there.
UncrossedIsAtomic ==
  [][\A t \in Threads \ crossed :
       /\ StoreUpdate(t) => list' = Updated(call[t].id, call[t].change)
       /\ AssignDelete(t) => Rest(list, Len(list), call[t].id, list')
       /\ UpdateMissing(t) => ~ Listed(call[t].id)]_vars

\* Two records never have one id, unless a call that another one crossed has stored
\* or assigned: then a record may come back, or stand in the list twice.
IdsUnique ==
  spoiled \/ \A i, j \in 1..Len(list) : list[i].id = list[j].id => i = j
=============================================================================
