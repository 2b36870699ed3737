------------------------- MODULE ClientListsProofs -------------------------
(***************************************************************************)
(* Theorems about ClientLists, for any number of threads, fields, records  *)
(* and calls: the type invariant, IdsUnique, and that a call which no      *)
(* other one crossed is one step on the list (UncrossedIsAtomic).          *)
(***************************************************************************)
EXTENDS ClientLists, SequenceTheorems, TLAPS

Busy(t) == call[t] # Idle

\* The type invariant.
TypeOK ==
  /\ list \in Seq(Records)
  /\ drawn \in Nat
  /\ calls \in Nat
  /\ call \in [Threads -> Calls \cup {Idle}]
  /\ crossed \subseteq Threads
  /\ spoiled \in BOOLEAN

\* Only an update stores one copy, and only a delete assigns what it kept.
PhasesOK ==
  \A t \in Threads : Busy(t) =>
    /\ call[t].pc = "store" => call[t].op = "update" /\ Len(call[t].kept) = 1
    /\ call[t].pc = "assign" => call[t].op = "delete"
    /\ call[t].op = "update" => call[t].change \in Changes

IdsBelow(seq, bound) == \A i \in 1..Len(seq) : seq[i].id <= bound
Distinct(seq) == \A i, j \in 1..Len(seq) : seq[i].id = seq[j].id => i = j

\* An id that is in the list, or that a thread has kept, was drawn before.
Drawn ==
  /\ IdsBelow(list, drawn)
  /\ \A t \in Threads : Busy(t) => IdsBelow(call[t].kept, drawn)

\* What a delete has kept are different records of the part of the list behind it, and
\* what an update is about to store has the id of the record it will replace.
DeleteSound(c, seq) ==
  c.op = "delete" =>
    /\ Distinct(c.kept)
    /\ \A k \in 1..Len(c.kept) :
         \E j \in 1..Len(seq) : j < c.at /\ seq[j].id = c.kept[k].id
UpdateSound(c, seq) ==
  c.pc = "store" => c.at \in 1..Len(seq) /\ seq[c.at].id = c.kept[1].id
Sound(c, seq) == DeleteSound(c, seq) /\ UpdateSound(c, seq)

\* Nobody crosses a call without its being recorded.
CallsSound ==
  spoiled \/ \A t \in Threads \ crossed : Busy(t) => Sound(call[t], list)

IInv == TypeOK /\ PhasesOK /\ Drawn /\ IdsUnique /\ CallsSound
-----------------------------------------------------------------------------
(***************************************************************************)
(* Sequences of records                                                    *)
(***************************************************************************)

LEMMA CallFields ==
  ASSUME TypeOK, NEW t \in Threads, Busy(t)
  PROVE  /\ call[t] \in Calls
         /\ call[t].at \in Nat \ {0}
         /\ call[t].id \in Nat
         /\ call[t].kept \in Seq(Records)
  BY DEF TypeOK, Busy, Calls

\* The records that are generated have the next ids, each its own.
LEMMA GenerateRecords ==
  ASSUME NEW from \in Nat
  PROVE  /\ Generate(from) \in Seq(Records)
         /\ Len(Generate(from)) = Size
         /\ Distinct(Generate(from))
         /\ IdsBelow(Generate(from), from + Size)
<1>0. Size \in Nat
  BY ListAssumption
<1>1. \A i \in 1..Size : Record(from + i) \in Records /\ Record(from + i).id = from + i
  BY <1>0 DEF Record, Records
<1>2. Generate(from) \in [1..Size -> Records]
  BY <1>1 DEF Generate
<1>3. Generate(from) \in Seq(Records)
  BY <1>0, <1>2, SeqDef
<1>4. Len(Generate(from)) = Size
  BY <1>0, <1>2, <1>3, LenProperties
<1>5. \A i \in 1..Size : Generate(from)[i].id = from + i
  BY <1>1 DEF Generate
<1> QED
  BY <1>0, <1>3, <1>4, <1>5 DEF Distinct, IdsBelow

LEMMA RecordsOfSeq ==
  ASSUME NEW seq \in Seq(Records)
  PROVE  /\ Len(seq) \in Nat
         /\ \A i \in 1..Len(seq) : seq[i] \in Records /\ seq[i].id \in Nat
<1>1. ASSUME NEW i \in 1..Len(seq) PROVE seq[i] \in Records
  BY ElementOfSeq
<1>2. \A record \in Records : record.id \in Nat
  BY DEF Records
<1> QED
  BY <1>1, <1>2, LenProperties

LEMMA AppendRecord ==
  ASSUME NEW seq \in Seq(Records), NEW record \in Records
  PROVE  /\ Append(seq, record) \in Seq(Records)
         /\ Len(Append(seq, record)) = Len(seq) + 1
         /\ \A i \in 1..Len(seq) : Append(seq, record)[i] = seq[i]
         /\ Append(seq, record)[Len(seq) + 1] = record
  BY AppendProperties

\* A record of another id can be appended.
LEMMA AppendOther ==
  ASSUME NEW seq \in Seq(Records), NEW record \in Records, Distinct(seq),
         \A i \in 1..Len(seq) : seq[i].id # record.id
  PROVE  Distinct(Append(seq, record))
<1> DEFINE longer == Append(seq, record)
<1>1. /\ Len(longer) = Len(seq) + 1
      /\ \A i \in 1..Len(seq) : longer[i] = seq[i]
      /\ longer[Len(seq) + 1] = record
  BY AppendRecord
<1>2. Len(seq) \in Nat
  BY LenProperties
<1> HIDE DEF longer
<1>3. SUFFICES ASSUME NEW i \in 1..Len(longer), NEW j \in 1..Len(longer),
                      longer[i].id = longer[j].id
               PROVE  i = j
  BY DEF Distinct, longer
<1>4. CASE i = Len(seq) + 1 \/ j = Len(seq) + 1
  BY <1>1, <1>2, <1>3, <1>4
<1>5. CASE i \in 1..Len(seq) /\ j \in 1..Len(seq)
  BY <1>1, <1>3, <1>5 DEF Distinct
<1> QED
  BY <1>1, <1>2, <1>4, <1>5

LEMMA AppendBelow ==
  ASSUME NEW seq \in Seq(Records), NEW record \in Records, NEW bound \in Nat,
         IdsBelow(seq, bound), record.id <= bound
  PROVE  IdsBelow(Append(seq, record), bound)
<1> DEFINE longer == Append(seq, record)
<1>1. /\ Len(longer) = Len(seq) + 1
      /\ \A i \in 1..Len(seq) : longer[i] = seq[i]
      /\ longer[Len(seq) + 1] = record
  BY AppendRecord
<1>2. Len(seq) \in Nat
  BY LenProperties
<1> HIDE DEF longer
<1>3. SUFFICES ASSUME NEW i \in 1..Len(longer)
               PROVE  longer[i].id <= bound
  BY DEF IdsBelow, longer
<1>4. CASE i = Len(seq) + 1
  BY <1>1, <1>4
<1>5. CASE i \in 1..Len(seq)
  BY <1>1, <1>5 DEF IdsBelow
<1> QED
  BY <1>1, <1>2, <1>4, <1>5

\* A longer list with the same beginning leaves sound what was sound.
LEMMA SoundInLonger ==
  ASSUME NEW c \in Calls, NEW seq \in Seq(Records), NEW longer \in Seq(Records),
         Len(seq) <= Len(longer), \A i \in 1..Len(seq) : longer[i].id = seq[i].id,
         Sound(c, seq)
  PROVE  Sound(c, longer)
<1>1. Len(seq) \in Nat /\ Len(longer) \in Nat
  BY LenProperties
<1>2. \A i \in 1..Len(seq) : i \in 1..Len(longer)
  BY <1>1
<1>3. DeleteSound(c, longer)
  BY <1>2 DEF Sound, DeleteSound
<1>4. UpdateSound(c, longer)
  BY <1>2 DEF Sound, UpdateSound
<1> QED
  BY <1>3, <1>4 DEF Sound
-----------------------------------------------------------------------------
(***************************************************************************)
(* The steps                                                               *)
(***************************************************************************)

LEMMA InitHolds == Init => IInv
<1> SUFFICES ASSUME Init PROVE IInv
  OBVIOUS
<1>1. list = Generate(0) /\ drawn = Size /\ Size \in Nat
  BY ListAssumption DEF Init
<1>2. /\ list \in Seq(Records)
      /\ Distinct(list)
      /\ IdsBelow(list, drawn)
  BY <1>1, GenerateRecords
<1>3. \A t \in Threads : ~ Busy(t)
  BY DEF Init, Busy
<1>4. TypeOK
  BY <1>1, <1>2 DEF Init, TypeOK
<1> QED
  BY <1>2, <1>3, <1>4 DEF IInv, PhasesOK, Drawn, IdsUnique, Distinct, CallsSound

\* A step that only moves the call of one thread.
LEMMA MoveHolds ==
  ASSUME IInv, NEW t \in Threads, NEW next \in Calls \cup {Idle},
         UNCHANGED <<list, drawn, spoiled>>, calls' \in Nat, crossed' \subseteq crossed,
         crossed' \in {crossed, crossed \ {t}},
         call' = [call EXCEPT ![t] = next],
         next # Idle =>
           /\ next.pc = "store" => next.op = "update" /\ Len(next.kept) = 1
           /\ next.pc = "assign" => next.op = "delete"
           /\ next.op = "update" => next.change \in Changes
           /\ IdsBelow(next.kept, drawn)
           /\ ~ spoiled /\ t \notin crossed' => Sound(next, list)
  PROVE  IInv'
<1>1. call'[t] = next /\ \A u \in Threads \ {t} : call'[u] = call[u]
  BY DEF IInv, TypeOK
<1>2. TypeOK'
  BY DEF IInv, TypeOK
<1>3. PhasesOK'
  BY <1>1 DEF IInv, PhasesOK, Busy
<1>4. Drawn'
  BY <1>1 DEF IInv, Drawn, Busy, IdsBelow
<1>5. IdsUnique'
  BY DEF IInv, IdsUnique
<1>6. CallsSound'
  <2> SUFFICES ASSUME ~ spoiled, NEW u \in Threads, u \notin crossed', call'[u] # Idle
               PROVE  Sound(call'[u], list)
    BY DEF CallsSound, Busy, Sound, DeleteSound, UpdateSound, Distinct
  <2>1. CASE u = t
    BY <1>1, <2>1
  <2>2. CASE u # t
    <3>1. u \notin crossed /\ call'[u] = call[u] /\ Busy(u)
      BY <1>1, <2>2 DEF Busy
    <3> QED
      BY <3>1 DEF IInv, CallsSound
  <2> QED
    BY <2>1, <2>2
<1> QED
  BY <1>2, <1>3, <1>4, <1>5, <1>6 DEF IInv

\* A step that changes the list: whoever it does not cross must still be sound.
LEMMA ChangeHolds ==
  ASSUME IInv, NEW t \in Threads, NEW new \in Seq(Records), NEW others \in SUBSET Threads,
         Change(t, new, others),
         drawn' \in Nat, drawn <= drawn', calls' \in Nat, IdsBelow(new, drawn'),
         ~ spoiled /\ t \notin crossed =>
           /\ Distinct(new)
           /\ \A u \in Threads \ (crossed \cup others \cup {t}) :
                Busy(u) => Sound(call[u], new)
  PROVE  IInv'
<1>1. list' = new /\ call' = [call EXCEPT ![t] = Idle] /\ spoiled' = (spoiled \/ t \in crossed)
  BY DEF Change
<1>2. call'[t] = Idle /\ \A u \in Threads \ {t} : call'[u] = call[u]
  BY <1>1 DEF IInv, TypeOK
<1>3. t \notin crossed => crossed' = (crossed \cup others) \ {t}
  BY DEF Change
<1>4. TypeOK'
  <2>1. crossed' \subseteq Threads
    BY DEF Change, Running, IInv, TypeOK
  <2> QED
    BY <1>1, <2>1 DEF IInv, TypeOK
<1>5. PhasesOK'
  BY <1>2 DEF IInv, PhasesOK, Busy
<1>6. Drawn'
  <2>1. ASSUME NEW u \in Threads, call'[u] # Idle
        PROVE  IdsBelow(call'[u].kept, drawn')
    <3>1. call'[u] = call[u] /\ Busy(u)
      BY <1>2, <2>1 DEF Busy
    <3>2. IdsBelow(call[u].kept, drawn)
      BY <3>1 DEF IInv, Drawn
    <3>3. call[u].kept \in Seq(Records)
      BY <3>1, CallFields DEF IInv
    <3>4. \A i \in 1..Len(call[u].kept) : call[u].kept[i].id \in Nat
      BY <3>3, RecordsOfSeq
    <3> QED
      BY <3>1, <3>2, <3>4 DEF IdsBelow, IInv, TypeOK
  <2> QED
    BY <1>1, <2>1 DEF Drawn, Busy, IdsBelow
<1>7. IdsUnique'
  BY <1>1 DEF IInv, IdsUnique, Distinct
<1>8. CallsSound'
  <2> SUFFICES ASSUME ~ spoiled', NEW u \in Threads, u \notin crossed', call'[u] # Idle
               PROVE  Sound(call'[u], list')
    BY DEF CallsSound, Busy, Sound, DeleteSound, UpdateSound, Distinct
  <2>1. u # t /\ call'[u] = call[u] /\ Busy(u)
    BY <1>2 DEF Busy
  <2>2. ~ spoiled /\ t \notin crossed
    BY <1>1 DEF IInv, TypeOK
  <2>3. u \notin crossed \cup others \cup {t}
    BY <1>3, <2>1, <2>2
  <2> QED
    BY <1>1, <2>1, <2>2, <2>3
<1> QED
  BY <1>4, <1>5, <1>6, <1>7, <1>8 DEF IInv

LEMMA AddHolds ==
  ASSUME IInv, NEW t \in Threads, Add(t)
  PROVE  IInv'
<1> DEFINE new == Append(list, Record(drawn + 1))
           others == {d \in Threads : Doing(d, "delete", "assign")}
<1>1. /\ Change(t, new, others)
      /\ drawn' = drawn + 1 /\ drawn \in Nat /\ drawn' \in Nat /\ calls' \in Nat
  BY DEF Add, Arrive, IInv, TypeOK
<1>2. Record(drawn + 1) \in Records /\ Record(drawn + 1).id = drawn + 1
  BY <1>1 DEF Record, Records
<1>3. list \in Seq(Records) /\ Len(list) \in Nat
  BY LenProperties DEF IInv, TypeOK
<1>4. /\ new \in Seq(Records)
      /\ Len(new) = Len(list) + 1
      /\ \A i \in 1..Len(list) : new[i] = list[i]
      /\ new[Len(list) + 1].id = drawn + 1
  BY <1>2, <1>3, AppendRecord
<1>5. \A i \in 1..Len(list) : list[i].id \in Nat /\ list[i].id <= drawn
  BY <1>3, RecordsOfSeq DEF IInv, Drawn, IdsBelow
<1>6. IdsBelow(new, drawn')
  BY <1>1, <1>2, <1>3, <1>5, AppendBelow DEF IdsBelow
<1>7. ASSUME ~ spoiled PROVE Distinct(new)
  <2>1. Distinct(list)
    BY <1>7 DEF IInv, IdsUnique, Distinct
  <2>2. \A i \in 1..Len(list) : list[i].id # Record(drawn + 1).id
    BY <1>1, <1>2, <1>5
  <2> QED
    BY <1>2, <1>3, <2>1, <2>2, AppendOther
<1> HIDE DEF new, others
<1>8. ASSUME ~ spoiled, NEW u \in Threads, u \notin crossed, Busy(u)
      PROVE  Sound(call[u], new)
  <2>1. call[u] \in Calls /\ Sound(call[u], list)
    BY <1>8, CallFields DEF IInv, CallsSound
  <2>2. Len(list) <= Len(new) /\ \A i \in 1..Len(list) : new[i].id = list[i].id
    BY <1>3, <1>4
  <2> QED
    BY <1>3, <1>4, <2>1, <2>2, SoundInLonger
<1>9. others \subseteq Threads
  BY DEF others
<1> QED
  BY <1>1, <1>4, <1>6, <1>7, <1>8, <1>9, ChangeHolds

LEMMA BeginHolds ==
  ASSUME IInv, NEW t \in Threads, NEW op \in {"update", "delete"}, NEW id \in Nat,
         NEW change \in Changes \cup {Idle}, op = "update" => change \in Changes,
         Begin(t, op, id, change)
  PROVE  IInv'
<1> DEFINE next == [op |-> op, pc |-> "scan", at |-> 1, id |-> id, change |-> change,
                    kept |-> <<>>]
<1>1. /\ call' = [call EXCEPT ![t] = next] /\ crossed' = crossed \ {t}
      /\ UNCHANGED <<list, drawn, spoiled>> /\ calls' \in Nat
  BY DEF Begin, Arrive, IInv, TypeOK
<1>2. <<>> \in Seq(Records) /\ Len(<<>>) = 0
  OBVIOUS
<1>3. next \in Calls
  BY <1>2 DEF Calls
<1>4. next # Idle
  BY <1>3, IdleAssumption
<1>5. IdsBelow(next.kept, drawn) /\ Sound(next, list)
  BY <1>2 DEF IdsBelow, Sound, DeleteSound, UpdateSound, Distinct
<1>6. /\ next.pc = "scan" /\ next.op = op /\ next.change = change
  OBVIOUS
<1> HIDE DEF next
<1> QED
  BY <1>1, <1>3, <1>4, <1>5, <1>6, MoveHolds

LEMMA EndHolds ==
  ASSUME IInv, NEW t \in Threads, End(t)
  PROVE  IInv'
<1>1. /\ call' = [call EXCEPT ![t] = Idle] /\ crossed' = crossed \ {t}
      /\ UNCHANGED <<list, drawn, spoiled>> /\ calls' \in Nat
  BY DEF End, IInv, TypeOK
<1> QED
  BY <1>1, MoveHolds

\* A thread looks at a place of the list.
LEMMA PlaceOfCall ==
  ASSUME IInv, NEW t \in Threads, Busy(t), InList(t)
  PROVE  /\ call[t].at \in 1..Len(list)
         /\ list[call[t].at] \in Records
         /\ list[call[t].at].id \in Nat
         /\ list[call[t].at].id <= drawn
<1>1. call[t].at \in Nat \ {0} /\ list \in Seq(Records)
  BY CallFields DEF IInv, TypeOK
<1>2. call[t].at \in 1..Len(list)
  BY <1>1, LenProperties DEF InList
<1>3. list[call[t].at] \in Records
  BY <1>1, <1>2, ElementOfSeq
<1>4. list[call[t].at].id <= drawn
  BY <1>2 DEF IInv, Drawn, IdsBelow
<1> QED
  BY <1>2, <1>3, <1>4 DEF Records

\* dataclasses.replace makes a record of the same id.
LEMMA ReplacedRecord ==
  ASSUME NEW record \in Records, NEW change \in Changes
  PROVE  /\ Replaced(record, change) \in Records
         /\ Replaced(record, change).id = record.id
<1>1. change.field \in Fields /\ change.value \in Values
  BY DEF Changes
<1>2. record.fields \in [Fields -> Values \cup {Fresh}] /\ record.id \in Nat
  BY DEF Records
<1>3. [record.fields EXCEPT ![change.field] = change.value] \in [Fields -> Values \cup {Fresh}]
  BY <1>1, <1>2
<1>4. Replaced(record, change)
        = [record EXCEPT !.fields = [record.fields EXCEPT ![change.field] = change.value]]
  BY DEF Replaced
<1> QED
  BY <1>2, <1>3, <1>4 DEF Records

LEMMA ScanUpdateHolds ==
  ASSUME IInv, NEW t \in Threads, ScanUpdate(t)
  PROVE  IInv'
<1> DEFINE c == call[t]
           record == list[c.at]
           found == [c EXCEPT !.pc = "store", !.kept = <<Replaced(record, c.change)>>]
           on == [c EXCEPT !.at = @ + 1]
           next == IF record.id = c.id THEN found ELSE on
<1>1. /\ Busy(t) /\ c.op = "update" /\ c.pc = "scan" /\ InList(t)
      /\ call' = [call EXCEPT ![t] = next] /\ crossed' = crossed
      /\ UNCHANGED <<list, drawn, spoiled>> /\ calls' \in Nat
  BY DEF ScanUpdate, Doing, Step, Busy, IInv, TypeOK
<1>2. /\ c \in Calls /\ c.at \in 1..Len(list) /\ record \in Records
      /\ record.id \in Nat /\ record.id <= drawn
  BY <1>1, CallFields, PlaceOfCall DEF IInv
<1>3. c.change \in Changes
  BY <1>1 DEF IInv, PhasesOK
<1>4. IdsBelow(c.kept, drawn)
  BY <1>1 DEF IInv, Drawn
<1>5. CASE record.id = c.id
  <2> DEFINE copy == Replaced(record, c.change)
  <2>1. copy \in Records /\ copy.id = record.id
    BY <1>2, <1>3, ReplacedRecord
  <2>2. <<copy>> \in Seq(Records) /\ Len(<<copy>>) = 1 /\ <<copy>>[1] = copy
    BY <2>1
  <2> HIDE DEF copy
  <2>3. /\ found \in Calls /\ found.kept = <<copy>> /\ found.pc = "store"
        /\ found.op = "update" /\ found.at = c.at /\ found.change = c.change
    BY <1>1, <1>2, <2>2 DEF Calls, copy
  <2>4. next = found
    BY <1>5
  <2> HIDE DEF found, next, record, c
  <2>5. IdsBelow(found.kept, drawn)
    BY <1>2, <2>1, <2>2, <2>3 DEF IdsBelow
  <2>6. Sound(found, list)
    BY <1>2, <2>1, <2>2, <2>3 DEF Sound, DeleteSound, UpdateSound, record
  <2> QED
    BY <1>1, <1>3, <2>2, <2>3, <2>4, <2>5, <2>6, MoveHolds
<1>6. CASE record.id # c.id
  <2>1. /\ on \in Calls /\ on.kept = c.kept /\ on.pc = "scan"
        /\ on.op = "update" /\ on.change = c.change
    BY <1>1, <1>2 DEF Calls
  <2>2. next = on
    BY <1>6
  <2> HIDE DEF on, next, record, c
  <2>3. Sound(on, list)
    BY <2>1 DEF Sound, DeleteSound, UpdateSound
  <2> QED
    BY <1>1, <1>3, <1>4, <2>1, <2>2, <2>3, MoveHolds
<1> QED
  BY <1>5, <1>6

LEMMA StoreUpdateHolds ==
  ASSUME IInv, NEW t \in Threads, StoreUpdate(t)
  PROVE  IInv'
<1>1. Busy(t) /\ call[t].pc = "store"
  BY DEF StoreUpdate, Doing, Busy
<1>2. CASE ~ InList(t)
  BY <1>2, EndHolds DEF StoreUpdate
<1>3. CASE InList(t)
  <2> DEFINE at == call[t].at
             copy == call[t].kept[1]
             new == [list EXCEPT ![at] = copy]
             stale == {u \in Running \ {t} :
                         \/ Doing(u, "update", "store") /\ call[u].at = at
                         \/ call[u].op = "delete" /\ call[u].at > at}
  <2>1. Change(t, new, stale) /\ drawn' = drawn /\ calls' = calls
    BY <1>3 DEF StoreUpdate
  <2>2. at \in 1..Len(list) /\ list \in Seq(Records) /\ Len(list) \in Nat
    BY <1>1, <1>3, PlaceOfCall, LenProperties DEF IInv, TypeOK
  <2>3. call[t].kept \in Seq(Records) /\ Len(call[t].kept) = 1 /\ IdsBelow(call[t].kept, drawn)
    BY <1>1, CallFields DEF IInv, PhasesOK, Drawn
  <2>4. copy \in Records /\ copy.id <= drawn
    BY <2>3, ElementOfSeq DEF IdsBelow
  <2>5. /\ new \in Seq(Records)
        /\ Len(new) = Len(list)
        /\ \A j \in 1..Len(list) : new[j] = IF j = at THEN copy ELSE list[j]
    BY <2>2, <2>4, ExceptSeq
  <2>6. stale \subseteq Threads
    BY DEF Running
  <2> HIDE DEF new, stale, copy
  <2>7. IdsBelow(new, drawn)
    BY <2>2, <2>4, <2>5 DEF IInv, Drawn, IdsBelow
  <2>8. ASSUME ~ spoiled, t \notin crossed
        PROVE  \A j \in 1..Len(list) : new[j].id = list[j].id
    <3>1. Sound(call[t], list)
      BY <1>1, <2>8 DEF IInv, CallsSound
    <3>2. list[at].id = copy.id
      BY <1>1, <3>1 DEF Sound, UpdateSound, copy
    <3> QED
      BY <2>5, <3>2
  <2>9. ASSUME ~ spoiled, t \notin crossed
        PROVE  Distinct(new)
    BY <2>2, <2>5, <2>8, <2>9 DEF IInv, IdsUnique, Distinct
  <2>10. ASSUME ~ spoiled, t \notin crossed, NEW u \in Threads, u \notin crossed, Busy(u)
         PROVE  Sound(call[u], new)
    <3>1. call[u] \in Calls /\ Sound(call[u], list)
      BY <2>10, CallFields DEF IInv, CallsSound
    <3>2. Len(list) <= Len(new) /\ \A i \in 1..Len(list) : new[i].id = list[i].id
      BY <2>2, <2>5, <2>8, <2>10
    <3> QED
      BY <2>2, <2>5, <3>1, <3>2, SoundInLonger
  <2>11. drawn' \in Nat /\ drawn <= drawn' /\ calls' \in Nat
    BY <2>1 DEF IInv, TypeOK
  <2>12. IdsBelow(new, drawn')
    BY <2>1, <2>7
  <2> QED
    BY <2>1, <2>5, <2>6, <2>9, <2>10, <2>11, <2>12, ChangeHolds
<1> QED
  BY <1>2, <1>3

LEMMA ScanDeleteHolds ==
  ASSUME IInv, NEW t \in Threads, ScanDelete(t)
  PROVE  IInv'
<1> DEFINE c == call[t]
           record == list[c.at]
           ended == [c EXCEPT !.pc = "assign"]
           dropped == [c EXCEPT !.at = @ + 1]
           taken == [c EXCEPT !.at = @ + 1, !.kept = Append(@, record)]
           next == IF ~ InList(t) THEN ended ELSE IF record.id = c.id THEN dropped ELSE taken
<1>1. /\ Busy(t) /\ c.op = "delete" /\ c.pc = "scan"
      /\ call' = [call EXCEPT ![t] = next] /\ crossed' = crossed
      /\ UNCHANGED <<list, drawn, spoiled>> /\ calls' \in Nat
  BY DEF ScanDelete, Doing, Step, Busy, IInv, TypeOK
<1>2. c \in Calls /\ c.at \in Nat \ {0} /\ c.kept \in Seq(Records) /\ Len(c.kept) \in Nat
  BY <1>1, CallFields, LenProperties DEF IInv
<1>3. IdsBelow(c.kept, drawn)
  BY <1>1 DEF IInv, Drawn
<1>4. ~ spoiled /\ t \notin crossed => DeleteSound(c, list)
  BY <1>1 DEF IInv, CallsSound, Sound
<1>5. CASE ~ InList(t)
  <2>1. /\ ended \in Calls /\ ended.kept = c.kept /\ ended.pc = "assign"
        /\ ended.op = "delete" /\ ended.at = c.at
    BY <1>1, <1>2 DEF Calls
  <2>2. next = ended
    BY <1>5
  <2> HIDE DEF ended, next, record, c
  <2>3. ~ spoiled /\ t \notin crossed => Sound(ended, list)
    BY <1>1, <1>4, <2>1 DEF Sound, DeleteSound, UpdateSound
  <2> QED
    BY <1>1, <1>3, <2>1, <2>2, <2>3, MoveHolds
<1>6. CASE InList(t) /\ record.id = c.id
  <2>1. /\ dropped \in Calls /\ dropped.kept = c.kept /\ dropped.pc = "scan"
        /\ dropped.op = "delete" /\ dropped.at = c.at + 1
    BY <1>1, <1>2 DEF Calls
  <2>2. next = dropped
    BY <1>6
  <2> HIDE DEF dropped, next, record, c
  <2>3. ~ spoiled /\ t \notin crossed => Sound(dropped, list)
    BY <1>1, <1>2, <1>4, <2>1 DEF Sound, DeleteSound, UpdateSound
  <2> QED
    BY <1>1, <1>3, <2>1, <2>2, <2>3, MoveHolds
<1>7. CASE InList(t) /\ record.id # c.id
  <2>0. /\ c.at \in 1..Len(list) /\ record \in Records
        /\ record.id \in Nat /\ record.id <= drawn
    BY <1>1, <1>7, PlaceOfCall
  <2> DEFINE longer == Append(c.kept, record)
  <2>1. /\ longer \in Seq(Records) /\ Len(longer) = Len(c.kept) + 1
        /\ \A k \in 1..Len(c.kept) : longer[k] = c.kept[k]
        /\ longer[Len(c.kept) + 1] = record
    BY <1>2, <2>0, AppendRecord
  <2>a. /\ dropped \in Calls /\ dropped.pc = "scan"
        /\ dropped.op = "delete" /\ dropped.at = c.at + 1
    BY <1>1, <1>2 DEF Calls
  <2>b. taken = [dropped EXCEPT !.kept = longer]
    BY <1>2 DEF Calls
  <2>2. /\ taken \in Calls /\ taken.kept = longer /\ taken.pc = "scan"
        /\ taken.op = "delete" /\ taken.at = c.at + 1
    <3> HIDE DEF longer, dropped, taken
    <3> QED
      BY <2>1, <2>a, <2>b DEF Calls
  <2>3. next = taken
    BY <1>7
  <2>4. IdsBelow(longer, drawn)
    BY <1>2, <1>3, <2>0, AppendBelow DEF IInv, TypeOK
  <2> HIDE DEF taken, next, c
  <2>5. ASSUME ~ spoiled, t \notin crossed
        PROVE  Sound(taken, list)
    <3>1. /\ Distinct(c.kept)
          /\ \A k \in 1..Len(c.kept) :
               \E j \in 1..Len(list) : j < c.at /\ list[j].id = c.kept[k].id
      BY <1>1, <1>4, <2>5 DEF DeleteSound
    <3>2. Distinct(list)
      BY <2>5 DEF IInv, IdsUnique, Distinct
    <3>3. \A k \in 1..Len(c.kept) : c.kept[k].id # record.id
      BY <1>2, <2>0, <3>1, <3>2 DEF Distinct
    <3>4. Distinct(longer)
      BY <1>2, <2>0, <3>1, <3>3, AppendOther
    <3>5. ASSUME NEW k \in 1..Len(longer)
          PROVE  \E j \in 1..Len(list) : j < c.at + 1 /\ list[j].id = longer[k].id
      <4> HIDE DEF longer, record
      <4>1. CASE k = Len(c.kept) + 1
        <5>1. list[c.at].id = longer[k].id
          BY <2>1, <4>1 DEF record
        <5> QED
          BY <1>2, <2>0, <5>1
      <4>2. CASE k \in 1..Len(c.kept)
        <5>1. PICK j \in 1..Len(list) : j < c.at /\ list[j].id = c.kept[k].id
          BY <3>1, <4>2
        <5> QED
          BY <1>2, <2>1, <4>2, <5>1
      <4> QED
        BY <1>2, <2>1, <4>1, <4>2
    <3> QED
      BY <2>2, <3>4, <3>5 DEF Sound, DeleteSound, UpdateSound
  <2> HIDE DEF record, longer
  <2> QED
    BY <1>1, <2>2, <2>3, <2>4, <2>5, MoveHolds
<1> QED
  BY <1>5, <1>6, <1>7

LEMMA AssignDeleteHolds ==
  ASSUME IInv, NEW t \in Threads, AssignDelete(t)
  PROVE  IInv'
<1>1. /\ Busy(t) /\ call[t].op = "delete"
      /\ Change(t, call[t].kept, Running) /\ drawn' = drawn /\ calls' = calls
  BY DEF AssignDelete, Doing, Busy
<1>2. call[t].kept \in Seq(Records) /\ IdsBelow(call[t].kept, drawn)
  BY <1>1, CallFields DEF IInv, Drawn
<1>3. ~ spoiled /\ t \notin crossed => Distinct(call[t].kept)
  BY <1>1 DEF IInv, CallsSound, Sound, DeleteSound
<1>4. Running \in SUBSET Threads /\ \A u \in Threads \ Running : ~ Busy(u)
  BY DEF Running, Busy
<1>5. drawn' \in Nat /\ drawn <= drawn' /\ calls' \in Nat /\ IdsBelow(call[t].kept, drawn')
  BY <1>1, <1>2 DEF IInv, TypeOK
<1> QED
  BY <1>1, <1>2, <1>3, <1>4, <1>5, ChangeHolds

LEMMA ResetHolds ==
  ASSUME IInv, NEW t \in Threads, Reset(t)
  PROVE  IInv'
<1>1. /\ Change(t, Generate(drawn), Running) /\ drawn' = drawn + Size
      /\ drawn \in Nat /\ Size \in Nat /\ calls' \in Nat
  BY ListAssumption DEF Reset, Arrive, IInv, TypeOK
<1>2. /\ Generate(drawn) \in Seq(Records) /\ Distinct(Generate(drawn))
      /\ IdsBelow(Generate(drawn), drawn')
  BY <1>1, GenerateRecords
<1>3. Running \in SUBSET Threads /\ \A u \in Threads \ Running : ~ Busy(u)
  BY DEF Running, Busy
<1>4. drawn' \in Nat /\ drawn <= drawn'
  BY <1>1
<1> QED
  BY <1>1, <1>2, <1>3, <1>4, ChangeHolds

LEMMA NextHolds == IInv /\ [Next]_vars => IInv'
<1> SUFFICES ASSUME IInv, [Next]_vars PROVE IInv'
  OBVIOUS
<1>0. MaxIds \in Nat /\ 1..MaxIds \subseteq Nat
  BY ListAssumption
<1>1. CASE UNCHANGED vars
  BY <1>1 DEF vars, IInv, TypeOK, PhasesOK, Drawn, IdsUnique, CallsSound, Busy, Sound,
     DeleteSound, UpdateSound, Distinct, IdsBelow
<1>2. ASSUME NEW t \in Threads,
             \/ Add(t) \/ ScanUpdate(t) \/ UpdateMissing(t) \/ StoreUpdate(t)
             \/ ScanDelete(t) \/ AssignDelete(t) \/ Reset(t)
      PROVE  IInv'
  BY <1>2, AddHolds, ScanUpdateHolds, EndHolds, StoreUpdateHolds, ScanDeleteHolds,
     AssignDeleteHolds, ResetHolds DEF UpdateMissing
<1>3. ASSUME NEW t \in Threads, NEW id \in 1..MaxIds, NEW change \in Changes,
             StartUpdate(t, id, change)
      PROVE  IInv'
  BY <1>0, <1>3, BeginHolds DEF StartUpdate
<1>4. ASSUME NEW t \in Threads, NEW id \in 1..MaxIds, StartDelete(t, id)
      PROVE  IInv'
  BY <1>0, <1>4, BeginHolds DEF StartDelete
<1> QED
  BY <1>1, <1>2, <1>3, <1>4 DEF Next
-----------------------------------------------------------------------------
(***************************************************************************)
(* What a call that nobody crossed knows of the list, as it is by now: a   *)
(* loop has the places behind it in hand.  Spoiled lists make no           *)
(* difference to this.                                                     *)
(***************************************************************************)

\* An update has not met its id behind it.
NotYet(c, seq) == \A j \in 1..c.at - 1 : seq[j].id # c.id

UpdateKnows(c, seq) ==
  c.op = "update" => c.at <= Len(seq) + 1 /\ NotYet(c, seq)

\* What it will store is the record that is there now, with the change.
StoreKnows(c, seq) ==
  c.pc = "store" => /\ c.at \in 1..Len(seq)
                    /\ seq[c.at].id = c.id
                    /\ c.kept[1] = Replaced(seq[c.at], c.change)

\* A delete has kept what it passed, and assigns it when that is the whole list.
DeleteKnows(c, seq) ==
  c.op = "delete" => /\ c.at <= Len(seq) + 1
                     /\ Rest(seq, c.at - 1, c.id, c.kept)
                     /\ c.pc = "assign" => c.at = Len(seq) + 1

Knows(c, seq) == UpdateKnows(c, seq) /\ StoreKnows(c, seq) /\ DeleteKnows(c, seq)

AInv == \A t \in Threads \ crossed : Busy(t) => Knows(call[t], list)

\* Nothing is left of no place.
LEMMA RestOfNone ==
  ASSUME NEW seq, NEW id
  PROVE  Rest(seq, 0, id, <<>>)
<1> DEFINE place == [k \in 1..0 |-> k]
<1>1. place \in [1..Len(<<>>) -> 1..0]
  OBVIOUS
<1>2. \A k : k \notin 1..Len(<<>>)
  OBVIOUS
<1> HIDE DEF place
<1> QED
  BY <1>1, <1>2 DEF Rest

LEMMA RestBy ==
  ASSUME NEW seq, NEW n, NEW id, NEW rest, NEW place \in [1..Len(rest) -> 1..n],
         \A k, l \in 1..Len(rest) : k < l => place[k] < place[l],
         \A k \in 1..Len(rest) : rest[k] = seq[place[k]] /\ seq[place[k]].id # id,
         \A i \in 1..n : seq[i].id # id => \E k \in 1..Len(rest) : place[k] = i
  PROVE  Rest(seq, n, id, rest)
BY Zenon DEF Rest

\* It depends on the places passed alone.
LEMMA RestOfSame ==
  ASSUME NEW seq, NEW other, NEW n \in Nat, NEW id, NEW rest,
         \A i \in 1..n : other[i] = seq[i], Rest(seq, n, id, rest)
  PROVE  Rest(other, n, id, rest)
<1>1. PICK place \in [1..Len(rest) -> 1..n] :
        /\ \A k, l \in 1..Len(rest) : k < l => place[k] < place[l]
        /\ \A k \in 1..Len(rest) : rest[k] = seq[place[k]] /\ seq[place[k]].id # id
        /\ \A i \in 1..n : seq[i].id # id => \E k \in 1..Len(rest) : place[k] = i
  BY DEF Rest
<1>2. \A k \in 1..Len(rest) : place[k] \in 1..n
  BY <1>1
<1>3. \A k \in 1..Len(rest) : rest[k] = other[place[k]] /\ other[place[k]].id # id
  BY <1>1, <1>2
<1>4. \A i \in 1..n : other[i].id # id => \E k \in 1..Len(rest) : place[k] = i
  BY <1>1
<1> QED
  BY Zenon, <1>1, <1>3, <1>4, RestBy

\* A place with the id is passed over.
LEMMA RestDrops ==
  ASSUME NEW seq, NEW n \in Nat, NEW id, NEW rest \in Seq(Records), Rest(seq, n, id, rest),
         seq[n + 1].id = id
  PROVE  Rest(seq, n + 1, id, rest)
<1>1. PICK place \in [1..Len(rest) -> 1..n] :
        /\ \A k, l \in 1..Len(rest) : k < l => place[k] < place[l]
        /\ \A k \in 1..Len(rest) : rest[k] = seq[place[k]] /\ seq[place[k]].id # id
        /\ \A i \in 1..n : seq[i].id # id => \E k \in 1..Len(rest) : place[k] = i
  BY DEF Rest
<1>2. place \in [1..Len(rest) -> 1..n + 1]
  BY <1>1
<1>3. \A i \in 1..n + 1 : seq[i].id # id => \E k \in 1..Len(rest) : place[k] = i
  BY <1>1
<1> QED
  BY <1>1, <1>2, <1>3 DEF Rest

\* Any other place is kept.
LEMMA RestTakes ==
  ASSUME NEW seq, NEW n \in Nat, NEW id, NEW rest \in Seq(Records), Rest(seq, n, id, rest),
         seq[n + 1] \in Records, seq[n + 1].id # id
  PROVE  Rest(seq, n + 1, id, Append(rest, seq[n + 1]))
<1> DEFINE longer == Append(rest, seq[n + 1])
           m == Len(rest)
<1>1. /\ longer \in Seq(Records) /\ Len(longer) = m + 1 /\ m \in Nat
      /\ \A k \in 1..m : longer[k] = rest[k]
      /\ longer[m + 1] = seq[n + 1]
  BY AppendRecord, LenProperties
<1>2. PICK place \in [1..m -> 1..n] :
        /\ \A k, l \in 1..m : k < l => place[k] < place[l]
        /\ \A k \in 1..m : rest[k] = seq[place[k]] /\ seq[place[k]].id # id
        /\ \A i \in 1..n : seq[i].id # id => \E k \in 1..m : place[k] = i
  BY DEF Rest
<1> HIDE DEF longer, m
<1> DEFINE further == [k \in 1..m + 1 |-> IF k = m + 1 THEN n + 1 ELSE place[k]]
<1>3. /\ further \in [1..m + 1 -> 1..n + 1]
      /\ further[m + 1] = n + 1
      /\ \A k \in 1..m : further[k] = place[k] /\ place[k] \in 1..n
  BY <1>1, <1>2
<1> HIDE DEF further
<1>4. \A k, l \in 1..m + 1 : k < l => further[k] < further[l]
  <2> SUFFICES ASSUME NEW k \in 1..m + 1, NEW l \in 1..m + 1, k < l
               PROVE  further[k] < further[l]
    OBVIOUS
  <2>1. k \in 1..m
    BY <1>1
  <2>2. CASE l = m + 1
    BY <1>1, <1>3, <2>1, <2>2
  <2>3. CASE l \in 1..m
    BY <1>2, <1>3, <2>1, <2>3
  <2> QED
    BY <1>1, <2>2, <2>3
<1>5. \A k \in 1..m + 1 : longer[k] = seq[further[k]] /\ seq[further[k]].id # id
  <2> SUFFICES ASSUME NEW k \in 1..m + 1
               PROVE  longer[k] = seq[further[k]] /\ seq[further[k]].id # id
    OBVIOUS
  <2>1. CASE k = m + 1
    BY <1>1, <1>3, <2>1
  <2>2. CASE k \in 1..m
    BY <1>1, <1>2, <1>3, <2>2
  <2> QED
    BY <1>1, <2>1, <2>2
<1>6. ASSUME NEW i \in 1..n + 1, seq[i].id # id
      PROVE  \E k \in 1..m + 1 : further[k] = i
  <2>1. CASE i = n + 1
    BY <1>1, <1>3, <2>1
  <2>2. CASE i \in 1..n
    <3>1. PICK k \in 1..m : place[k] = i
      BY <1>2, <1>6, <2>2
    <3> QED
      BY <1>1, <1>3, <3>1
  <2> QED
    BY <2>1, <2>2
<1>7. Rest(seq, n + 1, id, longer)
  <2>1. 1..Len(longer) = 1..m + 1
    BY <1>1
  <2>2. /\ further \in [1..Len(longer) -> 1..n + 1]
        /\ \A k, l \in 1..Len(longer) : k < l => further[k] < further[l]
        /\ \A k \in 1..Len(longer) : longer[k] = seq[further[k]] /\ seq[further[k]].id # id
        /\ \A i \in 1..n + 1 : seq[i].id # id => \E k \in 1..Len(longer) : further[k] = i
    <3> HIDE DEF further, longer
    <3> QED
      BY Zenon, <1>3, <1>4, <1>5, <1>6, <2>1
  <2> QED
    BY Zenon, <2>2, RestBy
<1> QED
  BY <1>7 DEF longer

\* A record at the end of the list is beyond what anybody has passed.
LEMMA KnowsLonger ==
  ASSUME NEW c \in Calls, NEW seq \in Seq(Records), NEW longer \in Seq(Records),
         Len(longer) = Len(seq) + 1, \A i \in 1..Len(seq) : longer[i] = seq[i],
         ~ (c.op = "delete" /\ c.pc = "assign"), Knows(c, seq)
  PROVE  Knows(c, longer)
<1>1. Len(seq) \in Nat /\ c.at \in Nat \ {0} /\ c.at - 1 \in Nat
  BY LenProperties DEF Calls
<1>2. UpdateKnows(c, longer)
  BY <1>1 DEF Knows, UpdateKnows, NotYet
<1>3. StoreKnows(c, longer)
  BY <1>1 DEF Knows, StoreKnows
<1>4. DeleteKnows(c, longer)
  <2> SUFFICES ASSUME c.op = "delete" PROVE DeleteKnows(c, longer)
    BY DEF DeleteKnows
  <2>1. c.at <= Len(seq) + 1 /\ Rest(seq, c.at - 1, c.id, c.kept)
    BY DEF Knows, DeleteKnows
  <2>2. \A i \in 1..c.at - 1 : longer[i] = seq[i]
    BY <1>1, <2>1
  <2>3. Rest(longer, c.at - 1, c.id, c.kept)
    BY <1>1, <2>1, <2>2, RestOfSame
  <2> QED
    BY <1>1, <2>1, <2>3 DEF DeleteKnows
<1> QED
  BY <1>2, <1>3, <1>4 DEF Knows

\* A stored record keeps its id, and concerns who holds a copy of its place and the
\* deletes that have passed it.
LEMMA KnowsStored ==
  ASSUME NEW c \in Calls, NEW seq \in Seq(Records), NEW new \in Seq(Records),
         NEW at \in 1..Len(seq), Len(new) = Len(seq),
         \A i \in 1..Len(seq) : new[i].id = seq[i].id,
         \A i \in 1..Len(seq) : i # at => new[i] = seq[i],
         ~ (c.pc = "store" /\ c.at = at), ~ (c.op = "delete" /\ c.at > at), Knows(c, seq)
  PROVE  Knows(c, new)
<1>1. Len(seq) \in Nat /\ c.at \in Nat \ {0} /\ c.at - 1 \in Nat
  BY LenProperties DEF Calls
<1>2. UpdateKnows(c, new)
  BY <1>1 DEF Knows, UpdateKnows, NotYet
<1>3. StoreKnows(c, new)
  BY <1>1 DEF Knows, StoreKnows
<1>4. DeleteKnows(c, new)
  <2> SUFFICES ASSUME c.op = "delete" PROVE DeleteKnows(c, new)
    BY DEF DeleteKnows
  <2>1. /\ c.at <= Len(seq) + 1 /\ Rest(seq, c.at - 1, c.id, c.kept)
        /\ c.pc = "assign" => c.at = Len(seq) + 1
    BY DEF Knows, DeleteKnows
  <2>2. \A i \in 1..c.at - 1 : new[i] = seq[i]
    BY <1>1, <2>1
  <2>3. Rest(new, c.at - 1, c.id, c.kept)
    BY <1>1, <2>1, <2>2, RestOfSame
  <2> QED
    BY <2>1, <2>3 DEF DeleteKnows
<1> QED
  BY <1>2, <1>3, <1>4 DEF Knows

\* A step that only moves the call of one thread.
LEMMA MoveKnows ==
  ASSUME IInv, AInv, NEW t \in Threads, NEW next, list' = list,
         crossed' \in {crossed, crossed \ {t}},
         call' = [call EXCEPT ![t] = next],
         next # Idle /\ t \notin crossed' => Knows(next, list)
  PROVE  AInv'
<1>1. call'[t] = next /\ \A u \in Threads \ {t} : call'[u] = call[u]
  BY DEF IInv, TypeOK
<1> SUFFICES ASSUME NEW u \in Threads, u \notin crossed', call'[u] # Idle
             PROVE  Knows(call'[u], list)
  BY DEF AInv, Busy, Knows, UpdateKnows, NotYet, StoreKnows, DeleteKnows, Rest
<1>2. CASE u = t
  BY <1>1, <1>2
<1>3. CASE u # t
  <2>1. u \notin crossed /\ call'[u] = call[u] /\ Busy(u)
    BY <1>1, <1>3 DEF Busy
  <2> QED
    BY <2>1 DEF AInv
<1> QED
  BY <1>2, <1>3

\* A step that changes the list: who is not crossed by it knows the list as it is now.
LEMMA ChangeKnows ==
  ASSUME IInv, AInv, NEW t \in Threads, NEW new, NEW others \in SUBSET Threads,
         Change(t, new, others),
         t \notin crossed => \A u \in Threads \ (crossed \cup others \cup {t}) :
                               Busy(u) => Knows(call[u], new)
  PROVE  AInv'
<1>1. /\ list' = new /\ call' = [call EXCEPT ![t] = Idle]
      /\ crossed' = (crossed \cup (IF t \in crossed THEN Running ELSE others)) \ {t}
  BY DEF Change
<1>2. call'[t] = Idle /\ \A u \in Threads \ {t} : call'[u] = call[u]
  BY <1>1 DEF IInv, TypeOK
<1> SUFFICES ASSUME NEW u \in Threads, u \notin crossed', call'[u] # Idle
             PROVE  Knows(call'[u], list')
  BY DEF AInv, Busy, Knows, UpdateKnows, NotYet, StoreKnows, DeleteKnows, Rest
<1>3. u # t /\ call'[u] = call[u] /\ Busy(u)
  BY <1>2 DEF Busy
<1>4. u \in Running
  BY <1>3 DEF Running, Busy
<1>5. t \notin crossed /\ u \notin crossed \cup others \cup {t}
  BY <1>1, <1>3, <1>4
<1> QED
  BY <1>1, <1>3, <1>5

LEMMA AInitHolds == Init => AInv
BY DEF Init, AInv, Busy

LEMMA AddKnows ==
  ASSUME IInv, AInv, NEW t \in Threads, Add(t)
  PROVE  AInv'
<1> DEFINE new == Append(list, Record(drawn + 1))
           others == {d \in Threads : Doing(d, "delete", "assign")}
<1>1. Change(t, new, others) /\ drawn \in Nat
  BY DEF Add, IInv, TypeOK
<1>2. Record(drawn + 1) \in Records
  BY <1>1 DEF Record, Records
<1>3. /\ list \in Seq(Records) /\ new \in Seq(Records)
      /\ Len(new) = Len(list) + 1
      /\ \A i \in 1..Len(list) : new[i] = list[i]
  BY <1>2, AppendRecord DEF IInv, TypeOK
<1> HIDE DEF new
<1>4. ASSUME NEW u \in Threads \ (crossed \cup others \cup {t}), Busy(u)
      PROVE  Knows(call[u], new)
  <2>1. call[u] \in Calls /\ Knows(call[u], list)
    BY <1>4, CallFields DEF IInv, AInv
  <2>2. ~ (call[u].op = "delete" /\ call[u].pc = "assign")
    BY <1>4 DEF Doing, Busy
  <2> QED
    BY <1>3, <2>1, <2>2, KnowsLonger
<1>5. others \in SUBSET Threads
  OBVIOUS
<1> HIDE DEF others
<1> QED
  BY <1>1, <1>4, <1>5, ChangeKnows

LEMMA BeginKnows ==
  ASSUME IInv, AInv, NEW t \in Threads, NEW op \in {"update", "delete"}, NEW id, NEW change,
         Begin(t, op, id, change)
  PROVE  AInv'
<1> DEFINE next == [op |-> op, pc |-> "scan", at |-> 1, id |-> id, change |-> change,
                    kept |-> <<>>]
<1>1. call' = [call EXCEPT ![t] = next] /\ crossed' = crossed \ {t} /\ list' = list
  BY DEF Begin
<1>2. next.pc = "scan" /\ next.at = 1 /\ next.id = id /\ next.kept = <<>>
  OBVIOUS
<1> HIDE DEF next
<1>3. Len(list) \in Nat /\ next.at - 1 = 0
  BY <1>2, LenProperties DEF IInv, TypeOK
<1>4. Rest(list, 0, id, <<>>)
  BY RestOfNone
<1>5. Knows(next, list)
  BY <1>2, <1>3, <1>4 DEF Knows, UpdateKnows, NotYet, StoreKnows, DeleteKnows
<1> QED
  BY <1>1, <1>5, MoveKnows

LEMMA EndKnows ==
  ASSUME IInv, AInv, NEW t \in Threads, End(t)
  PROVE  AInv'
BY MoveKnows DEF End

LEMMA ScanUpdateKnows ==
  ASSUME IInv, AInv, NEW t \in Threads, ScanUpdate(t)
  PROVE  AInv'
<1> DEFINE c == call[t]
           record == list[c.at]
           found == [c EXCEPT !.pc = "store", !.kept = <<Replaced(record, c.change)>>]
           on == [c EXCEPT !.at = @ + 1]
           next == IF record.id = c.id THEN found ELSE on
<1>1. /\ Busy(t) /\ c.op = "update" /\ c.pc = "scan" /\ InList(t)
      /\ call' = [call EXCEPT ![t] = next] /\ crossed' = crossed /\ list' = list
  BY DEF ScanUpdate, Doing, Step, Busy
<1>2. c \in Calls /\ c.at \in 1..Len(list) /\ Len(list) \in Nat
  BY <1>1, CallFields, PlaceOfCall, LenProperties DEF IInv, TypeOK
<1>3. t \notin crossed => c.at <= Len(list) + 1 /\ NotYet(c, list)
  BY <1>1 DEF AInv, Knows, UpdateKnows
<1>4. ASSUME t \notin crossed, record.id = c.id PROVE Knows(next, list)
  <2> DEFINE copy == Replaced(record, c.change)
  <2>0. next = [[c EXCEPT !.pc = "store"] EXCEPT !.kept = <<copy>>]
    BY <1>4
  <2> HIDE DEF next, copy
  <2>1. /\ next.pc = "store" /\ next.op = "update" /\ next.at = c.at /\ next.id = c.id
        /\ next.change = c.change /\ next.kept[1] = copy
    BY <1>1, <1>2, <2>0 DEF Calls
  <2> QED
    BY <1>2, <1>3, <1>4, <2>1 DEF Knows, UpdateKnows, NotYet, StoreKnows, DeleteKnows, copy
<1>5. ASSUME t \notin crossed, record.id # c.id PROVE Knows(next, list)
  <2>0. next = [c EXCEPT !.at = @ + 1]
    BY <1>5
  <2> HIDE DEF next
  <2>1. next.pc = "scan" /\ next.op = "update" /\ next.at = c.at + 1 /\ next.id = c.id
    BY <1>1, <1>2, <2>0 DEF Calls
  <2>2. NotYet(next, list)
    BY <1>2, <1>3, <1>5, <2>1 DEF NotYet
  <2> QED
    BY <1>2, <2>1, <2>2 DEF Knows, UpdateKnows, StoreKnows, DeleteKnows
<1> HIDE DEF next
<1> QED
  BY <1>1, <1>4, <1>5, MoveKnows

LEMMA StoreUpdateKnows ==
  ASSUME IInv, AInv, NEW t \in Threads, StoreUpdate(t)
  PROVE  AInv'
<1>1. Busy(t) /\ call[t].pc = "store"
  BY DEF StoreUpdate, Doing, Busy
<1>2. CASE ~ InList(t)
  BY <1>2, EndKnows DEF StoreUpdate
<1>3. CASE InList(t)
  <2> DEFINE at == call[t].at
             copy == call[t].kept[1]
             new == [list EXCEPT ![at] = copy]
             stale == {u \in Running \ {t} :
                         \/ Doing(u, "update", "store") /\ call[u].at = at
                         \/ call[u].op = "delete" /\ call[u].at > at}
  <2>1. Change(t, new, stale)
    BY <1>3 DEF StoreUpdate
  <2>2. at \in 1..Len(list) /\ list \in Seq(Records)
    BY <1>1, <1>3, PlaceOfCall DEF IInv, TypeOK
  <2>3. call[t].kept \in Seq(Records) /\ Len(call[t].kept) = 1
    BY <1>1, CallFields DEF IInv, PhasesOK
  <2>4. copy \in Records
    BY <2>3, ElementOfSeq
  <2>5. /\ new \in Seq(Records) /\ Len(new) = Len(list)
        /\ \A j \in 1..Len(list) : new[j] = IF j = at THEN copy ELSE list[j]
    BY <2>2, <2>4, ExceptSeq
  <2>6. stale \in SUBSET Threads
    BY DEF Running
  <2>7. ASSUME t \notin crossed PROVE copy.id = list[at].id
    <3>1. copy = Replaced(list[at], call[t].change) /\ call[t].change \in Changes
      BY <1>1, <2>7 DEF AInv, Knows, StoreKnows, IInv, PhasesOK
    <3>2. list[at] \in Records
      BY <2>2, ElementOfSeq
    <3> HIDE DEF copy
    <3> QED
      BY <3>1, <3>2, ReplacedRecord
  <2> HIDE DEF new, copy
  <2>8. ASSUME t \notin crossed, NEW u \in Threads \ (crossed \cup stale \cup {t}), Busy(u)
        PROVE  Knows(call[u], new)
    <3>1. call[u] \in Calls /\ Knows(call[u], list) /\ u \in Running \ {t}
      BY <2>8, CallFields DEF IInv, AInv, Running, Busy
    <3>2. call[u].pc = "store" => call[u].op = "update"
      BY <2>8 DEF IInv, PhasesOK
    <3>3. ~ (call[u].pc = "store" /\ call[u].at = at) /\ ~ (call[u].op = "delete" /\ call[u].at > at)
      BY <2>8, <3>1, <3>2 DEF Doing, Busy
    <3> HIDE DEF stale, at
    <3>4. /\ \A i \in 1..Len(list) : new[i].id = list[i].id
          /\ \A i \in 1..Len(list) : i # at => new[i] = list[i]
      BY <2>5, <2>7, <2>8
    <3> QED
      BY <2>2, <2>5, <3>1, <3>3, <3>4, KnowsStored
  <2> HIDE DEF stale
  <2> QED
    BY <2>1, <2>6, <2>8, ChangeKnows
<1> QED
  BY <1>2, <1>3

LEMMA ScanDeleteKnows ==
  ASSUME IInv, AInv, NEW t \in Threads, ScanDelete(t)
  PROVE  AInv'
<1> DEFINE c == call[t]
           record == list[c.at]
           next == IF ~ InList(t) THEN [c EXCEPT !.pc = "assign"]
                   ELSE IF record.id = c.id THEN [c EXCEPT !.at = @ + 1]
                   ELSE [c EXCEPT !.at = @ + 1, !.kept = Append(@, record)]
<1>1. /\ Busy(t) /\ c.op = "delete" /\ c.pc = "scan"
      /\ call' = [call EXCEPT ![t] = next] /\ crossed' = crossed /\ list' = list
  BY DEF ScanDelete, Doing, Step, Busy
<1>2. /\ c \in Calls /\ c.at \in Nat \ {0} /\ c.kept \in Seq(Records)
      /\ Len(list) \in Nat /\ list \in Seq(Records)
  BY <1>1, CallFields, LenProperties DEF IInv, TypeOK
<1>3. t \notin crossed => c.at <= Len(list) + 1 /\ Rest(list, c.at - 1, c.id, c.kept)
  BY <1>1 DEF AInv, Knows, DeleteKnows
<1>4. ASSUME t \notin crossed, ~ InList(t) PROVE Knows(next, list)
  <2>1. next = [c EXCEPT !.pc = "assign"]
    BY <1>4
  <2> HIDE DEF next
  <2>2. /\ next.pc = "assign" /\ next.op = "delete" /\ next.at = c.at /\ next.id = c.id
        /\ next.kept = c.kept
    BY <1>1, <1>2, <2>1 DEF Calls
  <2>3. c.at = Len(list) + 1
    BY <1>2, <1>3, <1>4 DEF InList
  <2> QED
    BY <1>3, <1>4, <2>2, <2>3 DEF Knows, UpdateKnows, StoreKnows, DeleteKnows
<1>5. ASSUME InList(t) PROVE c.at \in 1..Len(list) /\ record \in Records
  BY <1>1, <1>5, PlaceOfCall
<1>6. ASSUME t \notin crossed, InList(t), record.id = c.id PROVE Knows(next, list)
  <2>1. next = [c EXCEPT !.at = @ + 1]
    BY <1>6
  <2> HIDE DEF next
  <2>2. /\ next.pc = "scan" /\ next.op = "delete" /\ next.at = c.at + 1 /\ next.id = c.id
        /\ next.kept = c.kept
    BY <1>1, <1>2, <2>1 DEF Calls
  <2>3. Rest(list, (c.at - 1) + 1, c.id, c.kept)
    <3>1. c.at - 1 \in Nat /\ (c.at - 1) + 1 = c.at
      BY <1>2
    <3>2. list[(c.at - 1) + 1].id = c.id
      BY <1>6, <3>1
    <3> QED
      BY <1>2, <1>3, <1>6, <3>1, <3>2, RestDrops
  <2>4. (c.at - 1) + 1 = next.at - 1 /\ next.at <= Len(list) + 1
    BY <1>2, <1>5, <1>6, <2>2
  <2> QED
    BY <2>2, <2>3, <2>4 DEF Knows, UpdateKnows, StoreKnows, DeleteKnows
<1>7. ASSUME t \notin crossed, InList(t), record.id # c.id PROVE Knows(next, list)
  <2> DEFINE mid == [c EXCEPT !.at = @ + 1]
             longer == Append(c.kept, record)
  <2>1. /\ mid.pc = "scan" /\ mid.op = "delete" /\ mid.at = c.at + 1 /\ mid.id = c.id
        /\ mid \in Calls
    BY <1>1, <1>2 DEF Calls
  <2>2. next = [mid EXCEPT !.kept = longer]
    BY <1>2, <1>7 DEF Calls
  <2> HIDE DEF next, mid, longer
  <2>3. /\ next.pc = "scan" /\ next.op = "delete" /\ next.at = c.at + 1 /\ next.id = c.id
        /\ next.kept = longer
    BY <2>1, <2>2 DEF Calls
  <2>4. Rest(list, (c.at - 1) + 1, c.id, longer)
    <3>1. c.at - 1 \in Nat /\ (c.at - 1) + 1 = c.at
      BY <1>2
    <3> DEFINE n == c.at - 1
    <3>2. n \in Nat /\ list[n + 1] = record
      BY <3>1
    <3> HIDE DEF n
    <3>3. Rest(list, n, c.id, c.kept)
      BY <1>3, <1>7 DEF n
    <3>4. Rest(list, n + 1, c.id, Append(c.kept, list[n + 1]))
      BY <1>2, <1>5, <1>7, <3>2, <3>3, RestTakes
    <3> QED
      BY <3>2, <3>4 DEF n, longer
  <2>5. (c.at - 1) + 1 = next.at - 1 /\ next.at <= Len(list) + 1
    BY <1>2, <1>5, <1>7, <2>3
  <2> QED
    BY <2>3, <2>4, <2>5 DEF Knows, UpdateKnows, StoreKnows, DeleteKnows
<1> HIDE DEF next
<1> QED
  BY <1>1, <1>4, <1>6, <1>7, MoveKnows

\* A delete that assigns and a reset cross everybody.
LEMMA CrossingKnows ==
  ASSUME IInv, AInv, NEW t \in Threads, NEW new, Change(t, new, Running)
  PROVE  AInv'
<1>1. Running \in SUBSET Threads /\ \A u \in Threads \ Running : ~ Busy(u)
  BY DEF Running, Busy
<1> QED
  BY <1>1, ChangeKnows

LEMMA ANextHolds == IInv /\ AInv /\ [Next]_vars => AInv'
<1> SUFFICES ASSUME IInv, AInv, [Next]_vars PROVE AInv'
  OBVIOUS
<1>1. CASE UNCHANGED vars
  BY <1>1 DEF vars, AInv, Busy
<1>2. ASSUME NEW t \in Threads, Add(t) \/ ScanUpdate(t) \/ UpdateMissing(t) \/ StoreUpdate(t)
      PROVE  AInv'
  BY <1>2, AddKnows, ScanUpdateKnows, EndKnows, StoreUpdateKnows DEF UpdateMissing
<1>3. ASSUME NEW t \in Threads, ScanDelete(t) \/ AssignDelete(t) \/ Reset(t)
      PROVE  AInv'
  BY <1>3, ScanDeleteKnows, CrossingKnows DEF AssignDelete, Reset
<1>4. ASSUME NEW t \in Threads, NEW id \in 1..MaxIds, NEW change \in Changes,
             StartUpdate(t, id, change)
      PROVE  AInv'
  BY <1>4, BeginKnows DEF StartUpdate
<1>5. ASSUME NEW t \in Threads, NEW id \in 1..MaxIds, StartDelete(t, id)
      PROVE  AInv'
  BY <1>5, BeginKnows DEF StartDelete
<1> QED
  BY <1>1, <1>2, <1>3, <1>4, <1>5 DEF Next

\* What a call that nobody crossed does when it ends.
LEMMA StoreIsUpdate ==
  ASSUME IInv, AInv, NEW t \in Threads, t \notin crossed, StoreUpdate(t)
  PROVE  list' = Updated(call[t].id, call[t].change)
<1> DEFINE at == call[t].at
           copy == call[t].kept[1]
<1>1. Busy(t) /\ call[t].pc = "store" /\ call[t].op = "update"
  BY DEF StoreUpdate, Doing, Busy
<1>2. /\ at \in 1..Len(list) /\ list[at].id = call[t].id
      /\ copy = Replaced(list[at], call[t].change)
      /\ \A j \in 1..at - 1 : list[j].id # call[t].id
  BY <1>1 DEF AInv, Knows, StoreKnows, UpdateKnows, NotYet
<1>3. list \in Seq(Records) /\ Len(list) \in Nat /\ at \in Nat
  BY <1>1, CallFields, LenProperties DEF IInv, TypeOK
<1>4. list' = [list EXCEPT ![at] = copy]
  BY <1>2, <1>3 DEF StoreUpdate, InList, Change
<1>5. \A i \in 1..Len(list) : IsFirst(i, call[t].id) <=> i = at
  BY <1>2, <1>3 DEF IsFirst
<1>6. DOMAIN list = 1..Len(list) /\ list = [i \in 1..Len(list) |-> list[i]]
  BY <1>3
<1> HIDE DEF copy, at
<1>7. list' = [i \in 1..Len(list) |-> IF i = at THEN copy ELSE list[i]]
  BY <1>4, <1>6
<1> QED
  BY <1>2, <1>5, <1>7 DEF Updated

LEMMA AssignIsDelete ==
  ASSUME IInv, AInv, NEW t \in Threads, t \notin crossed, AssignDelete(t)
  PROVE  Rest(list, Len(list), call[t].id, list')
<1>1. /\ Busy(t) /\ call[t].pc = "assign" /\ call[t].op = "delete"
      /\ list' = call[t].kept
  BY DEF AssignDelete, Doing, Busy, Change
<1>2. /\ call[t].at = Len(list) + 1
      /\ Rest(list, call[t].at - 1, call[t].id, call[t].kept)
  BY <1>1 DEF AInv, Knows, DeleteKnows
<1>3. Len(list) \in Nat
  BY LenProperties DEF IInv, TypeOK
<1>4. call[t].at - 1 = Len(list)
  BY <1>2, <1>3
<1> QED
  BY <1>1, <1>2, <1>4

LEMMA MissingIsMissing ==
  ASSUME IInv, AInv, NEW t \in Threads, t \notin crossed, UpdateMissing(t)
  PROVE  ~ Listed(call[t].id)
<1>1. Busy(t) /\ call[t].op = "update" /\ ~ InList(t)
  BY DEF UpdateMissing, Doing, Busy
<1>2. NotYet(call[t], list)
  BY <1>1 DEF AInv, Knows, UpdateKnows
<1>3. Len(list) \in Nat /\ call[t].at \in Nat /\ call[t].at > Len(list)
  BY <1>1, CallFields, LenProperties DEF IInv, TypeOK, InList
<1> QED
  BY <1>2, <1>3 DEF Listed, NotYet
-----------------------------------------------------------------------------
\* The variables of the client lists keep their types.
THEOREM TypeCorrectness == Spec => []TypeOK
<1>1. IInv => TypeOK
  BY DEF IInv
<1> QED
  BY <1>1, InitHolds, NextHolds, PTL DEF Spec

\* Whatever the number of threads, records and calls, two records of the list never have
\* one id, unless a call that another one crossed has stored or assigned.
THEOREM IdsCorrect == Spec => []IdsUnique
<1>1. IInv => IdsUnique
  BY DEF IInv
<1> QED
  BY <1>1, InitHolds, NextHolds, PTL DEF Spec

\* update_master_data and delete_master_data: a call that no other one crossed is one step
\* on the list as it is at its end, and a 404 is true by then.
THEOREM UncrossedCorrect == Spec => UncrossedIsAtomic
<1> DEFINE Whole(t) == /\ StoreUpdate(t) => list' = Updated(call[t].id, call[t].change)
                       /\ AssignDelete(t) => Rest(list, Len(list), call[t].id, list')
                       /\ UpdateMissing(t) => ~ Listed(call[t].id)
<1>1. Init => IInv /\ AInv
  BY InitHolds, AInitHolds
<1>2. IInv /\ AInv /\ [Next]_vars => IInv' /\ AInv'
  BY NextHolds, ANextHolds
<1>3. IInv /\ AInv => \A t \in Threads \ crossed : Whole(t)
  BY StoreIsUpdate, AssignIsDelete, MissingIsMissing
<1>4. IInv /\ AInv /\ [Next]_vars => [\A t \in Threads \ crossed : Whole(t)]_vars
  BY <1>3
<1> QED
  BY <1>1, <1>2, <1>4, PTL DEF Spec, UncrossedIsAtomic
=============================================================================
