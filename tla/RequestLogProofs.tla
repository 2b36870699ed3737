-------------------------- MODULE RequestLogProofs --------------------------
(***************************************************************************)
(* Theorems about the request log and its event streams, for any number    *)
(* of streams and requests and for every size of the buffer and queues.    *)
(***************************************************************************)
EXTENDS RequestLog, SequenceTheorems, TLAPS

Increasing(q) == \A i, j \in 1..Len(q) : i < j => q[i] < q[j]
Below(q, n) == \A i \in 1..Len(q) : q[i] < n

\* What a stream holds fits what it is doing: nothing is left of the backlog
\* once it is live, and a closed one was sent nothing.
PhasesFit ==
  \A s \in Streams :
    /\ phase[s] # "backlog" => backlog[s] = <<>>
    /\ phase[s] = "closed" => sent[s] = <<>>

\* Entries come in order, and the next one is still to come.
FeedOrdered(s) == Increasing(Feed(s)) /\ Below(Feed(s), next)

LogInv ==
  /\ TypeOK
  /\ NoLeak
  /\ PhasesFit
  /\ Increasing(buffer) /\ Below(buffer, next)
  /\ \A s \in Streams : FeedOrdered(s) /\ since[s] <= next
  /\ LiveComplete
-----------------------------------------------------------------------------
\* A newer entry at the end keeps a sequence in order.
LEMMA AppendNext ==
  ASSUME NEW q \in Seq(Int), NEW n \in Int, Increasing(q), Below(q, n)
  PROVE  Increasing(Append(q, n)) /\ Below(Append(q, n), n + 1)
<1> DEFINE r == Append(q, n)
<1>1. /\ Len(r) = Len(q) + 1 /\ Len(q) \in Nat
      /\ \A i \in 1..Len(q) : r[i] = q[i] /\ q[i] \in Int
      /\ r[Len(q) + 1] = n
  BY AppendProperties
<1> HIDE DEF r
<1>2. Increasing(r)
  BY <1>1 DEF Increasing, Below
<1>3. Below(r, n + 1)
  BY <1>1 DEF Below
<1> QED
  BY <1>2, <1>3 DEF r

\* The oldest entry may leave.
LEMMA TailOrdered ==
  ASSUME NEW q \in Seq(Int), q # <<>>, NEW n \in Int, Increasing(q), Below(q, n)
  PROVE  Increasing(Tail(q)) /\ Below(Tail(q), n)
<1>1. /\ Len(Tail(q)) = Len(q) - 1 /\ Len(q) \in Nat
      /\ \A i \in 1..Len(Tail(q)) : Tail(q)[i] = q[i + 1]
  BY HeadTailProperties
<1> QED
  BY <1>1 DEF Increasing, Below

\* The buffer keeps its bound, and its order.
LEMMA AppendedHolds ==
  ASSUME NEW q \in Seq(Entries), NEW e \in Entries, NEW n \in Nat \ {0}, Len(q) <= n,
         Increasing(q), Below(q, e)
  PROVE  /\ Appended(q, e, n) \in Seq(Entries) /\ Len(Appended(q, e, n)) <= n
         /\ Increasing(Appended(q, e, n)) /\ Below(Appended(q, e, n), e + 1)
<1>1. Entries \subseteq Int /\ e \in Int /\ q \in Seq(Int) /\ Len(q) \in Nat
  BY SizeAssumption DEF Entries
<1>2. CASE Len(q) < n
  <2>1. Append(q, e) \in Seq(Entries) /\ Len(Append(q, e)) = Len(q) + 1
    BY AppendProperties
  <2> QED
    BY <1>1, <1>2, <2>1, AppendNext DEF Appended
<1>3. CASE Len(q) = n
  <2>1. q # <<>>
    BY <1>3
  <2>2. Tail(q) \in Seq(Entries) /\ Len(Tail(q)) = Len(q) - 1
    BY <2>1, HeadTailProperties
  <2>3. Append(Tail(q), e) \in Seq(Entries) /\ Len(Append(Tail(q), e)) = Len(q)
    BY <1>1, <2>2, AppendProperties
  <2>4. Increasing(Tail(q)) /\ Below(Tail(q), e) /\ Tail(q) \in Seq(Int)
    BY <1>1, <2>1, <2>2, TailOrdered
  <2>5. Increasing(Append(Tail(q), e)) /\ Below(Append(Tail(q), e), e + 1)
    BY <1>1, <2>4, AppendNext
  <2> QED
    BY <1>3, <2>3, <2>5 DEF Appended
<1> QED
  BY <1>1, <1>2, <1>3

\* Adding to the last of three sequences adds to the three.
LEMMA AppendToLast ==
  ASSUME NEW S, NEW a \in Seq(S), NEW b \in Seq(S), NEW c \in Seq(S), NEW e \in S
  PROVE  a \o b \o Append(c, e) = Append(a \o b \o c, e)
<1>1. a \o b \in Seq(S) /\ (a \o b) \o c \in Seq(S) /\ <<e>> \in Seq(S)
  BY ConcatProperties
<1>2. Append(c, e) = c \o <<e>> /\ Append(a \o b \o c, e) = (a \o b \o c) \o <<e>>
  BY <1>1, AppendIsConcat
<1>3. ((a \o b) \o c) \o <<e>> = (a \o b) \o (c \o <<e>>)
  BY <1>1, ConcatAssociative
<1> QED
  BY <1>2, <1>3

\* The first of one sequence may move to the end of the one before it.
LEMMA MoveHead ==
  ASSUME NEW S, NEW a \in Seq(S), NEW b \in Seq(S), b # <<>>
  PROVE  Append(a, Head(b)) \o Tail(b) = a \o b
<1> DEFINE h == <<Head(b)>>
<1>1. Head(b) \in S /\ Tail(b) \in Seq(S) /\ Len(b) \in Nat \ {0} /\ Head(b) = b[1]
  BY HeadTailProperties, EmptySeq
<1>2. Append(a, Head(b)) = a \o h /\ h \in Seq(S)
  BY <1>1, AppendIsConcat
<1>3. h \o Tail(b) = b
  <2>1. SubSeq(b, 1, Len(b)) = <<b[1]>> \o SubSeq(b, 2, Len(b))
    BY <1>1, SubSeqRecursiveFirst
  <2>2. SubSeq(b, 1, Len(b)) = b /\ SubSeq(b, 2, Len(b)) = Tail(b)
    BY SubSeqFull, TailIsSubSeq
  <2> QED
    BY <1>1, <2>1, <2>2
<1> HIDE DEF h
<1>4. (a \o h) \o Tail(b) = a \o (h \o Tail(b))
  BY <1>1, <1>2, ConcatAssociative
<1> QED
  BY <1>2, <1>3, <1>4

LEMMA ToSetAppend ==
  ASSUME NEW S, NEW q \in Seq(S), NEW e \in S
  PROVE  ToSet(q) \cup {e} \subseteq ToSet(Append(q, e))
<1>1. /\ DOMAIN q = 1..Len(q) /\ Len(q) \in Nat
      /\ DOMAIN Append(q, e) = 1..Len(q) + 1
      /\ \A i \in 1..Len(q) : Append(q, e)[i] = q[i]
      /\ Append(q, e)[Len(q) + 1] = e
  BY AppendProperties, LenProperties
<1> QED
  BY <1>1 DEF ToSet
-----------------------------------------------------------------------------
\* The feed of a stream that holds nothing else is its backlog.
LEMMA FeedType ==
  ASSUME TypeOK, NEW s \in Streams
  PROVE  /\ sent[s] \in Seq(Entries) /\ backlog[s] \in Seq(Entries) /\ queue[s] \in Seq(Entries)
         /\ Feed(s) \in Seq(Entries)
<1>1. sent[s] \in Seq(Entries) /\ backlog[s] \in Seq(Entries) /\ queue[s] \in Seq(Entries)
  BY DEF TypeOK
<1> QED
  BY <1>1, ConcatProperties DEF Feed

LEMMA EmptyFeed == <<>> \o <<>> \o <<>> = <<>>
  BY ConcatEmptySeq, EmptySeq

\* A step that leaves the feeds and the counter alone leaves their order alone.
LEMMA FeedKept ==
  ASSUME NEW s \in Streams, FeedOrdered(s), Feed(s)' = Feed(s), next' = next
  PROVE  FeedOrdered(s)'
  BY DEF FeedOrdered
-----------------------------------------------------------------------------
LEMMA LogInitHolds == Init => LogInv
<1> SUFFICES ASSUME Init PROVE LogInv
  OBVIOUS
<1>1. TypeOK
  BY SizeAssumption, EmptySeq DEF Init, TypeOK
<1>2. NoLeak /\ PhasesFit
  BY DEF Init, NoLeak, PhasesFit
<1>3. \A s \in Streams : Feed(s) = <<>>
  BY EmptyFeed DEF Init, Feed
<1>4. \A s \in Streams : FeedOrdered(s) /\ since[s] <= next
  BY <1>3 DEF Init, FeedOrdered, Increasing, Below
<1>5. Increasing(buffer) /\ Below(buffer, next)
  BY DEF Init, Increasing, Below
<1>6. LiveComplete
  BY DEF Init, LiveComplete
<1> QED
  BY <1>1, <1>2, <1>4, <1>5, <1>6 DEF LogInv

\* A request reaches every subscribed queue with room, and no other feed.
LEMMA AddEntryHolds == ASSUME LogInv, AddEntry PROVE LogInv'
<1>1. /\ next \in Entries /\ next' = next + 1 /\ next' \in 1..MaxEntries + 1 /\ next \in Int
      /\ UNCHANGED <<subscribers, phase, backlog, sent, since>>
      /\ queue' = Offered(next) /\ overrun' = overrun \cup Full
      /\ buffer' = Appended(buffer, next, BufferSize)
      /\ TypeOK
  BY SizeAssumption DEF AddEntry, LogInv, TypeOK, Entries
<1>2. /\ buffer' \in Seq(Entries) /\ Len(buffer') <= BufferSize
      /\ Increasing(buffer)' /\ Below(buffer, next)'
  <2>1. /\ buffer \in Seq(Entries) /\ Len(buffer) <= BufferSize /\ BufferSize \in Nat \ {0}
        /\ Increasing(buffer) /\ Below(buffer, next)
    BY SizeAssumption DEF LogInv, TypeOK
  <2> QED
    BY <1>1, <2>1, AppendedHolds
<1>3. ASSUME NEW s \in Streams
      PROVE  /\ queue'[s] = IF s \in subscribers \ Full THEN Append(queue[s], next) ELSE queue[s]
             /\ Feed(s)' = IF s \in subscribers \ Full THEN Append(Feed(s), next) ELSE Feed(s)
  <2>1. queue'[s] = IF s \in subscribers \ Full THEN Append(queue[s], next) ELSE queue[s]
    BY <1>1 DEF Offered
  <2>2. sent[s] \o backlog[s] \o Append(queue[s], next) = Append(Feed(s), next)
    <3>1. sent[s] \in Seq(Entries) /\ backlog[s] \in Seq(Entries) /\ queue[s] \in Seq(Entries)
      BY <1>1, FeedType
    <3>2. next \in Entries
      BY <1>1
    <3>3. (sent[s] \o backlog[s]) \o Append(queue[s], next)
            = Append((sent[s] \o backlog[s]) \o queue[s], next)
      <4>1. \A a, b, c \in Seq(Entries), e \in Entries :
              (a \o b) \o Append(c, e) = Append((a \o b) \o c, e)
        BY AppendToLast
      <4> QED
        BY <3>1, <3>2, <4>1
    <3> QED
      BY <3>3 DEF Feed
  <2> QED
    BY <1>1, <2>1, <2>2 DEF Feed
<1>4. ASSUME NEW s \in Streams
      PROVE  queue'[s] \in Seq(Entries) /\ Len(queue'[s]) <= QueueSize
  <2>1. queue[s] \in Seq(Entries) /\ Len(queue[s]) <= QueueSize /\ Len(queue[s]) \in Nat
    BY <1>1 DEF TypeOK
  <2>2. Append(queue[s], next) \in Seq(Entries) /\ Len(Append(queue[s], next)) = Len(queue[s]) + 1
    BY <1>1, <2>1, AppendProperties
  <2>3. s \in subscribers \ Full => Len(queue[s]) + 1 <= QueueSize
    BY <2>1, SizeAssumption DEF Full
  <2> QED
    BY <1>3, <2>1, <2>2, <2>3
<1>5. TypeOK'
  <2>1. queue' \in [Streams -> Seq(Entries)]
    BY <1>1, <1>4 DEF Offered
  <2>2. overrun' \subseteq Streams
    BY <1>1 DEF TypeOK, Full
  <2> QED
    BY <1>1, <1>2, <1>4, <2>1, <2>2 DEF TypeOK
<1>6. NoLeak' /\ PhasesFit'
  BY <1>1, <1>3 DEF LogInv, NoLeak, PhasesFit
<1>7. ASSUME NEW s \in Streams PROVE FeedOrdered(s)' /\ since'[s] <= next'
  <2>1. Increasing(Feed(s)) /\ Below(Feed(s), next) /\ since[s] <= next
    BY DEF LogInv, FeedOrdered
  <2>2. /\ Feed(s) \in Seq(Int) /\ Len(Feed(s)) \in Nat
        /\ \A i \in 1..Len(Feed(s)) : Feed(s)[i] \in Int
    <3>1. Feed(s) \in Seq(Entries) /\ Entries \subseteq Int
      BY <1>1, FeedType, SizeAssumption DEF Entries
    <3>2. Feed(s) \in Seq(Int)
      BY <3>1, SeqMonotonic
    <3> QED
      BY <3>2, LenProperties, ElementOfSeq
  <2>3. Increasing(Append(Feed(s), next)) /\ Below(Append(Feed(s), next), next + 1)
    BY <1>1, <2>1, <2>2, AppendNext
  <2>4. Below(Feed(s), next + 1)
    BY <1>1, <2>1, <2>2 DEF Below
  <2>5. Increasing(Feed(s)') /\ Below(Feed(s)', next + 1)
    BY <1>3, <2>1, <2>3, <2>4
  <2>6. since[s] \in Int
    BY <1>1 DEF TypeOK
  <2> QED
    BY <1>1, <2>1, <2>5, <2>6 DEF FeedOrdered
<1>8. LiveComplete'
  <2> SUFFICES ASSUME NEW s \in Streams, s \notin overrun', phase[s] = "live"
               PROVE  since[s]..next \subseteq ToSet(Feed(s)')
    BY <1>1 DEF LiveComplete
  <2>1. s \notin overrun /\ s \in subscribers \ Full
    BY <1>1 DEF LogInv, NoLeak
  <2>2. since[s]..next - 1 \subseteq ToSet(Feed(s))
    BY <2>1 DEF LogInv, LiveComplete
  <2>3. ToSet(Feed(s)) \cup {next} \subseteq ToSet(Append(Feed(s), next))
    BY <1>1, FeedType, ToSetAppend
  <2>4. since[s]..next \subseteq (since[s]..next - 1) \cup {next}
    BY <1>1 DEF TypeOK
  <2> QED
    BY <1>3, <2>1, <2>2, <2>3, <2>4
<1> QED
  BY <1>2, <1>5, <1>6, <1>7, <1>8 DEF LogInv

\* What a step of one stream leaves alone, when the other parts of LogInv are in hand.
LEMMA StreamStep ==
  ASSUME LogInv, TypeOK', NoLeak', PhasesFit', NEW s \in Streams,
         next' = next, buffer' = buffer, overrun' \cup {s} = overrun \cup {s},
         FeedOrdered(s)', since'[s] <= next',
         \A u \in Streams \ {s} : /\ phase'[u] = phase[u] /\ since'[u] = since[u]
                                  /\ Feed(u)' = Feed(u),
         s \notin overrun' /\ phase'[s] = "live"
           => since'[s]..next - 1 \subseteq ToSet(Feed(s)')
  PROVE  LogInv'
<1>1. \A u \in Streams : FeedOrdered(u)' /\ since'[u] <= next'
  BY FeedKept DEF LogInv
<1>2. LiveComplete'
  <2> SUFFICES ASSUME NEW u \in Streams, u \notin overrun', phase'[u] = "live"
               PROVE  since'[u]..next - 1 \subseteq ToSet(Feed(u)')
    BY DEF LiveComplete
  <2>1. CASE u = s
    BY <2>1
  <2>2. CASE u # s
    <3>1. u \notin overrun /\ phase[u] = "live"
      BY <2>2
    <3>2. since[u]..next - 1 \subseteq ToSet(Feed(u))
      BY <3>1 DEF LogInv, LiveComplete
    <3> QED
      BY <2>2, <3>2
  <2> QED
    BY <2>1, <2>2
<1>3. Increasing(buffer)' /\ Below(buffer, next)'
  BY DEF LogInv
<1> QED
  BY <1>1, <1>2, <1>3 DEF LogInv

\* A stream opens: all it holds is the backlog, a copy of the buffer.
LEMMA OpenHolds == ASSUME LogInv, NEW s \in Streams, Open(s) PROVE LogInv'
<1>1. /\ phase[s] = "closed" /\ TypeOK
      /\ phase' = [phase EXCEPT ![s] = "backlog"]
      /\ backlog' = [backlog EXCEPT ![s] = buffer]
      /\ UNCHANGED <<next, buffer, subscribers, queue, sent, since, overrun>>
  BY DEF Open, LogInv
<1>2. TypeOK'
  BY <1>1 DEF TypeOK
<1>3. /\ phase'[s] = "backlog" /\ backlog'[s] = buffer
      /\ \A u \in Streams \ {s} : phase'[u] = phase[u] /\ backlog'[u] = backlog[u]
  BY <1>1 DEF TypeOK
<1>4. NoLeak' /\ PhasesFit'
  BY <1>1, <1>3 DEF LogInv, NoLeak, PhasesFit
<1>5. Feed(s)' = buffer
  <2>1. sent[s] = <<>> /\ queue[s] = <<>> /\ buffer \in Seq(Entries)
    BY <1>1 DEF LogInv, NoLeak, PhasesFit, TypeOK
  <2>2. <<>> \o buffer = buffer /\ buffer \o <<>> = buffer
    BY <2>1, ConcatEmptySeq
  <2> QED
    BY <1>1, <1>3, <2>1, <2>2 DEF Feed
<1>6. FeedOrdered(s)' /\ since'[s] <= next'
  BY <1>1, <1>5 DEF LogInv, FeedOrdered
<1>7. \A u \in Streams \ {s} : Feed(u)' = Feed(u)
  BY <1>1, <1>3 DEF Feed
<1> QED
  BY <1>1, <1>2, <1>3, <1>4, <1>6, <1>7, StreamStep

\* An entry moves from the backlog to what was sent: the feed is the same.
LEMMA SendBacklogHolds == ASSUME LogInv, NEW s \in Streams, SendBacklog(s) PROVE LogInv'
<1>1. /\ phase[s] = "backlog" /\ backlog[s] # <<>> /\ TypeOK
      /\ sent' = [sent EXCEPT ![s] = Append(sent[s], Head(backlog[s]))]
      /\ backlog' = [backlog EXCEPT ![s] = Tail(backlog[s])]
      /\ UNCHANGED <<next, buffer, subscribers, queue, phase, since, overrun>>
  BY DEF SendBacklog, LogInv
<1>2. sent[s] \in Seq(Entries) /\ backlog[s] \in Seq(Entries) /\ queue[s] \in Seq(Entries)
  BY <1>1, FeedType
<1>3. /\ sent'[s] = Append(sent[s], Head(backlog[s])) /\ backlog'[s] = Tail(backlog[s])
      /\ \A u \in Streams \ {s} : sent'[u] = sent[u] /\ backlog'[u] = backlog[u]
  BY <1>1 DEF TypeOK
<1>4. sent'[s] \in Seq(Entries) /\ backlog'[s] \in Seq(Entries)
  BY <1>1, <1>2, <1>3, HeadTailProperties, AppendProperties
<1>5. TypeOK'
  <2>1. sent' \in [Streams -> Seq(Entries)] /\ backlog' \in [Streams -> Seq(Entries)]
    BY <1>1, <1>3, <1>4 DEF TypeOK
  <2> QED
    BY <1>1, <2>1 DEF TypeOK
<1>6. NoLeak' /\ PhasesFit'
  BY <1>1, <1>3 DEF LogInv, NoLeak, PhasesFit
<1>7. Feed(s)' = Feed(s)
  <2>1. sent'[s] \o backlog'[s] = sent[s] \o backlog[s]
    BY <1>1, <1>2, <1>3, MoveHead
  <2> QED
    BY <1>1, <2>1 DEF Feed
<1>8. FeedOrdered(s)' /\ since'[s] <= next'
  BY <1>1, <1>7, FeedKept DEF LogInv
<1>9. \A u \in Streams \ {s} : Feed(u)' = Feed(u)
  BY <1>1, <1>3 DEF Feed
<1> QED
  BY <1>1, <1>5, <1>6, <1>8, <1>9, StreamStep

\* The queue is registered: from here on nothing is missed, and nothing has come yet.
LEMMA RegisterHolds == ASSUME LogInv, NEW s \in Streams, Register(s) PROVE LogInv'
<1>1. /\ phase[s] = "backlog" /\ backlog[s] = <<>> /\ TypeOK
      /\ phase' = [phase EXCEPT ![s] = "live"]
      /\ subscribers' = subscribers \cup {s}
      /\ since' = [since EXCEPT ![s] = next]
      /\ UNCHANGED <<next, buffer, queue, backlog, sent, overrun>>
  BY DEF Register, LogInv
<1>2. TypeOK' /\ next \in Int
  BY <1>1, SizeAssumption DEF TypeOK
<1>3. /\ phase'[s] = "live" /\ since'[s] = next
      /\ \A u \in Streams \ {s} : phase'[u] = phase[u] /\ since'[u] = since[u]
  BY <1>1 DEF TypeOK
<1>4. NoLeak' /\ PhasesFit'
  BY <1>1, <1>3 DEF LogInv, NoLeak, PhasesFit
<1>5. \A u \in Streams : Feed(u)' = Feed(u)
  BY <1>1 DEF Feed
<1>6. FeedOrdered(s)' /\ since'[s] <= next'
  BY <1>1, <1>2, <1>3, <1>5, FeedKept DEF LogInv
<1>7. since'[s]..next - 1 = {}
  BY <1>2, <1>3
<1> QED
  BY <1>1, <1>2, <1>3, <1>4, <1>5, <1>6, <1>7, StreamStep

\* An entry moves from the queue to what was sent: the feed is the same.
LEMMA SendLiveHolds == ASSUME LogInv, NEW s \in Streams, SendLive(s) PROVE LogInv'
<1>1. /\ phase[s] = "live" /\ queue[s] # <<>> /\ TypeOK
      /\ sent' = [sent EXCEPT ![s] = Append(sent[s], Head(queue[s]))]
      /\ queue' = [queue EXCEPT ![s] = Tail(queue[s])]
      /\ UNCHANGED <<next, buffer, subscribers, phase, backlog, since, overrun>>
  BY DEF SendLive, LogInv
<1>2. /\ sent[s] \in Seq(Entries) /\ queue[s] \in Seq(Entries)
      /\ backlog[s] = <<>> /\ Len(queue[s]) <= QueueSize
  BY <1>1, FeedType DEF LogInv, PhasesFit, TypeOK
<1>3. /\ sent'[s] = Append(sent[s], Head(queue[s])) /\ queue'[s] = Tail(queue[s])
      /\ \A u \in Streams \ {s} : sent'[u] = sent[u] /\ queue'[u] = queue[u]
  BY <1>1 DEF TypeOK
<1>4. /\ sent'[s] \in Seq(Entries) /\ queue'[s] \in Seq(Entries)
      /\ Len(queue'[s]) <= QueueSize
  <2>1. /\ Head(queue[s]) \in Entries /\ Tail(queue[s]) \in Seq(Entries)
        /\ Len(Tail(queue[s])) = Len(queue[s]) - 1 /\ Len(queue[s]) \in Nat
    BY <1>1, <1>2, HeadTailProperties
  <2>2. Append(sent[s], Head(queue[s])) \in Seq(Entries)
    BY <1>2, <2>1, AppendProperties
  <2> QED
    BY <1>2, <1>3, <2>1, <2>2, SizeAssumption
<1>5. TypeOK'
  <2>1. sent' \in [Streams -> Seq(Entries)] /\ queue' \in [Streams -> Seq(Entries)]
    BY <1>1, <1>3, <1>4 DEF TypeOK
  <2>2. \A u \in Streams : Len(queue'[u]) <= QueueSize
    BY <1>1, <1>3, <1>4 DEF TypeOK
  <2> QED
    BY <1>1, <2>1, <2>2 DEF TypeOK
<1>6. NoLeak' /\ PhasesFit'
  BY <1>1, <1>3 DEF LogInv, NoLeak, PhasesFit
<1>7. Feed(s)' = Feed(s)
  <2>1. \A q \in Seq(Entries) : q \o <<>> = q
    BY ConcatEmptySeq
  <2>2. sent'[s] \o queue'[s] = sent[s] \o queue[s]
    BY <1>1, <1>2, <1>3, MoveHead
  <2> QED
    BY <1>1, <1>2, <1>4, <2>1, <2>2 DEF Feed
<1>8. FeedOrdered(s)' /\ since'[s] <= next'
  BY <1>1, <1>7, FeedKept DEF LogInv
<1>9. \A u \in Streams \ {s} : Feed(u)' = Feed(u)
  BY <1>1, <1>3 DEF Feed
<1>10. s \notin overrun' => since'[s]..next - 1 \subseteq ToSet(Feed(s)')
  BY <1>1, <1>7 DEF LogInv, LiveComplete
<1> QED
  BY <1>1, <1>5, <1>6, <1>8, <1>9, <1>10, StreamStep

\* A disconnected stream holds nothing any more, wherever it was.
LEMMA DisconnectHolds == ASSUME LogInv, NEW s \in Streams, Disconnect(s) PROVE LogInv'
<1>1. /\ phase[s] # "closed" /\ TypeOK
      /\ phase' = [phase EXCEPT ![s] = "closed"]
      /\ subscribers' = IF phase[s] = "live" THEN subscribers \ {s} ELSE subscribers
      /\ backlog' = [backlog EXCEPT ![s] = <<>>]
      /\ queue' = [queue EXCEPT ![s] = <<>>]
      /\ sent' = [sent EXCEPT ![s] = <<>>]
      /\ overrun' = overrun \ {s}
      /\ UNCHANGED <<next, buffer, since>>
  BY DEF Disconnect, LogInv
<1>2. /\ phase'[s] = "closed" /\ backlog'[s] = <<>> /\ queue'[s] = <<>> /\ sent'[s] = <<>>
      /\ \A u \in Streams \ {s} :
           /\ phase'[u] = phase[u] /\ backlog'[u] = backlog[u]
           /\ queue'[u] = queue[u] /\ sent'[u] = sent[u]
  BY <1>1 DEF TypeOK
<1>3. TypeOK'
  <2>1. <<>> \in Seq(Entries) /\ Len(<<>>) <= QueueSize
    BY EmptySeq, SizeAssumption
  <2>2. \A u \in Streams : Len(queue'[u]) <= QueueSize
    BY <1>1, <1>2, <2>1 DEF TypeOK
  <2> QED
    BY <1>1, <2>1, <2>2 DEF TypeOK
<1>4. NoLeak' /\ PhasesFit'
  BY <1>1, <1>2 DEF LogInv, NoLeak, PhasesFit
<1>5. Feed(s)' = <<>>
  BY <1>2, EmptyFeed DEF Feed
<1>6. FeedOrdered(s)' /\ since'[s] <= next'
  BY <1>1, <1>5 DEF LogInv, FeedOrdered, Increasing, Below
<1>7. \A u \in Streams \ {s} : Feed(u)' = Feed(u)
  BY <1>1, <1>2 DEF Feed
<1> QED
  BY <1>1, <1>2, <1>3, <1>4, <1>6, <1>7, StreamStep
-----------------------------------------------------------------------------
LEMMA LogNextHolds == LogInv /\ [Next]_vars => LogInv'
<1> SUFFICES ASSUME LogInv, [Next]_vars PROVE LogInv'
  OBVIOUS
<1>1. CASE UNCHANGED vars
  BY <1>1 DEF vars, stream, LogInv, TypeOK, NoLeak, PhasesFit, Increasing, Below,
     FeedOrdered, Feed, LiveComplete
<1>2. CASE AddEntry
  BY <1>2, AddEntryHolds
<1>3. ASSUME NEW s \in Streams, Open(s) PROVE LogInv'
  BY <1>3, OpenHolds
<1>4. ASSUME NEW s \in Streams, SendBacklog(s) PROVE LogInv'
  BY <1>4, SendBacklogHolds
<1>5. ASSUME NEW s \in Streams, Register(s) PROVE LogInv'
  BY <1>5, RegisterHolds
<1>6. ASSUME NEW s \in Streams, SendLive(s) PROVE LogInv'
  BY <1>6, SendLiveHolds
<1>7. ASSUME NEW s \in Streams, Disconnect(s) PROVE LogInv'
  BY <1>7, DisconnectHolds
<1> QED
  BY <1>1, <1>2, <1>3, <1>4, <1>5, <1>6, <1>7 DEF Next

LEMMA LogInvariant == Spec => []LogInv
<1> QED
  BY LogInitHolds, LogNextHolds, PTL DEF Spec

\* The variables keep their types: no queue outgrows its bound, nor the buffer its.
THEOREM LogTyped == Spec => []TypeOK
<1>1. LogInv => TypeOK
  BY DEF LogInv
<1> QED
  BY <1>1, LogInvariant, PTL

\* For any number of streams and any sizes, no client is sent an entry twice or an
\* older one after a newer one, whichever part of its feed it comes from.
THEOREM FeedsInOrder == Spec => []InOrder
<1>1. LogInv => InOrder
  BY DEF LogInv, FeedOrdered, Increasing, InOrder
<1> QED
  BY <1>1, LogInvariant, PTL

\* For any sizes, a live stream whose own queue never overran misses no entry since
\* it subscribed, whatever the other streams do.
THEOREM LiveStreamsComplete == Spec => []LiveComplete
<1>1. LogInv => LiveComplete
  BY DEF LogInv
<1> QED
  BY <1>1, LogInvariant, PTL

\* Every live stream has its queue subscribed, and no closed one leaves one behind.
THEOREM QueuesReleased == Spec => []NoLeak
<1>1. LogInv => NoLeak
  BY DEF LogInv
<1> QED
  BY <1>1, LogInvariant, PTL
=============================================================================
