----------------------------- MODULE RequestLog -----------------------------
(***************************************************************************)
(* app/request_log.py and the event stream of routers/admin.py that reads  *)
(* it: a ring buffer of the last log entries, and a bounded queue for      *)
(* every connected stream that each new entry is put into.                 *)
(*                                                                         *)
(* All of it runs on the event loop, so what happens between two awaits is *)
(* one step: adding an entry and offering it to every queue, for example.  *)
(* A stream awaits its client at every yield, and any number of requests   *)
(* may be answered meanwhile.                                              *)
(*                                                                         *)
(* An entry is its seq.  A keep-alive comment (no entry came in time)      *)
(* leaves the queue alone and is not modelled.                             *)
(***************************************************************************)
EXTENDS Integers, Sequences, SequencesExt

CONSTANTS
  Streams,     \* connections of GET /admin/api/logs/stream
  BufferSize,  \* _BUFFER_SIZE
  QueueSize,   \* _SUBSCRIBER_QUEUE_SIZE
  MaxEntries   \* bound on the number of requests

ASSUME SizeAssumption ==
  /\ BufferSize \in Nat \ {0}
  /\ QueueSize \in Nat \ {0}
  /\ MaxEntries \in Nat

VARIABLES
  next,        \* the number _seq_counter yields next
  buffer,      \* _buffer
  subscribers, \* _subscribers: the streams whose queue it holds
  queue,       \* per stream: its queue
  phase,       \* per stream: how far _sse_event_stream got
  backlog,     \* per stream: what is left of the backlog it is sending
  sent,        \* per open stream: what its client was sent
  since,       \* history: the first entry after the stream subscribed
  overrun      \* history: the streams an entry was dropped for

stream == <<queue, phase, backlog, sent, since>>
vars == <<next, buffer, subscribers, stream, overrun>>

Entries == 1..MaxEntries

TypeOK ==
  /\ next \in 1..MaxEntries + 1
  /\ buffer \in Seq(Entries) /\ Len(buffer) <= BufferSize
  /\ subscribers \subseteq Streams
  /\ queue \in [Streams -> Seq(Entries)]
  /\ \A s \in Streams : Len(queue[s]) <= QueueSize
  /\ phase \in [Streams -> {"closed", "backlog", "live"}]
  /\ backlog \in [Streams -> Seq(Entries)]
  /\ sent \in [Streams -> Seq(Entries)]
  /\ since \in [Streams -> 1..MaxEntries + 1]
  /\ overrun \subseteq Streams

Init ==
  /\ next = 1
  /\ buffer = <<>>
  /\ subscribers = {}
  /\ queue = [s \in Streams |-> <<>>]
  /\ phase = [s \in Streams |-> "closed"]
  /\ backlog = [s \in Streams |-> <<>>]
  /\ sent = [s \in Streams |-> <<>>]
  /\ since = [s \in Streams |-> 1]
  /\ overrun = {}

(***************************************************************************)
(* log_requests_middleware, once the response is known: add_entry          *)
(***************************************************************************)

\* deque(maxlen = n).append
Appended(seq, entry, n) ==
  IF Len(seq) < n THEN Append(seq, entry) ELSE Append(Tail(seq), entry)

Full == {s \in subscribers : Len(queue[s]) = QueueSize}

\* Variants: the loop ends at a full queue; the oldest entry makes room.
Offered_BreakAtFull(entry) ==
  [s \in Streams |-> IF s \in subscribers /\ Full = {}
                     THEN Append(queue[s], entry) ELSE queue[s]]
Offered_DropOldest(entry) ==
  [s \in Streams |-> IF s \in subscribers
                     THEN Appended(queue[s], entry, QueueSize) ELSE queue[s]]

\* _broadcast: put_nowait on every queue; QueueFull drops the entry for it.
Offered(entry) ==
  [s \in Streams |-> IF s \in subscribers \ Full
                     THEN Append(queue[s], entry) ELSE queue[s]]

\* Variants: the entry waits for the slowest stream; the buffer has no bound.
AddEntry_Blocking ==
  /\ next <= MaxEntries
  /\ Full = {}
  /\ next' = next + 1
  /\ buffer' = Appended(buffer, next, BufferSize)
  /\ queue' = Offered(next)
  /\ UNCHANGED <<subscribers, phase, backlog, sent, since, overrun>>

AddEntry_KeepAll ==
  /\ next <= MaxEntries
  /\ next' = next + 1
  /\ buffer' = Append(buffer, next)
  /\ queue' = Offered(next)
  /\ overrun' = overrun \cup Full
  /\ UNCHANGED <<subscribers, phase, backlog, sent, since>>

AddEntry ==
  /\ next <= MaxEntries
  /\ next' = next + 1
  /\ buffer' = Appended(buffer, next, BufferSize)
  /\ queue' = Offered(next)
  /\ overrun' = overrun \cup Full
  /\ UNCHANGED <<subscribers, phase, backlog, sent, since>>

(***************************************************************************)
(* _sse_event_stream                                                       *)
(***************************************************************************)

\* The generator starts: the backlog is the buffer as it is now.
Open(s) ==
  /\ phase[s] = "closed"
  /\ phase' = [phase EXCEPT ![s] = "backlog"]
  /\ backlog' = [backlog EXCEPT ![s] = buffer]
  /\ UNCHANGED <<next, buffer, subscribers, queue, sent, since, overrun>>

SendBacklog(s) ==
  /\ phase[s] = "backlog"
  /\ backlog[s] # <<>>
  /\ sent' = [sent EXCEPT ![s] = Append(@, Head(backlog[s]))]
  /\ backlog' = [backlog EXCEPT ![s] = Tail(@)]
  /\ UNCHANGED <<next, buffer, subscribers, queue, phase, since, overrun>>

\* A variant: the queue starts with the buffer, to close the hole.
Register_Refill(s) ==
  /\ phase[s] = "backlog"
  /\ backlog[s] = <<>>
  /\ phase' = [phase EXCEPT ![s] = "live"]
  /\ subscribers' = subscribers \cup {s}
  /\ queue' = [queue EXCEPT ![s] = buffer]
  /\ since' = [since EXCEPT ![s] = next]
  /\ UNCHANGED <<next, buffer, backlog, sent, overrun>>

\* register_subscriber(), after the last entry of the backlog was sent.
Register(s) ==
  /\ phase[s] = "backlog"
  /\ backlog[s] = <<>>
  /\ phase' = [phase EXCEPT ![s] = "live"]
  /\ subscribers' = subscribers \cup {s}
  /\ since' = [since EXCEPT ![s] = next]
  /\ UNCHANGED <<next, buffer, queue, backlog, sent, overrun>>

SendLive(s) ==
  /\ phase[s] = "live"
  /\ queue[s] # <<>>
  /\ sent' = [sent EXCEPT ![s] = Append(@, Head(queue[s]))]
  /\ queue' = [queue EXCEPT ![s] = Tail(@)]
  /\ UNCHANGED <<next, buffer, subscribers, phase, backlog, since, overrun>>

\* A variant: the queue stays subscribed.
Disconnect_Leaking(s) ==
  /\ phase[s] # "closed"
  /\ phase' = [phase EXCEPT ![s] = "closed"]
  /\ backlog' = [backlog EXCEPT ![s] = <<>>]
  /\ sent' = [sent EXCEPT ![s] = <<>>]
  /\ UNCHANGED <<next, buffer, subscribers, queue, since, overrun>>

\* The connection goes away and the server cancels the generator wherever it
\* is.  unregister_subscriber() runs if it was in its loop; the queue is gone.
Disconnect(s) ==
  /\ phase[s] # "closed"
  /\ phase' = [phase EXCEPT ![s] = "closed"]
  /\ subscribers' = IF phase[s] = "live" THEN subscribers \ {s} ELSE subscribers
  /\ backlog' = [backlog EXCEPT ![s] = <<>>]
  /\ queue' = [queue EXCEPT ![s] = <<>>]
  /\ sent' = [sent EXCEPT ![s] = <<>>]
  /\ overrun' = overrun \ {s}
  /\ UNCHANGED <<next, buffer, since>>

Next ==
  \/ AddEntry
  \/ \E s \in Streams :
       \/ Open(s)
       \/ SendBacklog(s)
       \/ Register(s)
       \/ SendLive(s)
       \/ Disconnect(s)

Spec == Init /\ [][Next]_vars

\* The event loop runs every request to its end, whatever the streams' clients do.
RequestFairness == WF_vars(AddEntry)

FairSpec == Spec /\ RequestFairness

(***************************************************************************)
(* Properties                                                              *)
(***************************************************************************)

\* What a stream was sent and is about to be sent.
Feed(s) == sent[s] \o backlog[s] \o queue[s]

\* A client is never sent an entry twice, nor an older one after a newer one,
\* although its entries come first from the buffer and then from its queue.
InOrder == \A s \in Streams : \A i, j \in 1..Len(Feed(s)) : i < j => Feed(s)[i] < Feed(s)[j]

\* A live stream whose own queue never overran is sent every entry since it
\* subscribed, however slow the clients of the other streams are.
LiveComplete ==
  \A s \in Streams \ overrun :
    phase[s] = "live" => since[s]..next - 1 \subseteq ToSet(Feed(s))

\* Closed connections leave no queue behind to be filled, and no live stream
\* goes without one.
NoLeak ==
  /\ subscribers = {s \in Streams : phase[s] = "live"}
  /\ \A s \in Streams \ subscribers : queue[s] = <<>>

\* A client that does not read delays no request: all of them are answered.
RequestsFinish == <>(next > MaxEntries)

\* An entry that reached the queue of a stream reaches its client, if that client
\* reads what it is sent, or it disconnects; what other clients do has no part.
QueuedIsSent ==
  \A s \in Streams : WF_vars(SendLive(s)) =>
    \A e \in Entries :
      e \in ToSet(queue[s]) ~> e \in ToSet(sent[s]) \/ phase[s] # "live"
=============================================================================
