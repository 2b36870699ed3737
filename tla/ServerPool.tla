----------------------------- MODULE ServerPool -----------------------------
(***************************************************************************)
(* Requests that a handler sends to its own server: the snapshots of       *)
(* routers/snapshots.py and the calls of routers/relay.py, on the thread   *)
(* pool that runs every handler but the event stream's.                    *)
(*                                                                         *)
(* Requests are numbered as they arrive, and wait for a thread in this     *)
(* order.  A handler that asks its own server keeps its thread while the   *)
(* request it has sent, its child, waits for one.  A read that takes 30    *)
(* seconds raises; the server goes on with a child nobody waits for.       *)
(*                                                                         *)
(* The stream of log entries is answered by the event loop and never ends. *)
(* It sends something every 15 seconds, so a read of it never times out.   *)
(***************************************************************************)
EXTENDS Naturals, Sequences, SequencesExt, FiniteSetsExt

CONSTANTS
  Paths,       \* what can be read with a GET, its query included
  Stream,      \* the stream among them
  Covered,     \* for the name of each prefix, the paths it covers
  Outside,     \* a server that is not this one
  PoolSize,    \* threads of the pool
  LogSize,     \* entries that the log keeps
  Logs,        \* what earlier requests may have left of it
  MaxArrivals, \* bounds the requests that clients send
  Missing, Truncated, Mixed  \* files that hold no answer

ASSUME PoolAssumption ==
  /\ PoolSize \in Nat \ {0} /\ LogSize \in Nat \ {0} /\ MaxArrivals \in Nat
  /\ Stream \in Paths /\ Outside \notin Paths
  /\ \A entries \in Logs : entries \in Seq(Paths) /\ Len(entries) <= LogSize
  /\ \A name \in DOMAIN Covered : Covered[name] \subseteq Paths

VARIABLES
  requests,   \* all requests, as they arrived
  log,        \* the paths of the GETs in the ring buffer of the log
  files,      \* for each path, the request whose answer its snapshot holds
  overlapped  \* history: the snapshots of a path that another one was saving meanwhile

vars == <<requests, log, files, overlapped>>

Requests == 1..Len(requests)

\* "left" is what a snapshot or a relay has still to ask for, "child" the request it
\* has sent for the first of them, "open" says that it has the file open for it.
Request(kind, about, parent) ==
  [kind |-> kind, about |-> about, parent |-> parent,
   state |-> IF kind = "get" /\ about = Stream THEN "streaming" ELSE "queued",
   left |-> <<>>, child |-> 0, open |-> FALSE]

Init ==
  /\ requests = <<>>
  /\ log \in Logs
  /\ files = [p \in Paths \ {Stream} |-> Missing]
  /\ overlapped = {}

Is(i, kind, state) == requests[i].kind = kind /\ requests[i].state = state

Waiting == {i \in Requests : requests[i].state = "queued"}
Running == {i \in Requests : requests[i].state = "running"}

\* The GET is logged: the stream's when it begins, any other once its body is complete.
Logged(path) == LET longer == Append(log, path)
                IN  SubSeq(longer, Max({1, Len(longer) - LogSize + 1}), Len(longer))

Arrived == Cardinality({i \in Requests : requests[i].parent = 0})

Arrive(kind, about) ==
  /\ Arrived < MaxArrivals
  /\ requests' = Append(requests, Request(kind, about, 0))
  /\ log' = IF kind = "get" /\ about = Stream THEN Logged(Stream) ELSE log
  /\ UNCHANGED <<files, overlapped>>

ClientGets(path) == Arrive("get", path)
SaveSnapshots(name) == Arrive("snapshot", name)
Relay(target) == Arrive("relay", target)

\* The client of a stream closes it.  Nobody closes one that a handler reads.
Disconnect(i) ==
  /\ Is(i, "get", "streaming")
  /\ requests[i].parent = 0
  /\ requests' = [requests EXCEPT ![i].state = "done"]
  /\ UNCHANGED <<log, files, overlapped>>

\* _distinct_get_variants: each path once, the oldest first.
Variants(name) ==
  LET isFirst(k) == \A j \in 1..k - 1 : log[j] # log[k]
      firsts == {k \in 1..Len(log) : log[k] \in Covered[name] /\ isFirst(k)}
  IN  [n \in 1..Cardinality(firsts) |->
         log[CHOOSE k \in firsts : Cardinality({j \in firsts : j <= k}) = n]]

ToAsk(i) ==
  CASE requests[i].kind = "snapshot" -> Variants(requests[i].about)
    [] requests[i].kind = "relay" /\ requests[i].about # Outside -> <<requests[i].about>>
    [] OTHER -> <<>>

\* The running snapshots of files that request i also writes.
Rivals(i) ==
  {j \in Running :
     /\ requests[i].kind = "snapshot" /\ requests[j].kind = "snapshot"
     /\ Covered[requests[i].about] \cap Covered[requests[j].about] # {}}

\* A thread is free and takes the request that has waited longest.
Dispatch ==
  /\ Waiting # {}
  /\ Cardinality(Running) < PoolSize
  /\ LET i == Min(Waiting)
     IN  /\ requests' = [requests EXCEPT ![i].state = "running", ![i].left = ToAsk(i)]
         /\ overlapped' = overlapped \cup Rivals(i) \cup (IF Rivals(i) = {} THEN {} ELSE {i})
  /\ UNCHANGED <<log, files>>

\* The handler of a GET returns, and the middleware logs it, whoever still waits for it.
AnswerGet(i) ==
  /\ Is(i, "get", "running")
  /\ requests' = [requests EXCEPT ![i].state = "done"]
  /\ log' = Logged(requests[i].about)
  /\ UNCHANGED <<files, overlapped>>

\* requests.get, or requests.request, of the own server
AskOwnServer(i) ==
  /\ requests[i].state = "running"
  /\ requests[i].left # <<>> /\ requests[i].child = 0
  /\ LET path == Head(requests[i].left)
     IN  /\ requests' = Append([requests EXCEPT ![i].child = Len(requests) + 1],
                               Request("get", path, i))
         /\ log' = IF path = Stream THEN Logged(Stream) ELSE log
  /\ UNCHANGED <<files, overlapped>>

HasAnswer(i) ==
  /\ requests[i].state = "running"
  /\ requests[i].child # 0 /\ requests[requests[i].child].state = "done"

\* write_bytes opens the file, which truncates it ...
OpenFile(i) ==
  /\ requests[i].kind = "snapshot"
  /\ HasAnswer(i)
  /\ ~ requests[i].open
  /\ requests' = [requests EXCEPT ![i].open = TRUE]
  /\ files' = [files EXCEPT ![Head(requests[i].left)] = Truncated]
  /\ UNCHANGED <<log, overlapped>>

\* ... and writes from its beginning, over what another one has written since.
WriteFile(i) ==
  /\ requests[i].open
  /\ LET r == requests[i]
         path == Head(r.left)
     IN  /\ requests' = [requests EXCEPT
              ![i] = [r EXCEPT !.open = FALSE, !.child = 0, !.left = Tail(@)]]
         /\ \E content \in {r.child} \cup (IF files[path] = Truncated THEN {} ELSE {Mixed}) :
              files' = [files EXCEPT ![path] = content]
  /\ UNCHANGED <<log, overlapped>>

\* A snapshot whose files are written is answered 200.
SnapshotDone(i) ==
  /\ Is(i, "snapshot", "running")
  /\ requests[i].left = <<>>
  /\ requests' = [requests EXCEPT ![i].state = "done"]
  /\ UNCHANGED <<log, files, overlapped>>

\* The relay passes the answer on, of its own server or of another.
RelayDone(i) ==
  /\ Is(i, "relay", "running")
  /\ requests[i].about = Outside \/ HasAnswer(i)
  /\ requests' = [requests EXCEPT ![i].state = "done"]
  /\ UNCHANGED <<log, files, overlapped>>

Failed(i) ==
  /\ requests' = [requests EXCEPT ![i].state = "failed"]
  /\ UNCHANGED <<log, files, overlapped>>

\* Nobody answered for 30 seconds: 502 from the relay, 500 from a snapshot, which keeps
\* the files it has written.
TimedOut(i) ==
  /\ requests[i].state = "running"
  /\ IF requests[i].child = 0 THEN requests[i].about = Outside
     ELSE requests[requests[i].child].state \in {"queued", "running"}

\* A variant: a request that is slow is waited for.
TimeOut_Never(i) == FALSE /\ Failed(i)

\* A variant: a snapshot passes over a path that could not be read.
TimeOut_Skip(i) ==
  /\ TimedOut(i)
  /\ IF requests[i].kind = "snapshot"
     THEN /\ requests' = [requests EXCEPT ![i].child = 0, ![i].left = Tail(@)]
          /\ UNCHANGED <<log, files, overlapped>>
     ELSE Failed(i)

TimeOut(i) == TimedOut(i) /\ Failed(i)

\* No connection: there is none to a server whose certificate is its own, and none to
\* an outside server that is down.
Refused(i) ==
  /\ requests[i].state = "running"
  /\ requests[i].child = 0
  /\ requests[i].left # <<>> \/ requests[i].about = Outside
  /\ Failed(i)

Handle(i) ==
  \/ AnswerGet(i) \/ AskOwnServer(i) \/ OpenFile(i) \/ WriteFile(i)
  \/ SnapshotDone(i) \/ RelayDone(i) \/ TimeOut(i)

Client ==
  \/ \E path \in Paths : ClientGets(path)
  \/ \E name \in DOMAIN Covered : SaveSnapshots(name)
  \/ \E target \in Paths \cup {Outside} : Relay(target)

Next ==
  \/ Client
  \/ Dispatch
  \/ \E i \in Requests : Handle(i) \/ Refused(i) \/ Disconnect(i)

\* Threads run, and the 30 seconds pass.  Nothing is assumed of clients or networks.
Serve == Dispatch \/ \E i \in Requests : Handle(i)

Spec == Init /\ [][Next]_vars /\ WF_vars(Serve)
-----------------------------------------------------------------------------
Answered(i) == requests[i].state \notin {"queued", "running"}

\* A handler that reads the stream of its own server
Stuck == {i \in Running : requests[i].child # 0 /\ requests[requests[i].child].state = "streaming"}

\* Once clients send no more, every request comes to be answered, however many handlers
\* wait for threads that they hold themselves, and so does every child that was given
\* up.  The exceptions: a handler that reads the stream, and the others once such
\* handlers hold all the threads there are.
EveryoneAnswered ==
  <>[](\A i \in Requests : Answered(i) \/ i \in Stuck \/ Cardinality(Stuck) = PoolSize)

\* snapshots.py says of its handler: "it cannot deadlock waiting on itself" (line 35), and
\* of its calls: "a call this same process always answers itself" (lines 60-61).  So every
\* snapshot is answered.
SnapshotsReturn == <>[](\A i \in Requests : requests[i].kind = "snapshot" => Answered(i))

\* A snapshot that is answered 200, and that no other one overlapped, has in the file of
\* every path it asked for what its own request was answered: a complete body, neither
\* an older nor a younger one.
SnapshotsComplete ==
  [][\A i \in Requests \ overlapped :
       SnapshotDone(i) =>
         \A c \in Requests : requests[c].parent = i => files[requests[c].about] = c]_vars
=============================================================================
