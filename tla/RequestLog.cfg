\* Two streams, a buffer and queues smaller than the number of requests.
CONSTANTS
  Streams = {s1, s2}
  BufferSize = 2
  QueueSize = 2
  MaxEntries = 5
SPECIFICATION FairSpec
INVARIANTS TypeOK InOrder LiveComplete NoLeak
PROPERTIES RequestsFinish QueuedIsSent
