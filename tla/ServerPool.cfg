\* Three requests on a pool of two threads.
SPECIFICATION Spec
CONSTANTS
  Paths = {"clients", "logs", "stream"}
  Stream = "stream"
  Covered <- MCCovered
  Outside = "outside"
  PoolSize = 2
  LogSize = 2
  Logs <- MCLogs
  MaxArrivals = 3
  Missing = Missing
  Truncated = Truncated
  Mixed = Mixed
PROPERTIES
  SnapshotsComplete
  
\* After the last of the bounded requests the server waits.
CHECK_DEADLOCK FALSE
