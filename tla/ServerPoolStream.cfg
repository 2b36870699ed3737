\* One request, after somebody has looked at the log's stream.
SPECIFICATION Spec
CONSTANTS
  Paths = {"clients", "logs", "stream"}
  Stream = "stream"
  Covered <- MCCovered
  Outside = "outside"
  PoolSize = 2
  LogSize = 2
  Logs <- MCLogs
  MaxArrivals = 1
  Missing = Missing
  Truncated = Truncated
  Mixed = Mixed
PROPERTIES
  SnapshotsReturn
\* After the last of the bounded requests the server waits.
CHECK_DEADLOCK FALSE
