SPECIFICATION ReplaySpec
CONSTANTS
  Threads = {t1}
  Files <- MCFiles
  MaxUploads = 1
  MaxObjects = 1
  Absent = Absent
  Idle = Idle
INVARIANT SnapshotsReusable
CHECK_DEADLOCK FALSE
