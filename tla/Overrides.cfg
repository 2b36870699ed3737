SPECIFICATION Spec
CONSTANTS
  Threads = {t1, t2}
  Files <- MCFiles
  MaxUploads = 1
  MaxObjects = 3
  Absent = Absent
  Idle = Idle
SYMMETRY Symmetry
INVARIANTS
  TypeOK
  StoredIsCandidate
  ServedParses
  ResolvedOnce

  
  
CHECK_DEADLOCK FALSE
