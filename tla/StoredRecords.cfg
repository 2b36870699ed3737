\* Two threads on two records of one resource family; a row may be unscoped,
\* bound to a client, or bound to a client's fiscal year.
CONSTANTS
  ResourceTypes = {creditors}
  RecordIds = {i1, i2}
  Clients = {c1}
  FiscalYears = {y1}
  Data = {d1}
  None = None
  Threads = {t1, t2}
  MaxClock = 2
  Absent = Absent
  Idle = Idle
SYMMETRY Symmetry
SPECIFICATION Spec
INVARIANTS TypeOK UncontendedStamps
PROPERTIES UncontendedUpdate RefinesMap
