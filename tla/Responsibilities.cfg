\* Two clients replace lists of responsibilities at once.
CONSTANTS
  ResourceTypes <- MCTypes
  RecordIds <- MCRecordIds
  Clients = {c1, c2}
  FiscalYears = {fy}
  Data <- MCData
  None = None
  Threads = {t1, t2}
  Absent = Absent
  Idle = Idle
  References <- MCReferences
  GlobalTypes = {"employees", "clients"}
  ReplacedTypes = {"client_responsibilities"}
  BatchTypes = {}
  MemoryTypes = {"clients"}
  AdminTypes = {"clients"}
  Generated <- MCGenerated
  FreshIds = {"u1"}
  Bodies <- MCBodies
SPECIFICATION Spec
SYMMETRY Symmetry
INVARIANTS
  RejectedWritesNothing
  UncontestedReplace
