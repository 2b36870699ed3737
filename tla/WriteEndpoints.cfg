\* Two concurrent write requests, resets and restarts, two scopes.
CONSTANTS
  ResourceTypes <- MCTypes
  RecordIds <- MCRecordIds
  Clients = {c1, c2}
  FiscalYears = {fy}
  Data <- MCData
  None = None
  Threads = {t1, t2}
  Absent = Absent
  Idle = Idle
  References <- MCReferences
  GlobalTypes = {"addressees"}
  ReplacedTypes = {}
  BatchTypes = {"posting_proposals_incoming_invoices"}
  MemoryTypes = {"addressees"}
  AdminTypes = {}
  Generated <- MCGenerated
  FreshIds = {"u1", "u2"}
  Bodies <- MCBodies
SPECIFICATION Spec
SYMMETRY Symmetry
INVARIANTS
  TypeOK
  
  RejectedWritesNothing
