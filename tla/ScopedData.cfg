\* Two threads on the three caches of one client with two fiscal years.
CONSTANTS
  Threads = {t1, t2}
  Clients = {"c1"}
  Years = {"y1", "y2"}
  Systems = {"1", "2"}
  YearList <- MCYearList
  PrimarySystem = "1"
  AddresseeIds = {a1, a2}
  Guids = {1, 2, 3, 4, 5}
  Absent = Absent
  Idle = Idle
SPECIFICATION Spec
SYMMETRY Symmetry
INVARIANTS TypeOK CachesAgree AddresseesKnown UncontestedScope
