SPECIFICATION Spec
CONSTANTS
  Savers = {s1, s2}
  s1 = s1
  s2 = s2
  Values <- MCValues
  Default <- MCDefault
  Length <- MCLength
  Invalid = Invalid
  Empty = Empty
  Absent = Absent
  Idle = Idle
  Unreadable = Unreadable
  MaxSaves = 3
  MaxCrashes = 1
  Listed <- MCListed
  Watched <- MCWatched
  Generated = {g1, g2}
  Ids = {g1, new}
  g1 = g1
  g2 = g2
  new = new
  MaxStored = 1
INVARIANTS
  ReadTypeOK
  RecordsMerged
  
  GatesHold
  AnswerOfSettings
  SavesHold
SYMMETRY MCSymmetry
