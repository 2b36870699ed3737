\* Three threads edit a list of two generated records.
SPECIFICATION Spec
CONSTANTS
  Threads = {t1, t2, t3}
  Fields = {"Name", "Number"}
  Values = {1}
  Fresh = 0
  Size = 2
  MaxIds = 4
  MaxCalls = 4
  Idle = Idle
SYMMETRY Symmetry
 
PROPERTY UncrossedIsAtomic
\* After the last of the bounded calls the server waits for requests.
CHECK_DEADLOCK FALSE
