\* Packets may arrive twice: the known hashmap pages need not form a prefix.
SPECIFICATION Spec
CONSTANTS
  r1 = r1
  r2 = r2
  r3 = r3
  Resources = {r1}
  N <- PartCounts
  MapHash <- Distinct
  HASHMAP_MAX_LEN = 2
  WINDOW_START = 2
  WINDOW_MAX = 3
  MAX_PARTS = 7
  RxThreads = {"hub"}
  Faults = {"duplicate"}
  None = None
INVARIANT
  ExpectHolds
CHECK_DEADLOCK FALSE
