\* Reordering only: one resource, nothing lost, so it must be confirmed.
SPECIFICATION FairSpec
CONSTANTS
  r1 = r1
  r2 = r2
  r3 = r3
  Resources = {r1}
  N <- PartCounts
  MapHash <- Distinct
  HASHMAP_MAX_LEN = 2
  WINDOW_START = 2
  WINDOW_MAX = 4
  MAX_PARTS = 7
  RxThreads = {"hub", "local"}
  Faults = {}
  None = None
INVARIANT
  NeverSilent
PROPERTY
  TransferCompletes
CHECK_DEADLOCK FALSE
