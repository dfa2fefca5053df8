\* Reordering, loss, link loss and eviction; three resources on one link,
\* one with colliding map-hashes, one too large; two receiving threads.
SPECIFICATION Spec
CONSTANTS
  r1 = r1
  r2 = r2
  r3 = r3
  Resources = {r1, r2, r3}
  N <- PartCounts
  MapHash <- Colliding
  HASHMAP_MAX_LEN = 2
  WINDOW_START = 2
  WINDOW_MAX = 3
  MAX_PARTS = 7
  RxThreads = {"hub", "local"}
  Faults = {"lose", "linkloss", "evict"}
  None = None
INVARIANTS
  TypeOK
  ExpectHolds
  Accounting
  DeliveredOnce
  TransferInv
PROPERTY
  ImplementsLargeDelivery
CHECK_DEADLOCK FALSE
