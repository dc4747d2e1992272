SPECIFICATION FairSpec
CONSTANTS
  Reader      = {a, b}
  Ttl         = 1
  LockSeconds = 2
  Patience    = 1
  Long        = 2
  MaxWrites   = 1
  MaxCrashes  = 1
  Faults      = {"silent", "column", "odd", "store", "evict"}
  Nobody      = Nobody
INVARIANTS TypeOK OneReader ReadingShowsConfirmed
PROPERTIES NeverOlder KeepsReading
