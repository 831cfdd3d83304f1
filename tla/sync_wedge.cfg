SPECIFICATION FairSpec
CONSTANTS
  n1 = n1
  n2 = n2
  d1 = d1
  d2 = d2
  None = None
  NoHash = NoHash
  Names = {n1, n2}
  Docs = {d1, d2}
  Listings <- MovingListings
  Enrichable = {n1}
  Retention = 2
  EntryRetention = 1
  PageSize = 2
  MaxPagesPerRun = 2
  MaxSnapshots = 1
  MaxFailures = 0
PROPERTIES
  ExpiredIsEvicted
