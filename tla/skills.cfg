SPECIFICATION Spec
CONSTANTS
  Limit <- MCLimit
  Skills = {1, 2, 3}
  SourceOf <- MCSourceOf
  RawLocks <- MCRawLocks
  Signer = "key"
  Configured <- MCConfigured
  MaxPushes = 1
  MaxWalks = 2
  MaxReceipts = 2
INVARIANTS
  TypeOK
  PinnedAsOne
  CheckedIsReproducible
  ReceiptFitsOneLock
  LocalAnswersFirst
  PinnedIsImmutable
CHECK_DEADLOCK FALSE
