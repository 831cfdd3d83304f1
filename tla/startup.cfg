SPECIFICATION FairSpec
CONSTANTS
  Procs = {p1, p2}
  NumFiles = 3
  Reruns = {3}
  MaxFaults = 2
  MaxVersion = 2
INVARIANTS
  ServesWholeSchema
  PublishedVerifies
PROPERTIES
  KeyIsSettled
