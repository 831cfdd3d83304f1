SPECIFICATION FairSpec
CONSTANTS
  c1 = c1
  c2 = c2
  Clients = {c1, c2}
  Window = 3
  MaxRate = 2
INVARIANTS
  TypeOK
  AtMostTwiceTheBudget
PROPERTIES
  RefusedOnlyOverBudget
  AdmittedAgain
