SPECIFICATION FairSpec
CONSTANTS
  n1 = n1
  n2 = n2
  A = A
  B = B
  pA = pA
  pB = pB
  x = x
  y = y
  Sweep = Sweep
  r1 = r1
  r2 = r2
  None = None
  Names = {n1, n2}
  Namespaces = {A, B}
  NamespaceOf <- NamespaceOfName
  LabelOf <- LabelOfNamespace
  Passports = {pA, pB}
  Methods = {"dns_txt", "manual"}
  Caps = {x, y}
  Docs <- AllDocs
  Starts <- AllStarts
  Requests = {r1, r2}
  MaxEvents = 2
INVARIANTS
  TypeOK
  HalvesAgree
  ForksOnlyWhenRaced
  ReceiptsRestOnRights
PROPERTIES
  HostedIsRecorded
