SPECIFICATION Spec
CONSTANTS
  A = A
  G = G
  sA = sA
  sB = sB
  sG = sG
  pA = pA
  pG = pG
  k1 = k1
  k2 = k2
  f1 = f1
  f2 = f2
  u1 = u1
  u2 = u2
  c1 = c1
  t1 = t1
  t2 = t2
  r1 = r1
  r2 = r2
  Operator = Operator
  None = None
  Servers = {sA, sB, sG}
  Namespaces = {A, G}
  Passports = {pA, pG}
  Keys = {k1, k2}
  Fprs = {f1, f2}
  TxtRecords = {{f1}, {f2}}
  Redirects = {u1, u2}
  NamespaceOf <- NamespaceOfServer
  KindOf <- KindOfNamespace
  LabelOf <- LabelOfNamespace
  Fingerprint <- FingerprintOfKey
  Bodies <- AllBodies
  Clients = {c1}
  Tokens = {t1, t2}
  Requests = {r1, r2}
  Ttl = 1
  Window = 1
  MaxRate = 1
SYMMETRY Interchangeable
INVARIANTS
  TypeOK
  WritesRestOnControl
  RowsRestOnProofs
PROPERTIES
  ImplementsOneTimeProofs
  NoWriteAfterFailure
