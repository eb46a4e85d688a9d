CONSTANTS
  c1 = c1  c2 = c2  d1 = d1  d2 = d2  m1 = m1  m2 = m2  p1 = p1
  acctA = acctA  acctB = acctB
  CNode = {c1}
  NoCNode = NoCNode
  Obj = {d1, p1, m1}
  NoObj = NoObj
  MetaOf <- MCMetaOf1
  Task = {p1}
  NSlots = 4
  Rights <- MCRights
  InstallRights <- MCInstall
  WantRights <- MCWant1
  Account = {acctA, acctB}
  NoAccount = NoAccount
  Chain <- MCChain
  Limit <- MCLimit
  Pool <- MCPool1
  U32Max = 255
  QMax = 2
  Budget = 1
  GenBound = 2
  RefBound = 1
  ReclaimDriver = TRUE
SPECIFICATION Spec
INVARIANTS TypeOK TaskConfined NoDangling QuotaExact SlotsLeftExact EdgeSound
PROPERTIES NoResurrection NoEscalation ImplementsAuthority
