CONSTANTS
  c1 = c1  c2 = c2  d1 = d1  d2 = d2  m1 = m1  m2 = m2  p1 = p1
  acctA = acctA  acctB = acctB
  CNode = {c1, c2}
  NoCNode = NoCNode
  Obj = {d1, m1, m2}
  NoObj = NoObj
  MetaOf <- MCMetaOf2
  Task = {}
  NSlots = 3
  Rights <- MCRights
  InstallRights <- MCInstall
  WantRights <- MCWant
  Account = {}
  NoAccount = NoAccount
  Chain <- MCChainNone
  Limit <- MCLimitNone
  Pool <- MCPool2
  U32Max = 255
  QMax = 1
  Budget = 1
  GenBound = 2
  RefBound = 0
  ReclaimDriver = TRUE
SPECIFICATION Spec
INVARIANT RootMetaConfined
PROPERTIES NoEscalation
