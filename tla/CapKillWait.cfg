CONSTANTS
  c1 = c1  c2 = c2  d1 = d1  d2 = d2  m1 = m1  m2 = m2  p1 = p1
  acctA = acctA  acctB = acctB
  CNode = {c1}
  NoCNode = NoCNode
  Obj = {p1, m1}
  NoObj = NoObj
  MetaOf <- MCMetaOf1
  Task = {p1}
  NSlots = 3
  Rights <- MCRights
  InstallRights = {}
  WantRights = {}
  Account = {acctA}
  NoAccount = NoAccount
  Chain <- MCChainFlat
  Limit <- MCLimitFlat
  Pool <- MCPool1
  U32Max = 255
  QMax = 1
  Budget = 1
  GenBound = 3
  RefBound = 0
  ReclaimDriver = FALSE
SPECIFICATION Spec
INVARIANT DeadReapable
