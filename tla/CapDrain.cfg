CONSTANTS
  c1 = c1  c2 = c2  d1 = d1  d2 = d2  m1 = m1  m2 = m2  p1 = p1
  acctA = acctA  acctB = acctB
  CNode = {c1}
  NoCNode = NoCNode
  Obj = {d1, d2, m1}
  NoObj = NoObj
  MetaOf <- MCMetaOf1
  Task = {}
  NSlots = 4
  Rights <- MCRights
  InstallRights <- MCInstall
  WantRights <- MCWant1
  Account = {}
  NoAccount = NoAccount
  Chain <- MCChainNone
  Limit <- MCLimitNone
  Pool <- MCPool2
  U32Max = 255
  QMax = 2
  Budget = 1
  GenBound = 3
  RefBound = 0
  ReclaimDriver = FALSE
SPECIFICATION FairSpec
INVARIANTS HygieneQueued
PROPERTIES HandleFresh EdgesDrained
