CONSTANTS
  NThr = 3
  NSlots = 3
  Program <- MCMixed
  Trip = 2
SPECIFICATION FairSpec
INVARIANTS TypeOK RwExclusion BarrierTogether OnceRuns
PROPERTIES WriterPreferred AllFinish
