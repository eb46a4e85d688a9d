CONSTANTS
  NThr = 3
  NSlots = 2
  Program <- MCTwoWaiters
  Trip = 1
SPECIFICATION FairSpec
PROPERTIES SemServed
CHECK_DEADLOCK FALSE
