CONSTANTS
  b1 = b1  b2 = b2
  NThr = 3
  Rank <- MCRank
  Boost0 <- MCBoost
  AgeMod = 4
  Badge = {b1, b2}
  Mask <- MCMask
  Pollers = {}
  WakeMax = 1
  Rounds = 2
  MaxPulse = 3
  MaxKill = 1
SPECIFICATION Spec
INVARIANTS NoLostBadge
