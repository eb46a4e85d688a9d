CONSTANTS
  b1 = b1  b2 = b2
  NThr = 3
  Rank <- MCRank
  Boost0 <- MCBoost
  AgeMod = 4
  Badge = {b1, b2}
  Mask <- MCMask
  Pollers = {3}
  WakeMax = 3
  Rounds = 2
  MaxPulse = 2
  MaxKill = 1
SPECIFICATION FairSpec
INVARIANTS TypeOK WaitersCounted NoLostBadge
PROPERTIES DeliveredOnce TopRankRuns BadgeReaped
