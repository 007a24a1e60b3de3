SPECIFICATION FairSpec
CONSTANTS
  k1 = k1
  k2 = k2
  r1 = r1
  r2 = r2
  Null = Null
  Runs = {k1}
  Cost = 2
  Replicas = {r1}
  Paid <- TwoPaid
  Allotment <- SmallAllotments
  Migrated = FALSE
  MaxEvents = 4
  MaxCopies = 1
  MaxMonths = 1
  MaxFaults = 1
INVARIANT LedgerChains
PROPERTY PaidPlanComesWithCredits
PROPERTY AnnualIsReset
CHECK_DEADLOCK FALSE
