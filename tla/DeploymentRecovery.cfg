SPECIFICATION FairSpec
CONSTANTS
  Operators = {o1}
  Releases = {r1, r2}
  MaxTransactions = 2
  MaxFaults = 2
  Nobody = Nobody
  NoRelease = NoRelease
PROPERTY PendingIsResolved
