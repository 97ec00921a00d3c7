SPECIFICATION FairSpec
CONSTANTS
  l1 = l1
  l2 = l2
  p1 = p1
  account = account
  root = root
  folder = folder
  None = None
  LiveJobs <- OneLive
  PayloadJobs <- OnePayload
  Accounts <- OneAccount
  Shares <- NestedShares
  Above <- Paths
  MaxAttempts = 2
  MaxCrashes = 1
INVARIANTS TypeOK LastSeenIsTrue RunsTellTheTruth NewestSnapshotOwnsItsRows ParentsAreInferred
PROPERTIES JobsEnd SyncsAreAtomic
CHECK_DEADLOCK FALSE
