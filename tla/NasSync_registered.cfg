SPECIFICATION Spec
CONSTANTS
  l1 = l1
  l2 = l2
  p1 = p1
  account = account
  root = root
  folder = folder
  None = None
  LiveJobs <- OneLive
  PayloadJobs <- NoJob
  Accounts <- OneAccount
  Shares <- NestedShares
  Above <- Paths
  MaxAttempts = 2
  MaxCrashes = 1
INVARIANTS AppliedSyncsAreRegistered
CHECK_DEADLOCK FALSE
