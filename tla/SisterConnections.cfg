SPECIFICATION FairSpec
CONSTANTS
  u1 = u1
  good = good
  bad = bad
  h1 = h1
  h2 = h2
  None = None
  Users <- OneUser
  Secrets <- TwoSecrets
  Right <- OnlyGood
  Handlers <- TwoHandlers
  MaxTests = 2
  MaxCalls = 4
  MaxRestarts = 1
INVARIANTS TypeOK VerifiedWasAccepted LoginIsBounded
PROPERTIES OutcomesStay EveryoneIsServed
CHECK_DEADLOCK FALSE
