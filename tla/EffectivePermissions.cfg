SPECIFICATION Spec
CONSTANTS
  u1 = u1
  g1 = g1
  s1 = s1
  s2 = s2
  Users <- OneUser
  Groups <- OneGroup
  ShareNames <- TwoShares
  Payloads <- SmallPayloads
INVARIANTS ResultsAreRightful EveryPairAnswered
CHECK_DEADLOCK FALSE
