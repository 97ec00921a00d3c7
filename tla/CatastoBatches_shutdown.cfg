SPECIFICATION Spec
CONSTANTS
  u1 = u1
  b1 = b1
  b2 = b2
  r1 = r1
  r2 = r2
  h1 = h1
  h2 = h2
  None = None
  Users <- OneUser
  Batches <- OneBatch
  Requests <- TwoRows
  OwnerOf <- OwnedByUser
  BatchOf <- AllInFirst
  RowIndex <- RowNumber
  Handlers <- OneHandler
  MaxCalls = 1
  MaxRestarts = 1
CHECK_DEADLOCK FALSE
PROPERTY ShutdownCompletesCurrent
