SPECIFICATION FairProgressSpec
CONSTANTS
  u1 = u1
  b1 = b1
  r1 = r1
  r2 = r2
  h1 = h1
  None = None
  Users <- OneUser
  Batches <- OneBatch
  Requests <- TwoRows
  OwnerOf <- OwnedByUser
  BatchOf <- AllInFirst
  RowIndex <- RowNumber
  Handlers <- OneHandler
  MaxCalls = 3
  MaxRestarts = 0
CHECK_DEADLOCK FALSE
INVARIANT FeedsTellAll
PROPERTY FeedsEnd
