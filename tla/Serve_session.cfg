CONSTANTS
  Ids = {i1, i2}
  Roots = {r1, r2}
  NoRoot = NoRoot
  MaxRoots = 1
  MaxRequests = 4
  MaxVersion = 1
SPECIFICATION FairSpec
INVARIANT RepliesInOrder
INVARIANT CancelFindsItsRequest
INVARIANT CacheSound
INVARIANT ContextsSeeOwnWrites
PROPERTY CancelledNeverBegins
PROPERTY NoResultAfterCancel
PROPERTY EveryRequestAnswered
CHECK_DEADLOCK FALSE
