SPECIFICATION WatchFairSpec
CONSTANTS
  Root = "."
  Order <- MCOrder
  Parent <- MCParent
  Kinds <- MCKinds
  MaxTime = 2
  MaxChanges = 5
INVARIANT DiffExact
INVARIANT LogReplays
PROPERTY CatchesUp
