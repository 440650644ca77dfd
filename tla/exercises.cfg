SPECIFICATION FairSpec
CONSTANTS
  Pids <- MCPids
  MaxSent = 2
INVARIANT WrittenOnce
INVARIANT AllGone
INVARIANT MainMask
INVARIANT HandlersApart
INVARIANT JumpsHome
PROPERTY IntEnds
CHECK_DEADLOCK FALSE
