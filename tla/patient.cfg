SPECIFICATION FairSpec
CONSTANTS
  Shells = {s1, s2}
  Pids = {p1, p2}
  Inodes = {1, 2, 3}
  a = a
  ab = ab
  c = c
  Paths <- MCPaths
  CharPrefix <- MCPrefix
  NoFile = NoFile
  NoPath = NoPath
  NoPid = NoPid
  Patient = TRUE
  Faults = TRUE
  Interrupts = FALSE
VIEW View
INVARIANT TypeOK
INVARIANT NoOverlap
INVARIANT AllListed
PROPERTY NothingLostAtRemove
PROPERTY ImplementsRegistry
PROPERTY DeleteEnds
