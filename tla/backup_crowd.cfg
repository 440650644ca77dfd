SPECIFICATION FairSpec
CONSTANTS
  s1 = s1
  s2 = s2
  Shells = {s1, s2}
  Files <- MCDeepFile
  NewPaths <- MCNone
  NamePrefix <- MCDeepNames
  Contents <- MCOneContent
  Digest <- MCDigest
  Mode = "md5"
  Ops <- MCCrowdOps
  MaxTime = 2
  MaxWrites = 2
  Concurrent = TRUE
  Interrupts = {s1, s2}
PROPERTY ImplementsStore
PROPERTY CommandsEnd
VIEW View
