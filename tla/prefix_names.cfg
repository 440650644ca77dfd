SPECIFICATION Spec
CONSTANTS
  s1 = s1
  s2 = s2
  Shells = {s1}
  Files <- MCTwoNames
  NewPaths <- MCNew
  NamePrefix <- MCPrefixes
  Contents <- MCContents
  Digest <- MCDigest
  Mode = "md5"
  Ops <- MCAddClear
  MaxTime = 2
  MaxWrites = 2
  Concurrent = FALSE
  Interrupts = {}
PROPERTY AddedRecoverable
