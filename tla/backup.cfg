SPECIFICATION Spec
CONSTANTS
  s1 = s1
  s2 = s2
  Shells = {s1}
  Files <- MCFiles
  NewPaths <- MCNew
  NamePrefix <- MCNames
  Contents <- MCContents
  Digest <- MCDigest
  Mode = "md5"
  Ops <- MCAllOps
  MaxTime = 2
  MaxWrites = 2
  Concurrent = FALSE
  Interrupts = {}
INVARIANT RemovedAll
INVARIANT RecoverExact
PROPERTY AddedRecoverable
PROPERTY RemovesOnlyUnder
