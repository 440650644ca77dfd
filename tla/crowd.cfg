SPECIFICATION FairSpec
CONSTANTS
  Shells = {s1, s2}
  Pids = {p1}
  Inodes = {1, 2, 3, 4, 5}
  a = a
  ab = ab
  c = c
  Paths <- MCOnePaths
  CharPrefix <- MCOnePrefix
  NoFile = NoFile
  NoPath = NoPath
  NoPid = NoPid
  Patient = FALSE
  Faults = FALSE
  Interrupts = FALSE
VIEW View
PROPERTY CommandsEnd
PROPERTY AddTakesEffect
