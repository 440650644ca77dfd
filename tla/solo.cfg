SPECIFICATION Spec
CONSTANTS
  Shells = {s1}
  Pids = {p1, p2}
  Inodes = {1, 2, 3, 4}
  a = a
  ab = ab
  c = c
  Paths <- MCPaths
  CharPrefix <- MCPrefix
  NoFile = NoFile
  NoPath = NoPath
  NoPid = NoPid
  Patient = FALSE
  Faults = FALSE
  Interrupts = TRUE
SYMMETRY Symmetry
VIEW View
INVARIANT NoStaleLine
