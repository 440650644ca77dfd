SPECIFICATION FairSpec
CONSTANTS
  Students <- MCStudents
  Texts <- MCTexts
  Lower <- MCLower
  Space = " "
  OVER = 1
  MaxWarnings = 1
INVARIANT FinalOutput
INVARIANT NoneLeft
PROPERTY VerdictExact
PROPERTY GradingEnds
VIEW View
CHECK_DEADLOCK FALSE
