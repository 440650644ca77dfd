SPECIFICATION Spec
CONSTANTS
  Answers <- MCAnswers
  Files <- MCFiles
  CTexts <- MCUnits
  Typed <- MCTyped
  Typish <- MCTypish
  Strings <- MCStrings
INVARIANT ReadInOrder
INVARIANT NothingLost
INVARIANT RightHasAll
INVARIANT RightIsFound
CHECK_DEADLOCK FALSE
