SPECIFICATION FairSpec
CONSTANTS
  Students <- MCStudents
  StartsWith <- MCStartsWith
  Questions <- MCQuestions
  Number <- MCNumber
  Type <- MCType
  Points = {0, 4, 500}
  MaxWarnings = 2
  NoFile = NoFile
  Null = Null
INVARIANT GradedAsFiled
INVARIANT RowsAlign
INVARIANT SortedRows
PROPERTY RunsEnd
VIEW View
