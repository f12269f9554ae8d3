SPECIFICATION Spec
CONSTANTS
  BufSize = 7
  MaxLine = 4
  CallbackEvery = 1
  ProgressSteps = 10
  Files <- MCFiles
INVARIANTS SectionsInOrder AnswersTruly WholeFileReads
PROPERTIES ReadEnds
CHECK_DEADLOCK FALSE
