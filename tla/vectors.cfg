\* the lane-parallel loops and the pure functions on vectors
SPECIFICATION Spec
CONSTANTS
  Size = 16
  Byte <- Bytes
  Programs <- Loops
  Arguments <- Pairs
INVARIANTS RoundsExplained AnswerAtReturn SearchesRight RecognisersRight
INVARIANTS PartialMapsRight StatisticsRight PrototypesRight
\* the functions return
CHECK_DEADLOCK FALSE
