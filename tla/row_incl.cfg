\* the sizes, masks and inclusions of row spaces
SPECIFICATION Spec
CONSTANTS
  Columns <- EightColumns
  ByteOf <- Bytes
  Height = 8
  Rounds = 16
  Matrices <- Progressions
  Questions <- Pairs
INVARIANTS AllTaken CountSoFar AnswerAtReturn
\* the functions return: nothing is left to do
CHECK_DEADLOCK FALSE
