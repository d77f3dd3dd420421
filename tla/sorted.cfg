\* sorted, revsorted, sorted8 and revsorted8 with the zero-one certificates of their tables
SPECIFICATION Spec
CONSTANTS
  Size = 16
  Byte <- Bytes16
  Networks <- Names
  RoundsOf <- Tables
  BlocksOf <- Parts
  Inputs <- Arguments
  Directions <- Both
  Reach <- Certificate
INVARIANTS ThresholdsReached
PROPERTIES OrderKept ImplementsPromise
\* the function returns: no round is left
CHECK_DEADLOCK FALSE
