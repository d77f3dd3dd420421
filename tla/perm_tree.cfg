\* the parallel count of permutations by descents
SPECIFICATION Spec
CONSTANTS
  Size = 4
  Byte <- Bytes
  Calls <- MC_Calls
INVARIANT NothingLost
PROPERTY Delivered
\* the program ends
CHECK_DEADLOCK FALSE
