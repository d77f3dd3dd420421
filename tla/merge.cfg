\* merge and merge_rev on every pair of sorted vectors over three bytes
SPECIFICATION MergeSpec
CONSTANTS
  Size = 16
  Byte <- Bytes3
  MergeRounds <- merge_rounds
  MergeReach <- Images
  Arguments <- Stairs
INVARIANTS HalvesSeparated
PROPERTIES PaddingIdle MergesAsPromised
\* the function returns: nothing is left to do
CHECK_DEADLOCK FALSE
