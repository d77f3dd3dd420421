\* every algorithm that inverts a permutation, on every cycle type
SPECIFICATION Spec
CONSTANTS
  Size = 16
  Byte = {}
  Arguments <- EveryCycleType
  Algorithms <- AllAlgorithms
  Rounds <- sorting_rounds
  Reach <- Images
  Garbage <- Leftovers
INVARIANTS InverseAtReturn CyclLanesRight PowersExact
PROPERTIES RightLanesKept
\* the function returns: nothing is left to do
CHECK_DEADLOCK FALSE
