\* row_space_bitset_ref with the row_space_basis it calls, on matrices of eight
\* rows
SPECIFICATION ClosureSpec
CONSTANTS
  Columns <- FourColumns
  ByteOf <- Bytes
  Height = 8
  Matrices <- MCMatrices
INVARIANTS UnionsComplete SpaceKept BasisAtReturn SpaceAtReturn FoundOnce
PROPERTIES Termination
\* the function returns: nothing is left to do
CHECK_DEADLOCK FALSE
