\* row_space_bitset on matrices of eight rows
SPECIFICATION Spec
CONSTANTS
  Columns <- EightColumns
  ByteOf <- Bytes
  Matrices <- MCMatrices
INVARIANTS PairsMet BitsAtReturn TransposesAgree ProductsRight
\* the function returns: nothing is left to do
CHECK_DEADLOCK FALSE
