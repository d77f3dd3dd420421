\* row_space_bitset against what its documentation says it returns
SPECIFICATION Spec
CONSTANTS
  Columns <- EightColumns
  ByteOf <- Bytes
  Matrices <- MCMatrices
INVARIANTS RowSpaceAtReturn
CHECK_DEADLOCK FALSE
