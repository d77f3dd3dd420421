\* sort_perm and sort8_perm on arguments with and without ties
SPECIFICATION PermSpec
CONSTANTS
  Size = 16
  Byte <- Bytes16
  Networks <- Names
  RoundsOf <- Tables
  BlocksOf <- Parts
  Inputs <- Mixed
  Directions <- Up
INVARIANTS ResSortsInput ResKeepsBlocks
PROPERTIES InOrderStaysPut ImplementsNetworkSort
\* the function returns: no round is left
CHECK_DEADLOCK FALSE
