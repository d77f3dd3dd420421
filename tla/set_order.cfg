\* permutations in a std::set with the order of the library
SPECIFICATION Spec
CONSTANTS
  Size = 16
  Byte <- Bytes
  Keys <- MC_Keys
INVARIANT HoldsWhatWasInserted
