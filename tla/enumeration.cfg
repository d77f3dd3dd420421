\* the breadth-first enumerations of the examples
SPECIFICATION EnumSpec
CONSTANTS
  Size = 16
  Byte <- Bytes
  Monoids = {"D1", "D2", "D3", "T3", "T4", "images"}
  KindOf <- Kinds
  GensOf <- Generators
INVARIANTS WordsShortest TableRight MonoidIsRight
PROPERTY Termination
\* the enumerations end
CHECK_DEADLOCK FALSE
