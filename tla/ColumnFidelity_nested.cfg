\* Struct, array and JSON columns.
CONSTANTS
  MinTick <- MCMinTick
  MaxTick = 5
  Quantum = 4
  Names = {a, b}
  FarDates = {b}
  LongTexts = {b}
  MaxRefs = 3
SPECIFICATION Spec
INVARIANTS NestedColumnsSurvive
