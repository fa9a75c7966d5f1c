\* Eight column types in every mode; numbers on and off the grid and at its ties.
CONSTANTS
  MinTick <- MCMinTick
  MaxTick = 5
  Quantum = 4
  Names = {a, b}
  FarDates = {b}
  LongTexts = {b}
  MaxRefs = 3
SPECIFICATION Spec
INVARIANTS TypeOK OnlyRoundingLeavesRange CategoriesAreObserved ScalarsSurvive OnlyConstantsLoseNulls
