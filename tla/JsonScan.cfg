SPECIFICATION Spec
CONSTANTS
  Texts <- MCTexts
  Loads <- MCLoads
CHECK_DEADLOCK FALSE
INVARIANTS
  FirstObjectWins
  UnclosedBraceHides
PROPERTIES
  ScanEnds
