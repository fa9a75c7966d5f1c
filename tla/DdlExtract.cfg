SPECIFICATION DdlSpec
CONSTANTS
  Tables <- MCTables
  Extractions = {1, 2}
  MaxVersion = 2
  Runners = {TRUE, FALSE}
  NoLine = NoLine
  NoFile = NoFile
  Torn = Torn
CHECK_DEADLOCK FALSE
INVARIANTS
  DdlTypeOK
  ContractMirrorsTable
  ConsumableTablesLoad
  ExitZeroKeepsContract
