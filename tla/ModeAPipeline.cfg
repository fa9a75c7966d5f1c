\* Two workers, two requests of different sizes, a retried bundle.  No symmetry:
\* liveness is checked on the full state graph.
SPECIFICATION Spec
CONSTANTS
  NumRows = 4
  BatchSize = 3
  MinBatch = 2
  MaxBatch = 3
  Workers = {w1, w2}
  Keys = {k1, k2}
  MaxRetries = 1
  GateNum = 1
  GateDen = 3
  WithRunsSink = TRUE
  FailOnBlocker = TRUE
  NoRequest = NoRequest
INVARIANTS
  IndInv
  TypeOK
  RequestsCoverRows
  OneOutcomePerPosition
  TablesBoundedByRequest
  EveryYieldAccounted
  FailureEndsRequest
  MicroBatchKeysUnique
  RunRowMatchesTables
  SuccessPassedGate
PROPERTIES
  RefinesLedger
  RunEnds
