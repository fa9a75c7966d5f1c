\* Two requests in bundles of their own.
SPECIFICATION Spec
CONSTANTS
  NumRows = 2
  BatchSize = 1
  MinBatch = 1
  MaxBatch = 2
  Workers = {w1, w2}
  Keys = {k1, k2}
  MaxRetries = 0
  GateNum = 0
  GateDen = 1
  WithRunsSink = TRUE
  FailOnBlocker = TRUE
  NoRequest = NoRequest
INVARIANTS
  LandingKeysUnique
