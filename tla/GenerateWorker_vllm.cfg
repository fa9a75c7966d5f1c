\* vLLM is asked without having been set up.
CONSTANTS
  Columns = {name, notes}
  BatchIds = {0, 1}
  BaseSeeds <- MCBaseSeeds
  Draws = {0, 1}
  MaxInstances = 1
  NoSeed = NoSeed
  NoPool = NoPool
  Exemplars = Exemplars
SPECIFICATION Spec
INVARIANTS ClientSetUpBeforeUse
