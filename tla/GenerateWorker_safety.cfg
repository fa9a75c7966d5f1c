\* Both engines, the three clients, seeded and not; two instances.
CONSTANTS
  Columns = {name, notes}
  BatchIds = {0, 1}
  BaseSeeds <- MCBaseSeeds
  Draws = {0, 1}
  MaxInstances = 2
  NoSeed = NoSeed
  NoPool = NoPool
  Exemplars = Exemplars
SPECIFICATION Spec
INVARIANTS TypeOK CallsBounded RetriesRepeatRows RequestsDrawApart
