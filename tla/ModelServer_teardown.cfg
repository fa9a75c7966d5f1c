\* One client whose setup is retried after it raised.
CONSTANTS
  Clients = {c1}
  Pids = {p1, p2}
  MaxPolls = 2
  NoPid = NoPid
  NoClient = NoClient
SPECIFICATION Spec
SYMMETRY PidSymmetry
PROPERTIES TeardownStopsServer
