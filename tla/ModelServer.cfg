\* Two clients on one VM, three server processes, two polls per setup; no
\* symmetry, since liveness is checked too.
CONSTANTS
  Clients = {c1, c2}
  Pids = {p1, p2, p3}
  MaxPolls = 2
  NoPid = NoPid
  NoClient = NoClient
SPECIFICATION Spec
INVARIANTS TypeOK OnlyFailedSetupsLeak
PROPERTIES ServedByCurrentServer CallsReturn
