SPECIFICATION Spec
CONSTANTS
  None = None
  Databases = {d1, d2}
  Servers = {s1, s2}
  Ports = {port1, port2}
  Limit = 1
  Procs = {p1, p2}
  MaxFaults = 1
  PowerStatuses = {"stopped"}
SYMMETRY Symmetry
CONSTRAINT Watched
INVARIANTS
  RowsSound
  ContainersMatch
CHECK_DEADLOCK FALSE
