SPECIFICATION Spec
CONSTANTS
  None = None
  Servers = {s1, s2}
  Nodes = {n1}
  Ports = {q1, q2}
  Procs = {p1, p2}
  MaxFaults = 1
  MaxCrashes = 0
  NotifyMayFail = TRUE
  Ops = {"createFromEgg", "forceDelete", "databaseOnlyDelete", "changeEgg"}
SYMMETRY TableSymmetry
INVARIANTS
  NoUntrackedContainer
  UniquePorts
