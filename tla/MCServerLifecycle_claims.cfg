SPECIFICATION Spec
CONSTANTS
  None = None
  Servers = {s1}
  Nodes = {n1}
  Ports = {1}
  Procs = {p1, p2}
  MaxFaults = 2
  MaxCrashes = 1
  NotifyMayFail = FALSE
  Ops <- OrdinaryOps
SYMMETRY ProcSymmetry
INVARIANTS
  ClaimsSound
  ServersHaveContainers
PROPERTY
  ClaimsEndedByHolder
  ImplementsExclusiveRuntime
