-------------------------- MODULE MCServerLifecycle --------------------------
(* Small instances of ServerLifecycle for TLC. *)
EXTENDS ServerLifecycle, TLC

\* Every operation that a panel uses when no recovery flag is set.
OrdinaryOps == AllOps \ {"forceDelete", "databaseOnlyDelete"}

\* Request slots are interchangeable: no action or property names one.
ProcSymmetry == Permutations(Procs)

\* So are the servers and the ports of the run that has several.
TableSymmetry == ProcSymmetry \cup Permutations(Servers) \cup Permutations(Ports)
=============================================================================
