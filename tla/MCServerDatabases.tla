-------------------------- MODULE MCServerDatabases --------------------------
(* Small instances of ServerDatabases for TLC. *)
EXTENDS ServerDatabases, TLC

Symmetry ==
  Permutations(Databases) \cup Permutations(Servers) \cup Permutations(Ports)
  \cup Permutations(Procs)

\* When a history variable excuses every database, the properties forbid little
\* more, so such states are checked but not followed.
Watched == revived \cup untracked \cup emptied \cup stranded # Databases
=============================================================================
