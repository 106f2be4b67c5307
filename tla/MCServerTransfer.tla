--------------------------- MODULE MCServerTransfer ---------------------------
(* Small instances of ServerTransfer for TLC. *)
EXTENDS ServerTransfer, TLC

\* Servers leave n1 only; or they may come back.
OneWay == {<<"n1", "n2">>}
BothWays == {<<"n1", "n2">>, <<"n2", "n1">>}

\* Jobs and request slots are interchangeable: no action or property names one.
JobSymmetry == Permutations(Movers) \cup Permutations(Procs)

\* Two servers that arrive on one node at once.
SlotSymmetry == JobSymmetry \cup Permutations(Servers)
=============================================================================
