-------------------------- MODULE MCServerSchedules --------------------------
(* Small instances of ServerSchedules for TLC. *)
EXTENDS ServerSchedules, TLC

IdSymmetry == Permutations(Ids)
=============================================================================
