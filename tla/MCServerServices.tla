-------------------------- MODULE MCServerServices --------------------------
(* The instance of ServerServices that TLC checks. *)
EXTENDS ServerServices, TLC

AllParts ==
  {"schedules", "backups", "stats", "console", "updates", "streams", "certificates",
   "telemetry", "versions"}

\* Versions as published, before and after an edition, with their builds; what is asked for.
Docs ==
  <<[versions |-> <<1>>, builds |-> <<(<<1, 2>>), (<<>>)>>],
    [versions |-> <<2, 1>>, builds |-> <<(<<2>>), (<<1, 2>>)>>]>>
Asked ==
  {[kind |-> "install", version |-> 1, build |-> 1], [kind |-> "browse", version |-> 2, build |-> None]}

IdSymmetry == Permutations(Ids)

\* Once a row of certificates was written over a newer one, what becomes of the
\* node is not followed: nothing is claimed of it.
Watched == certificateMishap \in {None, FALSE}
==============================================================================
