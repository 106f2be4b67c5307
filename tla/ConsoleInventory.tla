--------------------------- MODULE ConsoleInventory ---------------------------
(***************************************************************************)
(* Every agent is to be given the list of its servers once in its life, so *)
(* that it can read their consoles.  The panel sees from the statistics of *)
(* the nodes which agents have it, and which process (instance) answers.   *)
(* One reconciliation runs at a time, over the rows that came last.        *)
(***************************************************************************)
EXTENDS Naturals, FiniteSets

CONSTANTS
  None, Nodes,
  Silent,     \* nodes whose agents tell no instance
  Old,        \* nodes whose first agent cannot be given a list
  MaxLives, MaxFaults

ConsoleInventoryAssumption ==
  /\ Silent \subseteq Nodes /\ Old \subseteq Nodes /\ None \notin Nat
  /\ MaxLives \in Nat \ {0} /\ MaxFaults \in Nat

VARIABLES
  agent,        \* of each node: the life of its process, whether it has the list
  rows,         \* the statistics that came last, None for a node that is not there
  requested,    \* reconcileRequested
  pc,           \* "none", "pass", "list" or "calls"
  pending,      \* nodes of this pass
  call,         \* calls under way: the instance they are for, and what came of them
  bootstrapped, unsupported, instanceIds, \* by node
  faults

beliefs == <<bootstrapped, unsupported, instanceIds>>
vars == <<agent, rows, requested, pc, pending, call, beliefs, faults>>

Fault == faults < MaxFaults /\ faults' = faults + 1
Supports(n) == n \notin Old \/ agent[n].life > 1

\* What an agent tells of its process: 0 for nothing.
Instance(n) == IF n \in Silent THEN 0 ELSE agent[n].life

\* requestReconcile(), with the rows that NodeStatsService publishes.
Publish(n, row) ==
  /\ rows' = [rows EXCEPT ![n] = row] /\ requested' = TRUE
  /\ pc' = IF pc = "none" THEN "pass" ELSE pc
  /\ UNCHANGED <<agent, pending, call, beliefs>>

Answers(n) == [healthy |-> TRUE, instance |-> Instance(n), ready |-> agent[n].ready]

Observe(n) == Publish(n, Answers(n)) /\ UNCHANGED faults

\* The node does not answer, or is taken off the panel.
Misses(n) == Fault /\ \E row \in {[Answers(n) EXCEPT !.healthy = FALSE], None} : Publish(n, row)

Healthy == {n \in Nodes : rows[n] # None /\ rows[n].healthy}
Changed(n) == rows[n].instance # 0 /\ instanceIds[n] \notin {None, 0} /\ rows[n].instance # instanceIds[n]
Told(n) == IF rows[n].instance # 0 THEN rows[n].instance ELSE instanceIds[n]
Effective(n) == IF Told(n) = None THEN 0 ELSE Told(n)

Known(belief, n) == belief[n] = Effective(n) /\ ~Changed(n)

\* reconcile(), up to its first await.
Pass ==
  /\ pc = "pass"
  /\ IF ~requested THEN pc' = "none" /\ UNCHANGED <<requested, pending, beliefs>>
     ELSE
     LET Kept(f, n) == IF rows[n] = None THEN None
                       ELSE IF n \in Healthy /\ Changed(n) THEN None ELSE f[n]
         wanted == {n \in Healthy : ~rows[n].ready /\ ~Known(bootstrapped, n) /\ ~Known(unsupported, n)} IN
     /\ requested' = FALSE /\ pending' = wanted
     /\ instanceIds' = [n \in Nodes |->
          IF rows[n] = None THEN None ELSE IF n \in Healthy THEN Told(n) ELSE instanceIds[n]]
     /\ bootstrapped' = [n \in Nodes |->
          IF n \in Healthy /\ rows[n].ready THEN Effective(n) ELSE Kept(bootstrapped, n)]
     /\ unsupported' = [n \in Nodes |->
          IF n \in Healthy /\ rows[n].ready THEN None ELSE Kept(unsupported, n)]
     /\ pc' = IF wanted = {} THEN "pass" ELSE "list"
  /\ UNCHANGED <<agent, rows, call, faults>>

\* consoleServerIdsByNode(): an error ends the reconciliation, and what was
\* requested meanwhile begins another.
List ==
  /\ pc = "list"
  /\ \/ pc' = "calls" /\ UNCHANGED faults
        /\ call' = [n \in Nodes |-> IF n \in pending
             THEN [for |-> IF instanceIds[n] = None THEN 0 ELSE instanceIds[n], result |-> None] ELSE None]
     \/ Fault /\ pc' = (IF requested THEN "pass" ELSE "none") /\ UNCHANGED call
  /\ pending' = {} /\ UNCHANGED <<agent, rows, requested, beliefs>>

\* The call reaches the agent, whose answer may be lost, or does not reach it.
Arrive(n) ==
  /\ call[n] # None /\ call[n].result = None
  /\ \/ /\ agent' = [agent EXCEPT ![n].ready = Supports(n)]
        /\ call' = [call EXCEPT ![n].result = IF Supports(n) THEN "done" ELSE "unimplemented"]
        /\ UNCHANGED faults
     \/ /\ Fault /\ call' = [call EXCEPT ![n].result = "error"]
        /\ agent' \in {agent, [agent EXCEPT ![n].ready = Supports(n)]}
  /\ UNCHANGED <<rows, requested, pc, pending, beliefs>>

\* Seeded fault: an answer that tells of a failure is not looked at.
Accepted_Any(c) == c.result # "unimplemented"
Accepted(c) == c.result = "done"

\* syncNode(), after its call.
Sync(n) ==
  /\ call[n] # None /\ call[n].result # None
  /\ LET c == call[n] IN
     /\ bootstrapped' = IF Accepted(c) THEN [bootstrapped EXCEPT ![n] = c.for] ELSE bootstrapped
     /\ unsupported' = CASE Accepted(c) -> [unsupported EXCEPT ![n] = None]
                         [] c.result = "unimplemented" -> [unsupported EXCEPT ![n] = c.for]
                         [] OTHER -> unsupported
  /\ call' = [call EXCEPT ![n] = None]
  /\ pc' = IF \A m \in Nodes \ {n} : call[m] = None THEN "pass" ELSE pc
  /\ UNCHANGED <<agent, rows, requested, pending, instanceIds, faults>>

\* The agent is restarted, or replaced by a newer one: the list is lost.
Restart(n) ==
  /\ agent[n].life < MaxLives
  /\ agent' = [agent EXCEPT ![n] = [life |-> @.life + 1, ready |-> FALSE]]
  /\ UNCHANGED <<rows, requested, pc, pending, call, beliefs, faults>>

Init ==
  /\ agent \in [Nodes -> [life : {1}, ready : BOOLEAN]] /\ \A n \in Old : ~agent[n].ready
  /\ rows = [n \in Nodes |-> None] /\ requested = FALSE /\ pc = "none"
  /\ pending = {} /\ call = [n \in Nodes |-> None]
  /\ bootstrapped = [n \in Nodes |-> None] /\ unsupported = [n \in Nodes |-> None]
  /\ instanceIds = [n \in Nodes |-> None] /\ faults = 0

Next ==
  \/ \E n \in Nodes : Observe(n) \/ Misses(n) \/ Arrive(n) \/ Sync(n) \/ Restart(n)
  \/ Pass \/ List

\* Nodes are polled again and again; a call ends by its deadline.
Fairness ==
  /\ WF_vars(Pass \/ List)
  /\ \A n \in Nodes : WF_vars(Observe(n)) /\ WF_vars(Arrive(n) \/ Sync(n))

Spec == Init /\ [][Next]_vars /\ Fairness

-----------------------------------------------------------------------------
(* Properties. *)

TypeOK ==
  /\ pc \in {"none", "pass", "list", "calls"} /\ pending \subseteq Nodes
  /\ (pc = "list") = (pending # {})
  /\ (pc = "calls") = (\E n \in Nodes : call[n] # None)
  /\ \A f \in {bootstrapped, unsupported, instanceIds} : f \in [Nodes -> 0..MaxLives \cup {None}]

\* Every agent that can take it has the list of its servers in the end, however
\* often it was restarted and whatever failed - unless it tells no instance: a
\* restart of such an agent goes unnoticed (reconcile, syncNode).
Has(n) == agent[n].ready \/ ~Supports(n)
InventoryArrives == \A n \in Nodes \ Silent : <>[]Has(n)
===============================================================================
