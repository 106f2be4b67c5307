---------------------------- MODULE ServerRegistry ----------------------------
(***************************************************************************)
(* The `servers` table of the panel and the transactions that               *)
(* ServerRegistryService runs on it (PostgreSQL mode, the only mode in      *)
(* which several API replicas may share the table).  Every operator that    *)
(* primes `servers` is one SERIALIZABLE transaction or one SQL statement,   *)
(* so it is one atomic step of whatever request handler issues it.  The     *)
(* module has no next-state relation of its own: the modules that extend    *)
(* it say which handler runs which transaction, and when.                   *)
(*                                                                         *)
(* A row keeps what the handlers branch on: the node, the primary host     *)
(* port (None when no agent reported one), the status and the              *)
(* AGAPORNIS_FROZEN variable.  Names, limits, eggs, owners and the other    *)
(* variables are left out.                                                  *)
(***************************************************************************)

CONSTANTS
  Servers,   \* server ids that requests may name
  Nodes,     \* registered agents
  Ports,     \* host ports: the panel reserves one, and the agents report one
  None       \* "no row" (and, in the modules that extend this one, "no request")

VARIABLE servers   \* the table: a row, or None, for every id

(***************************************************************************)
(* Statuses.  A transitional status is a claim: the workflow that wrote it *)
(* is the one that must resolve it.                                        *)
(***************************************************************************)
Transitional == {"provisioning", "deleting", "transferring"}
Stable == {"created", "running", "stopped", "offline", "frozen"}
Statuses == Transitional \cup Stable

Row == [node : Nodes, port : Ports \cup {None}, status : Statuses, frozen : BOOLEAN]

ASSUME NoneAssumption == None \notin Row

RegistryTypeOK == servers \in [Servers -> Row \cup {None}]

Exists(s) == servers[s] # None

HasStatus(s, S) == Exists(s) /\ servers[s].status \in S

IsFrozen(row) == row.status = "frozen" \/ row.frozen

WriteStatus(s, status) == servers' = [servers EXCEPT ![s].status = status]

(***************************************************************************)
(* The unique index on (node_id, assigned_host_port); it ignores rows that  *)
(* have no port.                                                           *)
(***************************************************************************)
PortTaken(s, n, q) ==
  q # None /\ \E t \in Servers \ {s} :
    Exists(t) /\ servers[t].node = n /\ servers[t].port = q

-----------------------------------------------------------------------------
(* Reservation and its two outcomes. *)

\* reserveRandomPort: insert a provisioning row with some unused port.  When
\* the row exists the call replays or throws, and the table stays as it is.
ReserveRandomPort(s, n) ==
  /\ ~Exists(s)
  /\ \E q \in Ports :
       /\ ~PortTaken(s, n, q)
       /\ servers' = [servers EXCEPT ![s] =
         [node |-> n, port |-> q, status |-> "provisioning", frozen |-> FALSE]]

\* What the end of a creation or of an egg change makes of a row.
CreatedAt(row, port) == [[row EXCEPT !.port = port] EXCEPT !.status = "created"]

\* The port of row s once an agent has answered with `reported`.
PortAfter(s, reported) == IF reported = None THEN servers[s].port ELSE reported

\* finalizeProvisioning throws when the row is not provisioning, or when the
\* unique index refuses the port that the agent reported.
RefusesPort(s, reported) ==
  /\ HasStatus(s, {"provisioning"})
  /\ PortTaken(s, servers[s].node, PortAfter(s, reported))

\* Seeded fault: no index compares the reported port with the other rows.
FinalizeProvisioning_AnyPort(s, reported) ==
  /\ HasStatus(s, {"provisioning"})
  /\ servers' = [servers EXCEPT ![s] = CreatedAt(@, PortAfter(s, reported))]

FinalizeProvisioning(s, reported) ==
  /\ HasStatus(s, {"provisioning"}) /\ ~RefusesPort(s, reported)
  /\ servers' = [servers EXCEPT ![s] = CreatedAt(@, PortAfter(s, reported))]

\* releaseProvisioning: DELETE ... WHERE status = 'provisioning'.
ReleaseProvisioning(s) ==
  servers' = IF HasStatus(s, {"provisioning"})
             THEN [servers EXCEPT ![s] = None] ELSE servers

-----------------------------------------------------------------------------
(* Deletion. *)

\* Seeded fault: the claim refuses no status.
MayClaimDeletion_AnyStatus(s, allowProvisioning) == Exists(s)

\* Seeded fault: a row that is being deleted can be claimed once more.
MayClaimDeletion_Twice(s, allowProvisioning) ==
  Exists(s) /\ (servers[s].status = "provisioning" => allowProvisioning)

MayClaimDeletion(s, allowProvisioning) ==
  /\ Exists(s)
  /\ servers[s].status # "deleting"
  /\ servers[s].status = "provisioning" => allowProvisioning

\* Seeded fault: the claim is checked and never written.
ClaimDeletion_Unwritten(s, allowProvisioning) ==
  MayClaimDeletion(s, allowProvisioning) /\ UNCHANGED servers

ClaimDeletion(s, allowProvisioning) ==
  MayClaimDeletion(s, allowProvisioning) /\ WriteStatus(s, "deleting")

RestoreDeletion(s, status) ==
  servers' = IF HasStatus(s, {"deleting"})
             THEN [servers EXCEPT ![s].status = status] ELSE servers

Remove(s) == servers' = [servers EXCEPT ![s] = None]

-----------------------------------------------------------------------------
(* Transitions of an existing server, and ordinary writes. *)

\* Seeded fault: the claim ignores the claims of others.
ClaimTransition_Unguarded(s, transition) ==
  Exists(s) /\ WriteStatus(s, transition)

ClaimTransition(s, transition) ==
  HasStatus(s, Stable) /\ WriteStatus(s, transition)

RestoreTransition(s, transition, status) ==
  servers' = IF HasStatus(s, {transition})
             THEN [servers EXCEPT ![s].status = status] ELSE servers

\* Seeded fault: the row is moved whatever its status.
FinalizeTransfer_AnyStatus(s, n, q, status) ==
  /\ Exists(s) /\ ~PortTaken(s, n, q)
  /\ servers' = [servers EXCEPT ![s] = [@ EXCEPT !.node = n, !.port = q, !.status = status]]

\* Seeded fault: nothing compares the port with those of the target.
FinalizeTransfer_AnyPort(s, n, q, status) ==
  /\ HasStatus(s, {"transferring"})
  /\ servers' = [servers EXCEPT ![s] = [@ EXCEPT !.node = n, !.port = q, !.status = status]]

\* finalizeTransfer: one transaction moves the row.  It throws when the row
\* is not transferring, or when the unique index refuses the port.
FinalizeTransfer(s, n, q, status) ==
  /\ HasStatus(s, {"transferring"}) /\ ~PortTaken(s, n, q)
  /\ servers' = [servers EXCEPT ![s] = [@ EXCEPT !.node = n, !.port = q, !.status = status]]

\* Seeded fault: setStatus overwrites a transitional row.
SetStatus_Always(s, status) ==
  servers' = IF Exists(s) THEN [servers EXCEPT ![s].status = status] ELSE servers

\* setStatus never touches a transitional row.
SetStatus(s, status) ==
  servers' = IF HasStatus(s, Stable)
             THEN [servers EXCEPT ![s].status = status] ELSE servers

\* updateSettings with a `variables` patch replaces the whole map, and with
\* it the frozen marker.  It throws while the row is transitional, and does
\* nothing when there is no row.
UpdateVariables(s, frozen) ==
  /\ ~HasStatus(s, Transitional)
  /\ servers' = IF Exists(s)
                THEN [servers EXCEPT ![s].frozen = frozen] ELSE servers

\* assignPortAllocations called with variables (reconcilePortAllocations)
\* replaces the map too, but looks at no status.
AssignPortAllocations(s, frozen) ==
  Exists(s) /\ servers' = [servers EXCEPT ![s].frozen = frozen]

\* upsert writes the whole row whatever is there; only the unique index can
\* refuse it.
Upsert(s, row) ==
  servers' = IF PortTaken(s, row.node, row.port)
             THEN servers ELSE [servers EXCEPT ![s] = row]

=============================================================================
