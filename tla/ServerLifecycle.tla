--------------------------- MODULE ServerLifecycle ---------------------------
(***************************************************************************)
(* The request handlers that create, delete, re-egg, power, freeze and     *)
(* configure servers, interleaved at every await.  A handler is a request   *)
(* record in proc[p]; p stands for one request slot on some API replica.    *)
(* Between two of its steps any other request may run, on this replica or   *)
(* another one, so whatever a handler read from the table before (snap) may *)
(* be stale when it is used.                                                *)
(*                                                                         *)
(* The agents are outside this repository.  A call to an agent either      *)
(* succeeds, is rejected (success: false), fails before it ran, or runs    *)
(* and loses its answer.                                                   *)
(***************************************************************************)
EXTENDS ServerRegistry, Naturals

CONSTANTS
  Procs,           \* request slots
  Ops,             \* the operations users and webhooks may invoke
  MaxFaults,       \* bound on failed agent calls, and on reported ports that
                   \* the table refuses
  MaxCrashes,      \* bound on replicas that die in the middle of a request
  NotifyMayFail    \* may a lifecycle notification fail on the event store?

CreateOps == {"create", "createFromEgg", "registryCreate", "billingProvision"}
RecordingOps == {"create", "createFromEgg"}
AdminDeleteOps == {"adminDelete", "forceDelete", "databaseOnlyDelete"}
RemoveOps == {"registryRemove", "billingRemove"}
PowerOps == {"start", "restart", "stop"}
AllOps == CreateOps \cup AdminDeleteOps \cup RemoveOps \cup PowerOps
            \cup {"changeEgg", "freeze", "unfreeze", "settings", "observe"}

ASSUME OpsAssumption == Ops \subseteq AllOps
ASSUME BoundsAssumption ==
  MaxFaults \in Nat /\ MaxCrashes \in Nat /\ NotifyMayFail \in BOOLEAN

VARIABLES
  container,  \* what each agent runs for each server id
  proc,       \* the request in progress in each slot
  stranded,   \* history: claims whose workflow ended without resolving them
  skipped,    \* history: ids whose row a request removed without asking the
              \* agent, whose claim it ended without holding it, or whose egg
              \* it changes on the node of an outdated copy of the row
  faults,     \* agent calls that failed so far, or answered with a port that
              \* finalizeProvisioning could not write
  crashes     \* requests cut off so far

vars == <<servers, container, proc, stranded, skipped, faults, crashes>>

ContainerStates == {"none", "stopped", "running"}

(***************************************************************************)
(* Program points.  ProvisioningPoints and DeletingPoints are the points   *)
(* at which the handler believes it owns the row.                          *)
(***************************************************************************)
ProvisioningPoints ==
  {"assignPorts", "resolve", "create", "recordRead", "finalize",
   "recordUpsert", "cleanup", "release",
   "eggDelete", "eggCreate", "eggUpsert", "eggRestore"}
DeletingPoints == {"deleteDatabases", "deleteContainer", "remove", "restore"}
OtherPoints ==
  {"notify", "lateCleanup", "lateRelease", "lateRestore", "claimDelete", "claimEgg",
   "reconcile", "settingsWrite", "freezeFlag", "freezeStatus", "freezeStop",
   "unfreezeFlag", "unfreezeStatus", "power", "powerStatus",
   "observeRead", "observeWrite"}
Points == ProvisioningPoints \cup DeletingPoints \cup OtherPoints

Request ==
  [op : AllOps, pc : Points, s : Servers,
   snap : Row \cup {None},          \* the row as the handler read it
   prev : Statuses \cup {"none"}]   \* claim.previousStatus, or observed status

ASSUME IdleAssumption == None \notin Request

At(p, point) == proc[p] # None /\ proc[p].pc = point
Begin(p, request) ==
  /\ proc[p] = None
  /\ request.op \in Ops
  /\ proc' = [proc EXCEPT ![p] = request]
Goto(p, point) == proc' = [proc EXCEPT ![p].pc = point]
Done(p) == proc' = [proc EXCEPT ![p] = None]

\* The claim that the request in slot p holds on its server, if it holds one.
Claim(p) ==
  IF proc[p] = None THEN "none"
  ELSE IF proc[p].pc \in ProvisioningPoints THEN "provisioning"
  ELSE IF proc[p].pc \in DeletingPoints THEN "deleting"
  ELSE "none"

Holds(p, s) == Claim(p) # "none" /\ proc[p].s = s

Outcomes == {"ok", "rejected", "unreachable", "lost"}

\* One call to the agent of node n about server s that would leave the
\* container in `state`.
AgentCall(n, s, outcome, state) ==
  /\ outcome # "ok" => faults < MaxFaults
  /\ faults' = IF outcome = "ok" THEN faults ELSE faults + 1
  /\ container' = IF outcome \in {"ok", "lost"}
                  THEN [container EXCEPT ![<<n, s>>] = state] ELSE container

history == <<stranded, skipped, crashes>>
agents == <<container, faults>>

-----------------------------------------------------------------------------
(* Creation: the two node routes (plain and from an egg), the registry     *)
(* route and billing provisioning.                                         *)

Reserve(p, s, n, op) ==
  /\ op \in CreateOps
  /\ ReserveRandomPort(s, n)
  /\ Begin(p, [op |-> op, pc |-> "assignPorts", s |-> s,
               snap |-> servers'[s], prev |-> "none"])
  /\ UNCHANGED <<agents, history>>

\* assignPortAllocations right after the reservation; it throws when the
\* node has too few ports, or when the reservation is gone.
AssignPorts(p) ==
  /\ At(p, "assignPorts")
  /\ \/ /\ Exists(proc[p].s)
        /\ Goto(p, IF proc[p].op = "create" THEN "create" ELSE "resolve")
     \/ Goto(p, "release")
  /\ UNCHANGED <<servers, agents, history>>

\* eggs.resolveServer and initializeProvisioningSettings, which throws when
\* the row exists in another status.  The billing webhook resolves the egg
\* outside its try block and writes no settings.
ResolveEgg(p) ==
  LET s == proc[p].s
      billing == proc[p].op = "billingProvision" IN
  /\ At(p, "resolve")
  /\ \/ /\ billing \/ ~HasStatus(s, Statuses \ {"provisioning"})
        /\ Goto(p, "create")
        /\ UNCHANGED stranded
     \/ /\ ~billing
        /\ Goto(p, "cleanup")
        /\ UNCHANGED stranded
     \/ /\ billing
        /\ Done(p)
        /\ stranded' = stranded \cup {s}
  /\ UNCHANGED <<servers, agents, skipped, crashes>>

CreateContainer(p) ==
  LET r == proc[p] IN
  /\ At(p, "create")
  /\ \E outcome \in Outcomes :
       /\ AgentCall(r.snap.node, r.s, outcome, "stopped")
       /\ Goto(p, CASE outcome = "ok" ->
                         IF r.op \in RecordingOps THEN "recordRead" ELSE "finalize"
                    [] outcome = "rejected" /\ r.op \in RecordingOps -> "release"
                    [] OTHER -> "cleanup")
  /\ UNCHANGED <<servers, history>>

\* recordServer reads the row before it decides how to write it.
RecordRead(p) ==
  /\ At(p, "recordRead")
  /\ Goto(p, IF HasStatus(proc[p].s, {"provisioning"})
             THEN "finalize" ELSE "recordUpsert")
  /\ UNCHANGED <<servers, agents, history>>

\* The port in the answer of the agent, which may hold none.  The registry
\* route writes the one it reserved.
Reported(r) ==
  CASE r.op = "registryCreate"   -> {r.snap.port}
    [] r.op = "billingProvision" -> Ports
    [] OTHER                     -> Ports \cup {None}

Finalize(p) ==
  LET s == proc[p].s IN
  /\ At(p, "finalize")
  /\ \/ /\ \E reported \in Reported(proc[p]) : FinalizeProvisioning(s, reported)
        /\ IF proc[p].op \in RecordingOps THEN Goto(p, "notify") ELSE Done(p)
        /\ UNCHANGED faults
     \/ /\ \E reported \in Reported(proc[p]) : RefusesPort(s, reported)
        /\ faults < MaxFaults
        /\ faults' = faults + 1
        /\ Goto(p, "cleanup")
        /\ UNCHANGED servers
     \/ /\ ~HasStatus(s, {"provisioning"})
        /\ Goto(p, "cleanup")
        /\ UNCHANGED <<servers, faults>>
  /\ UNCHANGED <<container, history>>

\* recordServer's other branch: write a fresh record whatever is there.
RecordUpsert(p) ==
  LET r == proc[p] IN
  /\ At(p, "recordUpsert")
  /\ \E port \in Reported(r) :
       /\ Upsert(r.s, CreatedAt(r.snap, port))
       /\ Goto(p, IF PortTaken(r.s, r.snap.node, port) THEN "cleanup" ELSE "notify")
  /\ UNCHANGED <<agents, history>>

\* dispatchServerEvent runs inside the same try block as the creation.
Notify(p) ==
  /\ At(p, "notify")
  /\ \/ Done(p)
     \/ NotifyMayFail /\ Goto(p, "lateCleanup")
  /\ UNCHANGED <<servers, agents, history>>

\* Seeded fault: the catch block forgets the container.
Cleanup_RowOnly(p) ==
  /\ At(p, "cleanup") \/ At(p, "lateCleanup")
  /\ Goto(p, IF proc[p].pc = "cleanup" THEN "release" ELSE "lateRelease")
  /\ UNCHANGED <<servers, agents, history>>

\* Seeded fault: the catch block forgets the reservation.
Cleanup_KeepsRow(p) ==
  LET r == proc[p] IN
  /\ At(p, "cleanup") \/ At(p, "lateCleanup")
  /\ \E outcome \in Outcomes : AgentCall(r.snap.node, r.s, outcome, "none")
  /\ Done(p)
  /\ UNCHANGED <<servers, history>>

\* The catch block: delete the container, best effort, then release.
Cleanup(p) ==
  LET r == proc[p] IN
  /\ At(p, "cleanup") \/ At(p, "lateCleanup")
  /\ \E outcome \in Outcomes : AgentCall(r.snap.node, r.s, outcome, "none")
  /\ Goto(p, IF r.pc = "cleanup" THEN "release" ELSE "lateRelease")
  /\ UNCHANGED <<servers, history>>

Release(p) ==
  LET s == proc[p].s IN
  /\ At(p, "release") \/ At(p, "lateRelease")
  /\ ReleaseProvisioning(s)
  /\ Done(p)
  /\ stranded' = IF HasStatus(s, {"provisioning"})
                 THEN stranded \ {s} ELSE stranded
  /\ skipped' = IF At(p, "lateRelease") /\ HasStatus(s, {"provisioning"})
                THEN skipped \cup {s} ELSE skipped
  /\ UNCHANGED <<agents, crashes>>

-----------------------------------------------------------------------------
(* Deletion: the agent route (with its two recovery flags), the registry   *)
(* route and the billing webhook.                                          *)

DeleteRead(p, s, op) ==
  /\ op \in AdminDeleteOps
  /\ Exists(s)
  /\ Begin(p, [op |-> op, pc |-> "claimDelete", s |-> s,
               snap |-> servers[s], prev |-> "none"])
  /\ UNCHANGED <<servers, agents, history>>

\* forceProvisioningCleanup counts only if the row read was provisioning.
ProvisioningRecovery(r) ==
  r.op = "forceDelete" /\ r.snap.status = "provisioning"
LocalCleanup(r) == r.op = "databaseOnlyDelete" \/ ProvisioningRecovery(r)

ClaimDelete(p) ==
  LET r == proc[p]
      allow == ProvisioningRecovery(r)
      claimed == [r EXCEPT !.pc = "deleteDatabases", !.prev = servers[r.s].status]
      replayed == HasStatus(r.s, {"deleting"}) IN
  /\ At(p, "claimDelete")
  /\ \/ /\ ClaimDeletion(r.s, allow)
        /\ proc' = [proc EXCEPT ![p] = claimed]
        /\ stranded' = stranded \ {r.s}
     \/ /\ ~MayClaimDeletion(r.s, allow)
        /\ IF replayed /\ r.op = "databaseOnlyDelete"
           THEN proc' = [proc EXCEPT ![p] = claimed]
           ELSE Done(p)
        /\ UNCHANGED <<servers, stranded>>
  /\ UNCHANGED <<agents, skipped, crashes>>

\* The other two routes claim first and work from the claimed record.
ClaimRemove(p, s, op) ==
  /\ op \in RemoveOps
  /\ ClaimDeletion(s, FALSE)
  /\ Begin(p, [op |-> op, s |-> s, snap |-> servers[s],
               prev |-> servers[s].status,
               pc |-> IF op = "registryRemove" THEN "deleteDatabases"
                      ELSE "deleteContainer"])
  /\ stranded' = stranded \ {s}
  /\ UNCHANGED <<agents, skipped, crashes>>

\* deleteAllForServer; with skipAgent it only deletes rows.
DeleteDatabases(p) ==
  /\ At(p, "deleteDatabases")
  /\ \/ /\ Goto(p, IF LocalCleanup(proc[p]) THEN "remove" ELSE "deleteContainer")
        /\ UNCHANGED faults
     \/ /\ ~LocalCleanup(proc[p]) /\ faults < MaxFaults
        /\ Goto(p, "restore")
        /\ faults' = faults + 1
  /\ UNCHANGED <<servers, container, history>>

\* Seeded fault: the row is removed whatever the agent answered.
DeleteContainer_IgnoresFailure(p) ==
  LET r == proc[p] IN
  /\ At(p, "deleteContainer")
  /\ \E outcome \in Outcomes : AgentCall(r.snap.node, r.s, outcome, "none")
  /\ Goto(p, "remove")
  /\ UNCHANGED <<servers, history>>

DeleteContainer(p) ==
  LET r == proc[p] IN
  /\ At(p, "deleteContainer")
  /\ \E outcome \in Outcomes :
       /\ AgentCall(r.snap.node, r.s, outcome, "none")
       /\ Goto(p, IF outcome = "ok" THEN "remove" ELSE "restore")
  /\ UNCHANGED <<servers, history>>

\* The agent route dispatches its event inside the try block, after the
\* removal.
RemoveRow(p) ==
  LET r == proc[p] IN
  /\ At(p, "remove")
  /\ Remove(r.s)
  /\ \/ Done(p)
     \/ NotifyMayFail /\ r.op \in AdminDeleteOps /\ Goto(p, "lateRestore")
  /\ stranded' = stranded \ {r.s}
  /\ skipped' = IF LocalCleanup(r) THEN skipped \cup {r.s} ELSE skipped
  /\ UNCHANGED <<agents, crashes>>

\* The agent route restores the status it read before the claim; the other
\* two restore the status the claim itself reported.
RestoreStatus(r) == IF r.op \in AdminDeleteOps THEN r.snap.status ELSE r.prev

RestoreRow(p) ==
  LET r == proc[p] IN
  /\ At(p, "restore") \/ At(p, "lateRestore")
  /\ RestoreDeletion(r.s, RestoreStatus(r))
  /\ Done(p)
  /\ stranded' = IF /\ HasStatus(r.s, {"deleting"})
                    /\ RestoreStatus(r) \in Transitional
                 THEN stranded \cup {r.s} ELSE stranded
  /\ skipped' = IF At(p, "lateRestore") /\ HasStatus(r.s, {"deleting"})
                THEN skipped \cup {r.s} ELSE skipped
  /\ UNCHANGED <<agents, crashes>>

-----------------------------------------------------------------------------
(* Changing the egg: delete the container, create another, write the row.  *)

EggRead(p, s) ==
  /\ Exists(s) /\ ~IsFrozen(servers[s])
  /\ Begin(p, [op |-> "changeEgg", pc |-> "claimEgg", s |-> s,
               snap |-> servers[s], prev |-> "none"])
  /\ UNCHANGED <<servers, agents, history>>

\* Seeded fault: the claim does not keep the status it replaced.
EggClaim_ForgetsStatus(p) ==
  /\ At(p, "claimEgg")
  /\ \/ ClaimTransition(proc[p].s, "provisioning") /\ Goto(p, "eggDelete")
     \/ Done(p) /\ UNCHANGED servers
  /\ UNCHANGED <<agents, history>>

EggClaim(p) ==
  LET r == proc[p] IN
  /\ At(p, "claimEgg")
  /\ \/ /\ ClaimTransition(r.s, "provisioning")
        /\ proc' = [proc EXCEPT ![p] = [@ EXCEPT !.pc = "eggDelete",
                                !.prev = servers[r.s].status]]
        /\ skipped' = IF servers[r.s].node = r.snap.node
                      THEN skipped ELSE skipped \cup {r.s}
     \/ /\ Done(p)      \* resolveServer throws first, or the claim throws
        /\ UNCHANGED <<servers, skipped>>
  /\ UNCHANGED <<agents, stranded, crashes>>

\* Seeded fault: a failed deletion leaves the claim behind.
EggDelete_NoRestore(p) ==
  LET r == proc[p] IN
  /\ At(p, "eggDelete")
  /\ \E outcome \in Outcomes :
       /\ AgentCall(r.snap.node, r.s, outcome, "none")
       /\ IF outcome = "ok" THEN Goto(p, "eggCreate") ELSE Done(p)
  /\ UNCHANGED <<servers, history>>

EggDelete(p) ==
  LET r == proc[p] IN
  /\ At(p, "eggDelete")
  /\ \E outcome \in Outcomes :
       /\ AgentCall(r.snap.node, r.s, outcome, "none")
       /\ Goto(p, IF outcome = "ok" THEN "eggCreate" ELSE "eggRestore")
  /\ UNCHANGED <<servers, history>>

EggRestore(p) ==
  LET r == proc[p] IN
  /\ At(p, "eggRestore")
  /\ RestoreTransition(r.s, "provisioning", r.prev)
  /\ Done(p)
  /\ UNCHANGED <<agents, history>>

\* Once the old container is gone nothing restores the row: a failed create
\* leaves it provisioning.
EggCreate(p) ==
  LET r == proc[p] IN
  /\ At(p, "eggCreate")
  /\ \E outcome \in Outcomes :
       /\ AgentCall(r.snap.node, r.s, outcome, "stopped")
       /\ IF outcome = "ok"
          THEN Goto(p, "eggUpsert") /\ UNCHANGED stranded
          ELSE Done(p) /\ stranded' = stranded \cup {r.s}
  /\ UNCHANGED <<servers, skipped, crashes>>

\* The row is rebuilt from the copy read before the claim, with the port that
\* the agent reports; the request may have asked the agent for any.
EggUpsert(p) ==
  LET r == proc[p] IN
  /\ At(p, "eggUpsert")
  /\ \E port \in Ports \cup {r.snap.port} :
       /\ Upsert(r.s, CreatedAt(r.snap, port))
       /\ stranded' = IF /\ PortTaken(r.s, r.snap.node, port)
                         /\ HasStatus(r.s, {"provisioning"})
                      THEN stranded \cup {r.s} ELSE stranded
  /\ Done(p)
  /\ UNCHANGED <<agents, skipped, crashes>>

-----------------------------------------------------------------------------
(* Settings, freeze and unfreeze: read, then write from the copy.          *)

SettingsRead(p, s) ==
  /\ Exists(s) /\ ~IsFrozen(servers[s])
  /\ \E point \in {"reconcile", "settingsWrite"} :
       Begin(p, [op |-> "settings", pc |-> point, s |-> s,
                 snap |-> servers[s], prev |-> "none"])
  /\ UNCHANGED <<servers, agents, history>>

\* reconcilePortAllocations, when the patch changes a port variable.
ReconcilePorts(p) ==
  LET r == proc[p] IN
  /\ At(p, "reconcile")
  /\ \/ AssignPortAllocations(r.s, r.snap.frozen) /\ Goto(p, "settingsWrite")
     \/ Done(p) /\ UNCHANGED servers
  /\ UNCHANGED <<agents, history>>

SettingsWrite(p) ==
  LET r == proc[p] IN
  /\ At(p, "settingsWrite")
  /\ \/ UpdateVariables(r.s, r.snap.frozen)
     \/ UNCHANGED servers
  /\ Done(p)
  /\ UNCHANGED <<agents, history>>

\* The admin route refuses a transitional row here; the billing webhook
\* leaves that to the write.
FreezeRead(p, s, billing) ==
  /\ Exists(s) /\ ~IsFrozen(servers[s])
  /\ billing \/ HasStatus(s, Stable)
  /\ Begin(p, [op |-> "freeze", pc |-> "freezeFlag", s |-> s,
               snap |-> servers[s], prev |-> "none"])
  /\ UNCHANGED <<servers, agents, history>>

UnfreezeRead(p, s) ==
  /\ Exists(s) /\ IsFrozen(servers[s])
  /\ Begin(p, [op |-> "unfreeze", pc |-> "unfreezeFlag", s |-> s,
               snap |-> servers[s], prev |-> "none"])
  /\ UNCHANGED <<servers, agents, history>>

\* updateSettings, which sets or clears the marker.
WriteFlag(p) ==
  LET freeze == At(p, "freezeFlag") IN
  /\ freeze \/ At(p, "unfreezeFlag")
  /\ \/ /\ UpdateVariables(proc[p].s, freeze)
        /\ Goto(p, IF freeze THEN "freezeStatus" ELSE "unfreezeStatus")
     \/ /\ HasStatus(proc[p].s, Transitional)
        /\ Done(p)
        /\ UNCHANGED servers
  /\ UNCHANGED <<agents, history>>

FreezeStatus(p) ==
  /\ At(p, "freezeStatus")
  /\ SetStatus(proc[p].s, "frozen")
  /\ Goto(p, "freezeStop")
  /\ UNCHANGED <<agents, history>>

UnfreezeStatus(p) ==
  /\ At(p, "unfreezeStatus")
  /\ SetStatus(proc[p].s, "stopped")
  /\ Done(p)
  /\ UNCHANGED <<agents, history>>

-----------------------------------------------------------------------------
(* Power and telemetry.                                                    *)

PowerState(op) == IF op = "stop" THEN "stopped" ELSE "running"

\* A power command never brings a container into existence.
AgentPower(r, outcome, state) ==
  IF container[<<r.snap.node, r.s>>] = "none"
  THEN outcome \in {"rejected", "unreachable"} /\ UNCHANGED agents
  ELSE AgentCall(r.snap.node, r.s, outcome, state)

\* Freezing stops the container, best effort.
FreezeStop(p) ==
  /\ At(p, "freezeStop")
  /\ \E outcome \in Outcomes : AgentPower(proc[p], outcome, "stopped")
  /\ Done(p)
  /\ UNCHANGED <<servers, history>>

PowerRead(p, s, op) ==
  /\ op \in PowerOps
  /\ Exists(s) /\ ~IsFrozen(servers[s])
  /\ Begin(p, [op |-> op, pc |-> "power", s |-> s,
               snap |-> servers[s], prev |-> "none"])
  /\ UNCHANGED <<servers, agents, history>>

\* A rejected power command is not an error: the status is written anyway.
PowerAgent(p) ==
  LET r == proc[p] IN
  /\ At(p, "power")
  /\ \E outcome \in Outcomes :
       /\ AgentPower(r, outcome, PowerState(r.op))
       /\ IF outcome \in {"ok", "rejected"} THEN Goto(p, "powerStatus") ELSE Done(p)
  /\ UNCHANGED <<servers, history>>

\* After a stop the databases are stopped too, and may refuse.
PowerStatus(p) ==
  /\ At(p, "powerStatus")
  /\ \/ SetStatus(proc[p].s, PowerState(proc[p].op))
     \/ proc[p].op = "stop" /\ UNCHANGED servers
  /\ Done(p)
  /\ UNCHANGED <<agents, history>>

\* A stats feed polls the agent, then reads the row, then writes it.
Observed(state) == IF state = "running" THEN "running" ELSE "offline"

ObservePoll(p, s, n) ==
  /\ container[<<n, s>>] # "none"
  /\ Begin(p, [op |-> "observe", pc |-> "observeRead", s |-> s,
               snap |-> None, prev |-> Observed(container[<<n, s>>])])
  /\ UNCHANGED <<servers, agents, history>>

ObserveRead(p) ==
  LET r == proc[p] IN
  /\ At(p, "observeRead")
  /\ IF /\ HasStatus(r.s, Stable)
        /\ ~IsFrozen(servers[r.s])
        /\ servers[r.s].status # r.prev
     THEN Goto(p, "observeWrite") ELSE Done(p)
  /\ UNCHANGED <<servers, agents, history>>

ObserveWrite(p) ==
  /\ At(p, "observeWrite")
  /\ SetStatus(proc[p].s, proc[p].prev)
  /\ Done(p)
  /\ UNCHANGED <<agents, history>>

-----------------------------------------------------------------------------

\* The replica running the request dies.  Nothing resumes a request, and
\* no start-up code looks for claims that were left behind.
Crash(p) ==
  /\ proc[p] # None
  /\ crashes < MaxCrashes
  /\ Done(p)
  /\ crashes' = crashes + 1
  /\ stranded' = IF Claim(p) # "none" THEN stranded \cup {proc[p].s} ELSE stranded
  /\ UNCHANGED <<servers, agents, skipped>>

Init ==
  /\ servers = [s \in Servers |-> None]
  /\ container = [ns \in Nodes \X Servers |-> "none"]
  /\ proc = [p \in Procs |-> None]
  /\ stranded = {}
  /\ skipped = {}
  /\ faults = 0
  /\ crashes = 0

\* A request arrives.
Arrive(p) ==
  \E s \in Servers :
    \/ \E n \in Nodes, op \in CreateOps : Reserve(p, s, n, op)
    \/ \E op \in AdminDeleteOps : DeleteRead(p, s, op)
    \/ \E op \in RemoveOps : ClaimRemove(p, s, op)
    \/ EggRead(p, s)
    \/ SettingsRead(p, s)
    \/ \E billing \in BOOLEAN : FreezeRead(p, s, billing)
    \/ UnfreezeRead(p, s)
    \/ \E op \in PowerOps : PowerRead(p, s, op)
    \/ \E n \in Nodes : ObservePoll(p, s, n)

\* A request in progress takes its next step.
CreateStep(p) ==
  \/ AssignPorts(p) \/ ResolveEgg(p) \/ CreateContainer(p) \/ RecordRead(p)
  \/ Finalize(p) \/ RecordUpsert(p) \/ Notify(p) \/ Cleanup(p) \/ Release(p)
DeleteStep(p) ==
  \/ ClaimDelete(p) \/ DeleteDatabases(p) \/ DeleteContainer(p)
  \/ RemoveRow(p) \/ RestoreRow(p)
EggStep(p) ==
  EggClaim(p) \/ EggDelete(p) \/ EggRestore(p) \/ EggCreate(p) \/ EggUpsert(p)
WriteStep(p) ==
  \/ ReconcilePorts(p) \/ SettingsWrite(p) \/ WriteFlag(p)
  \/ FreezeStatus(p) \/ UnfreezeStatus(p) \/ FreezeStop(p)
RuntimeStep(p) ==
  PowerAgent(p) \/ PowerStatus(p) \/ ObserveRead(p) \/ ObserveWrite(p)
Step(p) ==
  CreateStep(p) \/ DeleteStep(p) \/ EggStep(p) \/ WriteStep(p) \/ RuntimeStep(p)

Next == \E p \in Procs : Arrive(p) \/ Step(p) \/ Crash(p)

Spec == Init /\ [][Next]_vars

\* A live request is always resumed; users and crashes promise nothing.
FairSpec == Spec /\ \A p \in Procs : WF_vars(Step(p))

-----------------------------------------------------------------------------
(* Properties. *)

TypeOK ==
  /\ RegistryTypeOK
  /\ container \in [Nodes \X Servers -> ContainerStates]
  /\ proc \in [Procs -> Request \cup {None}]
  /\ stranded \subseteq Servers
  /\ skipped \subseteq Servers
  /\ faults \in 0 .. MaxFaults
  /\ crashes \in 0 .. MaxCrashes

\* The claims of the registry exclude one another across all handlers and
\* replicas: no two workflows ever work on the same server.
ClaimsExclude ==
  \A p, q \in Procs, s \in Servers : Holds(p, s) /\ Holds(q, s) => p = q

\* A workflow that believes it owns a server finds the row in the status it
\* claimed: nobody deletes or re-labels a row under a running workflow.
ClaimsBacked ==
  \A p \in Procs : Claim(p) # "none" => HasStatus(proc[p].s, {Claim(p)})

\* A transitional row has a live workflow behind it, or was left by one of
\* the workflows the code knows not to finish: a crash, an egg change that
\* failed after deleting the container, a billing order whose egg does not
\* resolve, or a failed delete that put back a stale status.
ClaimsOwned ==
  \A s \in Servers : HasStatus(s, Transitional) =>
    s \in stranded \/ \E p \in Procs : Holds(p, s)

\* What a workflow that claimed a server may rely on: it is alone, it finds the
\* row as it left it, and no claim outlives the workflow that made it
\* (claimDeletion, claimTransition, finalizeDeletion, the catch blocks).
ClaimsSound == ClaimsExclude /\ ClaimsBacked /\ ClaimsOwned

\* With at most one failed agent call, or one reported port that the table
\* refuses, no agent runs a container that the panel has no row for, unless a
\* recovery delete skipped the agent.
NoUntrackedContainer ==
  \A n \in Nodes, s \in Servers :
    container[<<n, s>>] # "none" /\ faults < 2 =>
      (Exists(s) /\ servers[s].node = n) \/ s \in skipped

\* No two rows of a node share a primary host port, although a creation and an
\* egg change write the port that an agent reports, and an egg change one that
\* its copy of the row or its caller names (finalizeProvisioning, upsert).
UniquePorts ==
  \A s, t \in Servers :
    /\ s # t /\ Exists(s) /\ Exists(t)
    /\ servers[s].node = servers[t].node
    => servers[s].port # servers[t].port \/ servers[s].port = None

\* A stable row has a container on its node as long as every agent call
\* succeeds, whatever requests race.
ServersHaveContainers ==
  \A s \in Servers :
    HasStatus(s, Stable) /\ faults = 0 => container[<<servers[s].node, s>>] # "none"

\* Only the request that holds a claim ends it, and it lets go in the very
\* transaction that does: a transitional status is never changed, and the
\* row never removed, behind its workflow's back.
ClaimsEndedByHolder ==
  [][\A s \in Servers, status \in Transitional :
       HasStatus(s, {status}) /\ ~HasStatus(s, {status})' =>
         \E p \in Procs : Holds(p, s) /\ ~Holds(p, s)']_vars

\* What scripts/server-policy-test.cjs says of recordObservedStatus: "agent
\* telemetry must not overwrite a manual frozen state".
TelemetryKeepsFrozen ==
  [][\A p \in Procs, s \in Servers :
       /\ At(p, "observeWrite") /\ proc[p].s = s /\ ~At(p, "observeWrite")'
       /\ HasStatus(s, {"frozen"})
       => HasStatus(s, {"frozen"})']_vars

\* A claim does not last for ever: a transitional row becomes stable or goes
\* away, unless its workflow abandoned it.
ClaimsResolve ==
  \A s \in Servers :
    HasStatus(s, Transitional) ~> (~HasStatus(s, Transitional) \/ s \in stranded)

-----------------------------------------------------------------------------
(* Refinement: without the two recovery flags, and as long as no           *)
(* notification fails inside a workflow, the handlers implement a lock with *)
(* one holder per server.                                                  *)
Runtime == INSTANCE ExclusiveRuntime WITH
  locked <- {s \in Servers : HasStatus(s, Transitional)},
  holder <- [s \in Servers |-> {p \in Procs : Holds(p, s)}],
  present <- {ns \in Nodes \X Servers : container[ns] # "none"}

\* Every step of every handler is a step of the lock, or leaves the lock and
\* the existence of containers alone.
ImplementsExclusiveRuntime == Runtime!Spec

=============================================================================
