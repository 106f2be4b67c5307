---------------------------- MODULE ServerTransfer ----------------------------
(***************************************************************************)
(* Moving a server to another node: a saga over two agents, the row and    *)
(* the rows of its databases, composed with the handlers of                *)
(* ServerLifecycle.  A transfer runs as a background job; several jobs,    *)
(* also for one server, may run on any replica, and any handler may run    *)
(* between two of their steps.                                             *)
(*                                                                         *)
(* container[<<n, s>>] # "none" also stands for files of s on n that have  *)
(* no container yet.  The databases of a server are one group.             *)
(***************************************************************************)
EXTENDS ServerLifecycle

CONSTANTS
  Movers,          \* transfer jobs
  Routes,          \* the <<source, target>> pairs that administrators request
  SerialTransfers  \* does nobody request a transfer before the last one ended?

ASSUME RoutesAssumption ==
  /\ Routes \subseteq {ft \in Nodes \X Nodes : ft[1] # ft[2]}
  /\ SerialTransfers \in BOOLEAN

VARIABLES
  mover,     \* the transfer job in progress
  dbNode,    \* server_databases.node_id, or None when the server has none
  attached   \* what an agent keeps for a server besides its container

allVars == <<vars, mover, dbNode, attached>>

Attachments == {"databases", "backups"}

ClaimedStages ==
  {"list", "serverData", "databaseData", "backups", "create",
   "createDatabases", "power", "databaseRows", "commit", "databaseRowsBack",
   "rollDatabases", "rollServer", "rollBackups", "restartSource", "restore"}
OtherStages ==
  {"access", "port", "claim", "cleanDatabases", "cleanServer", "cleanBackups"}

Job ==
  [stage : ClaimedStages \cup OtherStages, s : Servers, from : Nodes, to : Nodes,
   port : Ports \cup {None},
   prev : Statuses \cup {"none"},      \* transition.previousStatus
   databases : BOOLEAN,                \* did the listing return any?
   tried : SUBSET Attachments]         \* imports that were attempted

ASSUME NoJobAssumption == None \notin Job \cup Nodes

Stage(m, stage) == mover[m] # None /\ mover[m].stage = stage
Enter(m, stage) == mover' = [mover EXCEPT ![m].stage = stage]
EndJob(m) == mover' = [mover EXCEPT ![m] = None]
MoverHolds(m, s) ==
  mover[m] # None /\ mover[m].s = s /\ mover[m].stage \in ClaimedStages

InTransfer(s) == \E k \in Movers : mover[k] # None /\ mover[k].s = s

\* The catch block, from its first call.
Fail(m) ==
  Enter(m, IF "databases" \in mover[m].tried THEN "rollDatabases" ELSE "rollServer")

\* One agent call that would leave `items` besides the container of s.
AttachedCall(n, s, outcome, items) ==
  /\ outcome # "ok" => faults < MaxFaults
  /\ faults' = IF outcome = "ok" THEN faults ELSE faults + 1
  /\ attached' = IF outcome \in {"ok", "lost"}
                 THEN [attached EXCEPT ![<<n, s>>] = items] ELSE attached

\* Starting what the agent does not have is refused.
StartCall(n, s, outcome) ==
  IF container[<<n, s>>] = "none"
  THEN outcome \in {"rejected", "unreachable"} /\ UNCHANGED agents
  ELSE AgentCall(n, s, outcome, "running")

requests == <<proc, skipped>>
claims == <<stranded, crashes>>

-----------------------------------------------------------------------------
(* Preparation: the route, the job's own check, the port, the claim.       *)

StartTransfer(m, s, from, to) ==
  /\ mover[m] = None
  /\ <<from, to>> \in Routes
  /\ Exists(s) /\ servers[s].node = from /\ ~IsFrozen(servers[s])
  /\ ~(SerialTransfers /\ InTransfer(s))
  /\ mover' = [mover EXCEPT ![m] =
       [stage |-> "access", s |-> s, from |-> from, to |-> to, port |-> None,
        prev |-> "none", databases |-> FALSE, tried |-> {}]]
  /\ UNCHANGED <<servers, agents, requests, claims, dbNode, attached>>

CheckAccess(m) ==
  LET r == mover[m] IN
  /\ Stage(m, "access")
  /\ IF Exists(r.s) /\ servers[r.s].node = r.from THEN Enter(m, "port") ELSE EndJob(m)
  /\ UNCHANGED <<servers, agents, requests, claims, dbNode, attached>>

UsedPorts(n) == {servers[s].port : s \in {t \in Servers : Exists(t) /\ servers[t].node = n}}

\* allocateRandomPort: a query, no reservation.
ChoosePort(m) ==
  LET free == Ports \ UsedPorts(mover[m].to) IN
  /\ Stage(m, "port")
  /\ \/ \E q \in free : mover' = [mover EXCEPT ![m] = [@ EXCEPT !.stage = "claim", !.port = q]]
     \/ free = {} /\ EndJob(m)
  /\ UNCHANGED <<servers, agents, requests, claims, dbNode, attached>>

\* Seeded fault: the job does not keep the status it replaced.
ClaimTransfer_ForgetsStatus(m) ==
  LET s == mover[m].s IN
  /\ Stage(m, "claim")
  /\ \/ ClaimTransition(s, "transferring") /\ Enter(m, "list")
     \/ ~HasStatus(s, Stable) /\ EndJob(m) /\ UNCHANGED servers
  /\ UNCHANGED <<agents, requests, claims, dbNode, attached>>

ClaimTransfer(m) ==
  LET s == mover[m].s IN
  /\ Stage(m, "claim")
  /\ \/ /\ ClaimTransition(s, "transferring")
        /\ mover' = [mover EXCEPT ![m] = [@ EXCEPT !.stage = "list", !.prev = servers[s].status]]
     \/ /\ ~HasStatus(s, Stable)
        /\ EndJob(m)
        /\ UNCHANGED servers
  /\ UNCHANGED <<agents, requests, claims, dbNode, attached>>

ListDatabases(m) ==
  /\ Stage(m, "list")
  /\ mover' = [mover EXCEPT ![m] = [@ EXCEPT !.stage = "serverData",
                            !.databases = dbNode[mover[m].s] # None]]
  /\ UNCHANGED <<servers, agents, requests, claims, dbNode, attached>>

-----------------------------------------------------------------------------
(* Copying.  An export stops what it exports.                              *)

TransferServerData(m) ==
  LET r == mover[m] IN
  /\ Stage(m, "serverData")
  /\ \/ /\ container[<<r.from, r.s>>] = "none"     \* nothing to export
        /\ Fail(m)
        /\ UNCHANGED agents
     \/ /\ container[<<r.from, r.s>>] # "none"
        /\ \E outcome \in Outcomes :
             /\ outcome # "ok" => faults < MaxFaults
             /\ faults' = IF outcome = "ok" THEN faults ELSE faults + 1
             /\ container' = IF outcome \in {"ok", "lost"}
                  THEN [ns \in DOMAIN container |->
                          IF ns \in {<<r.from, r.s>>, <<r.to, r.s>>} THEN "stopped" ELSE container[ns]]
                  ELSE container
             /\ IF outcome = "ok"
                THEN Enter(m, IF r.databases THEN "databaseData" ELSE "backups")
                ELSE Fail(m)
  /\ UNCHANGED <<servers, requests, claims, dbNode, attached>>

\* Both imports note their attempt first; `item` is what they carry.
Import(m, stage, item, next) ==
  LET r == mover[m]
      here == <<r.from, r.s>>
      there == <<r.to, r.s>>
      tried == r.tried \cup {item} IN
  /\ Stage(m, stage)
  /\ \/ \E outcome \in Outcomes :
          /\ AttachedCall(r.to, r.s, outcome,
                          attached[there] \cup (attached[here] \cap {item}))
          /\ mover' = [mover EXCEPT ![m] = [@ EXCEPT !.tried = tried, !.stage =
               IF outcome = "ok" THEN next
               ELSE IF "databases" \in tried THEN "rollDatabases" ELSE "rollServer"]]
     \/ /\ item = "databases" /\ item \notin attached[here]   \* nothing to export
        /\ mover' = [mover EXCEPT ![m] = [@ EXCEPT !.tried = tried, !.stage = "rollDatabases"]]
        /\ UNCHANGED <<faults, attached>>
  /\ UNCHANGED <<servers, container, requests, claims, dbNode>>

TransferDatabaseData(m) == Import(m, "databaseData", "databases", "backups")
TransferBackups(m) == Import(m, "backups", "backups", "create")

-----------------------------------------------------------------------------
(* Building the target.                                                    *)

\* eggs.resolveServer, which may throw, and creation.create.
CreateOnTarget(m) ==
  LET r == mover[m] IN
  /\ Stage(m, "create")
  /\ \/ /\ Fail(m)
        /\ UNCHANGED agents
     \/ \E outcome \in Outcomes :
          /\ AgentCall(r.to, r.s, outcome, "stopped")
          /\ IF outcome = "ok" THEN Enter(m, "createDatabases") ELSE Fail(m)
  /\ UNCHANGED <<servers, requests, claims, dbNode, attached>>

\* recreateTransferredDatabase and the start of those that were running.
CreateDatabases(m) ==
  LET r == mover[m] IN
  /\ Stage(m, "createDatabases")
  /\ IF r.databases
     THEN \E outcome \in Outcomes :
            /\ AttachedCall(r.to, r.s, outcome, attached[<<r.to, r.s>>] \cup {"databases"})
            /\ IF outcome = "ok" THEN Enter(m, "power") ELSE Fail(m)
     ELSE Enter(m, "power") /\ UNCHANGED <<faults, attached>>
  /\ UNCHANGED <<servers, container, requests, claims, dbNode>>

RestorePower(m) ==
  LET r == mover[m] IN
  /\ Stage(m, "power")
  /\ IF r.prev = "running"
     THEN \E outcome \in Outcomes :
            /\ StartCall(r.to, r.s, outcome)
            /\ IF outcome = "ok" THEN Enter(m, "databaseRows") ELSE Fail(m)
     ELSE Enter(m, "databaseRows") /\ UNCHANGED agents
  /\ UNCHANGED <<servers, requests, claims, dbNode, attached>>

-----------------------------------------------------------------------------
(* The commit: first the rows of the databases, then the row itself.       *)

MoveDatabaseRows(s, n) ==
  dbNode' = IF dbNode[s] = None THEN dbNode ELSE [dbNode EXCEPT ![s] = n]

FinalizeDatabases(m) ==
  LET r == mover[m] IN
  /\ Stage(m, "databaseRows")
  /\ MoveDatabaseRows(r.s, r.to)
  /\ Enter(m, "commit")
  /\ UNCHANGED <<servers, agents, requests, claims, attached>>

Commit(m) ==
  LET r == mover[m] IN
  /\ Stage(m, "commit")
  /\ \/ /\ FinalizeTransfer(r.s, r.to, r.port, r.prev)
        /\ MoveDatabaseRows(r.s, r.to)
        /\ Enter(m, "cleanDatabases")
     \/ /\ ~HasStatus(r.s, {"transferring"}) \/ PortTaken(r.s, r.to, r.port)
        /\ Enter(m, "databaseRowsBack")
        /\ UNCHANGED <<servers, dbNode>>
  /\ UNCHANGED <<agents, requests, claims, attached>>

\* Seeded fault: nobody brings the rows of the databases back.
RestoreDatabases_Skipped(m) ==
  /\ Stage(m, "databaseRowsBack")
  /\ Fail(m)
  /\ UNCHANGED <<servers, agents, requests, claims, dbNode, attached>>

RestoreDatabases(m) ==
  /\ Stage(m, "databaseRowsBack")
  /\ MoveDatabaseRows(mover[m].s, mover[m].from)
  /\ Fail(m)
  /\ UNCHANGED <<servers, agents, requests, claims, attached>>

-----------------------------------------------------------------------------
(* After the commit: clean the source, best effort.                        *)

CleanDatabases(m) ==
  LET r == mover[m] IN
  /\ Stage(m, "cleanDatabases")
  /\ IF r.databases
     THEN \E outcome \in Outcomes :
            AttachedCall(r.from, r.s, outcome, attached[<<r.from, r.s>>] \ {"databases"})
     ELSE UNCHANGED <<faults, attached>>
  /\ Enter(m, "cleanServer")
  /\ UNCHANGED <<servers, container, requests, claims, dbNode>>

CleanServer(m) ==
  LET r == mover[m] IN
  /\ Stage(m, "cleanServer")
  /\ \E outcome \in Outcomes : AgentCall(r.from, r.s, outcome, "none")
  /\ Enter(m, "cleanBackups")
  /\ UNCHANGED <<servers, requests, claims, dbNode, attached>>

CleanBackups(m) ==
  LET r == mover[m] IN
  /\ Stage(m, "cleanBackups")
  /\ \E outcome \in Outcomes :
       AttachedCall(r.from, r.s, outcome, attached[<<r.from, r.s>>] \ {"backups"})
  /\ EndJob(m)
  /\ UNCHANGED <<servers, container, requests, claims, dbNode>>

-----------------------------------------------------------------------------
(* The catch block: clean the target, best effort, restart the source,     *)
(* give the row back.                                                      *)

RollDatabases(m) ==
  LET r == mover[m] IN
  /\ Stage(m, "rollDatabases")
  /\ \E outcome \in Outcomes :
       AttachedCall(r.to, r.s, outcome, attached[<<r.to, r.s>>] \ {"databases"})
  /\ Enter(m, "rollServer")
  /\ UNCHANGED <<servers, container, requests, claims, dbNode>>

AfterRollServer(m) ==
  IF "backups" \in mover[m].tried THEN "rollBackups" ELSE "restartSource"

\* Seeded fault: imported files stay on the target.
RollServer_Skipped(m) ==
  /\ Stage(m, "rollServer")
  /\ Enter(m, AfterRollServer(m))
  /\ UNCHANGED <<servers, agents, requests, claims, dbNode, attached>>

\* Seeded fault: the roll-back cleans the wrong node.
RollServer_Source(m) ==
  LET r == mover[m] IN
  /\ Stage(m, "rollServer")
  /\ \E outcome \in Outcomes : AgentCall(r.from, r.s, outcome, "none")
  /\ Enter(m, AfterRollServer(m))
  /\ UNCHANGED <<servers, requests, claims, dbNode, attached>>

RollServer(m) ==
  LET r == mover[m] IN
  /\ Stage(m, "rollServer")
  /\ \E outcome \in Outcomes : AgentCall(r.to, r.s, outcome, "none")
  /\ Enter(m, AfterRollServer(m))
  /\ UNCHANGED <<servers, requests, claims, dbNode, attached>>

\* Seeded fault: the same for the backups.
RollBackups_Source(m) ==
  LET r == mover[m] IN
  /\ Stage(m, "rollBackups")
  /\ \E outcome \in Outcomes :
       AttachedCall(r.from, r.s, outcome, attached[<<r.from, r.s>>] \ {"backups"})
  /\ Enter(m, "restartSource")
  /\ UNCHANGED <<servers, container, requests, claims, dbNode>>

RollBackups(m) ==
  LET r == mover[m] IN
  /\ Stage(m, "rollBackups")
  /\ \E outcome \in Outcomes :
       AttachedCall(r.to, r.s, outcome, attached[<<r.to, r.s>>] \ {"backups"})
  /\ Enter(m, "restartSource")
  /\ UNCHANGED <<servers, container, requests, claims, dbNode>>

\* Seeded fault: the source is not restarted.
RestartSource_Skipped(m) ==
  /\ Stage(m, "restartSource")
  /\ Enter(m, "restore")
  /\ UNCHANGED <<servers, agents, requests, claims, dbNode, attached>>

\* restoreSourceRuntime.
RestartSource(m) ==
  LET r == mover[m] IN
  /\ Stage(m, "restartSource")
  /\ IF r.prev = "running"
     THEN \E outcome \in Outcomes : StartCall(r.from, r.s, outcome)
     ELSE UNCHANGED agents
  /\ Enter(m, "restore")
  /\ UNCHANGED <<servers, requests, claims, dbNode, attached>>

RestoreServer(m) ==
  LET r == mover[m] IN
  /\ Stage(m, "restore")
  /\ RestoreTransition(r.s, "transferring", r.prev)
  /\ EndJob(m)
  /\ UNCHANGED <<agents, requests, claims, dbNode, attached>>

-----------------------------------------------------------------------------

\* The replica that runs the job dies.
CrashTransfer(m) ==
  /\ mover[m] # None
  /\ crashes < MaxCrashes
  /\ EndJob(m)
  /\ crashes' = crashes + 1
  /\ stranded' = IF MoverHolds(m, mover[m].s)
                 THEN stranded \cup {mover[m].s} ELSE stranded
  /\ UNCHANGED <<servers, agents, requests, dbNode, attached>>

\* A handler of ServerLifecycle takes a step.  deleteAllForServer deletes
\* the databases where their rows say they are; deleting the row of a server
\* deletes the rows of its databases (ON DELETE CASCADE).
DeleteServerDatabases(p) ==
  LET s == proc[p].s
      here == <<dbNode[s], s>> IN
  /\ DeleteDatabases(p)
  /\ \/ /\ ~At(p, "restore")'
        /\ dbNode' = [dbNode EXCEPT ![s] = None]
        /\ attached' = IF dbNode[s] = None \/ LocalCleanup(proc[p]) THEN attached
                       ELSE [attached EXCEPT ![here] = @ \ {"databases"}]
     \/ /\ At(p, "restore")'
        /\ dbNode' = dbNode
        /\ \/ UNCHANGED attached
           \/ /\ dbNode[s] # None
              /\ attached' = [attached EXCEPT ![here] = @ \ {"databases"}]
  /\ UNCHANGED mover

Handler(p) ==
  \/ DeleteServerDatabases(p)
  \/ /\ ~At(p, "deleteDatabases")
     /\ Arrive(p) \/ Step(p)
     /\ dbNode' = [s \in Servers |-> IF servers'[s] = None THEN None ELSE dbNode[s]]
     /\ UNCHANGED <<mover, attached>>
  \/ Crash(p) /\ UNCHANGED <<mover, dbNode, attached>>

Forward(m) ==
  \/ CheckAccess(m) \/ ChoosePort(m) \/ ClaimTransfer(m) \/ ListDatabases(m)
  \/ TransferServerData(m) \/ TransferDatabaseData(m) \/ TransferBackups(m)
  \/ CreateOnTarget(m) \/ CreateDatabases(m) \/ RestorePower(m)
  \/ FinalizeDatabases(m) \/ Commit(m)
  \/ CleanDatabases(m) \/ CleanServer(m) \/ CleanBackups(m)
Rollback(m) ==
  \/ RestoreDatabases(m) \/ RollDatabases(m) \/ RollServer(m) \/ RollBackups(m)
  \/ RestartSource(m) \/ RestoreServer(m)

\* The servers exist already: some are running, some have databases and
\* backups on the node of their row.
TransferInit ==
  /\ servers \in [Servers -> [node : {ft[1] : ft \in Routes}, port : Ports,
                              status : {"stopped", "running"}, frozen : {FALSE}]]
  /\ UniquePorts
  /\ container = [ns \in Nodes \X Servers |->
       IF servers[ns[2]].node = ns[1] THEN servers[ns[2]].status ELSE "none"]
  /\ \E rich \in SUBSET Servers :
       /\ dbNode = [s \in Servers |-> IF s \in rich THEN servers[s].node ELSE None]
       /\ attached = [ns \in Nodes \X Servers |->
            IF ns[2] \in rich /\ servers[ns[2]].node = ns[1] THEN Attachments ELSE {}]
  /\ proc = [p \in Procs |-> None]
  /\ mover = [m \in Movers |-> None]
  /\ stranded = {} /\ skipped = {} /\ faults = 0 /\ crashes = 0

TransferNext ==
  \/ \E p \in Procs : Handler(p)
  \/ \E m \in Movers :
       \/ \E s \in Servers, from, to \in Nodes : StartTransfer(m, s, from, to)
       \/ Forward(m) \/ Rollback(m) \/ CrashTransfer(m)

TransferSpec == TransferInit /\ [][TransferNext]_allVars

-----------------------------------------------------------------------------
(* Properties. *)

TransferTypeOK ==
  /\ TypeOK
  /\ mover \in [Movers -> Job \cup {None}]
  /\ dbNode \in [Servers -> Nodes \cup {None}]
  /\ attached \in [Nodes \X Servers -> SUBSET Attachments]

\* Between its claim and its commit a transfer works alone: no other
\* transfer and no handler works under a claim of the same server, except a
\* delete, whose claim a transferring row does not refuse.
MoversExclude ==
  \A m \in Movers, s \in Servers : MoverHolds(m, s) =>
    /\ \A k \in Movers \ {m} : ~MoverHolds(k, s)
    /\ \A p \in Procs : Holds(p, s) => proc[p].pc \in DeletingPoints

\* A transferring row has a live transfer, or was left by a crash, or was put
\* back by a delete that failed after the transfer had ended.
TransfersOwned ==
  \A s \in Servers : HasStatus(s, {"transferring"}) =>
    s \in stranded \/ \E m \in Movers : MoverHolds(m, s)

\* A server has one transfer at a time, and a row says `transferring` only while a
\* transfer holds it or has left it behind (claimTransition before executeTransfer,
\* and every way out of that function, against the requests that run meanwhile).
TransfersSound == MoversExclude /\ TransfersOwned

\* While no transfer of it is under way, a server and its databases are on
\* the same node, although two statements move them.
DatabasesFollow ==
  \A s \in Servers : HasStatus(s, Stable) /\ dbNode[s] # None =>
    dbNode[s] = servers[s].node

\* Whatever calls fail and whichever replica dies, the node of the row keeps
\* the server's container: the source is destroyed after the row has moved,
\* and the target only while the row has not.
ServerKept ==
  \A s \in Servers : Exists(s) => container[<<servers[s].node, s>>] # "none"

\* The same for the databases and the local backups.
AttachmentsKept ==
  \A s \in Servers : dbNode[s] # None => Attachments \subseteq attached[<<servers[s].node, s>>]

Busy(s) ==
  \/ InTransfer(s)
  \/ \E p \in Procs : proc[p] # None /\ proc[p].s = s

\* A transfer that has ended, either way, leaves nothing of the server on
\* another node, and a transfer of a server that the registry's delete route
\* removes meanwhile leaves no container at all (executeTransfer, its catch
\* block, deleteServer), if no agent call failed, no replica died, and no egg
\* change worked from a copy that a transfer had outdated.
NothingLeftBehind ==
  \A n \in Nodes, s \in Servers :
    /\ faults = 0 /\ crashes = 0 /\ ~Busy(s) /\ s \notin skipped
    /\ ~(Exists(s) /\ servers[s].node = n)
    => /\ container[<<n, s>>] = "none"
       /\ Exists(s) => attached[<<n, s>>] = {}

\* What executeTransfer reports when it rolls back: "Transfer failed;
\* cleaning the target and restoring the source server".  When the job gives
\* the row back, the server has its container, and runs if it ran before,
\* unless an agent call failed.
RollbackRestoresServer ==
  [][\A m \in Movers, s \in Servers :
       /\ Stage(m, "restore") /\ mover[m].s = s /\ ~Stage(m, "restore")'
       /\ HasStatus(s, {"transferring"}) /\ HasStatus(s, Stable)' /\ faults = 0
       => /\ container[<<servers[s].node, s>>] # "none"
          /\ mover[m].prev = "running" =>
               container[<<servers[s].node, s>>] = "running"]_allVars

=============================================================================
