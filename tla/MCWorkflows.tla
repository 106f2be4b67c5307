----------------------------- MODULE MCWorkflows -----------------------------
(* What must eventually happen, in the services that promise it: handlers   *)
(* of a server, its schedules, provisioning jobs, cron jobs, and the lists  *)
(* that agents are given.                                                   *)
(* They share no variable, so one of them moves in a behaviour ("part") and *)
(* the others stay in their initial states.                                *)
EXTENDS CronJobs, TLC

\* Nodes whose agents are given a list.
Told == {"n2", "n3"}

\* Routes whose claims must end.
Routes == {"registryCreate", "billingProvision", "adminDelete", "changeEgg"}

VARIABLES
  part,
  handlerServers, handlerContainer, handlerProc, handlerStranded, handlerSkipped,
  handlerFaults, handlerCrashes,
  scheduleSchedules, scheduleTimers, scheduleExecutions, scheduleSettled, scheduleSaves,
  scheduleStored, scheduleCreated, scheduleEnded, scheduleEdits, scheduleRestarts,
  jobRun, jobReported, jobBeats, jobCopy, jobCommands, jobStored, jobPublishes, jobInbox,
  jobStream,
  inventoryAgent, inventoryRows, inventoryRequested, inventoryPc, inventoryPending,
  inventoryCall, inventoryBootstrapped, inventoryUnsupported, inventoryInstanceIds,
  inventoryFaults

handlerVars == <<handlerServers, handlerContainer, handlerProc, handlerStranded,
                 handlerSkipped, handlerFaults, handlerCrashes>>
scheduleVars == <<scheduleSchedules, scheduleTimers, scheduleExecutions, scheduleSettled,
                  scheduleSaves, scheduleStored, scheduleCreated, scheduleEnded,
                  scheduleEdits, scheduleRestarts>>
jobVars == <<jobRun, jobReported, jobBeats, jobCopy, jobCommands, jobStored, jobPublishes,
             jobInbox, jobStream>>
inventoryVars == <<inventoryAgent, inventoryRows, inventoryRequested, inventoryPc,
                   inventoryPending, inventoryCall, inventoryBootstrapped,
                   inventoryUnsupported, inventoryInstanceIds, inventoryFaults>>

Lifecycle == INSTANCE ServerLifecycle WITH
  Servers <- {"s1"}, Nodes <- {"n1"}, Ports <- {1}, Procs <- {"p1", "p2"}, MaxFaults <- 1,
  MaxCrashes <- 1, NotifyMayFail <- FALSE, Ops <- Routes,
  servers <- handlerServers, container <- handlerContainer, proc <- handlerProc,
  stranded <- handlerStranded, skipped <- handlerSkipped, faults <- handlerFaults,
  crashes <- handlerCrashes

Schedules == INSTANCE ServerSchedules WITH
  Replicas <- {"r1"}, Ids <- {"i1"}, MaxQueue <- 1, MaxEdits <- 3, MaxRestarts <- 1,
  schedules <- scheduleSchedules, timers <- scheduleTimers,
  executions <- scheduleExecutions, settled <- scheduleSettled, saves <- scheduleSaves,
  stored <- scheduleStored, created <- scheduleCreated, ended <- scheduleEnded,
  edits <- scheduleEdits, restarts <- scheduleRestarts

Provision == INSTANCE ProvisioningJobs WITH
  Replicas <- {"r1", "r2"}, Owner <- "r1", Streams <- {"s1", "s2"}, ReplicaOf <- [s1 |-> "r1", s2 |-> "r2"],
  MaxReports <- 1, MaxBeats <- 1, Crashes <- TRUE,
  run <- jobRun, reported <- jobReported, beats <- jobBeats, copy <- jobCopy,
  commands <- jobCommands, stored <- jobStored, publishes <- jobPublishes,
  inbox <- jobInbox, stream <- jobStream

Inventory == INSTANCE ConsoleInventory WITH
  Nodes <- Told, Silent <- {"n2"}, Old <- {"n3"}, MaxLives <- 2, MaxFaults <- 1,
  agent <- inventoryAgent, rows <- inventoryRows, requested <- inventoryRequested,
  pc <- inventoryPc, pending <- inventoryPending, call <- inventoryCall,
  bootstrapped <- inventoryBootstrapped, unsupported <- inventoryUnsupported,
  instanceIds <- inventoryInstanceIds, faults <- inventoryFaults

ASSUME HandlersFit == Lifecycle!OpsAssumption /\ Lifecycle!BoundsAssumption
ASSUME InventoryFits == Inventory!ConsoleInventoryAssumption
ASSUME JobsFit == Provision!JobsAssumption /\ Provision!NoneAssumption

Parts == {"cron", "lifecycle", "schedules", "jobs", "inventory"}

NoInventory ==
  /\ inventoryAgent = None /\ inventoryRows = None /\ inventoryRequested = None
  /\ inventoryPc = None /\ inventoryPending = None /\ inventoryCall = None
  /\ inventoryBootstrapped = None /\ inventoryUnsupported = None /\ inventoryInstanceIds = None
  /\ inventoryFaults = None

PanelInit ==
  /\ part \in Parts
  /\ Init
  /\ Lifecycle!Init
  /\ Schedules!Init
  /\ Provision!Init
  /\ IF part = "inventory" THEN Inventory!Init ELSE NoInventory

CronRunning ==
  /\ part = "cron" /\ Next
  /\ UNCHANGED <<part, handlerVars, scheduleVars, jobVars, inventoryVars>>
Handlers ==
  /\ part = "lifecycle" /\ Lifecycle!Next
  /\ UNCHANGED <<part, vars, scheduleVars, jobVars, inventoryVars>>
Scheduling ==
  /\ part = "schedules" /\ Schedules!Next
  /\ UNCHANGED <<part, vars, handlerVars, jobVars, inventoryVars>>
Provisioning ==
  /\ part = "jobs" /\ Provision!Next
  /\ UNCHANGED <<part, vars, handlerVars, scheduleVars, inventoryVars>>
Inventorying ==
  /\ part = "inventory" /\ Inventory!Next
  /\ UNCHANGED <<part, vars, handlerVars, scheduleVars, jobVars>>

PanelNext == CronRunning \/ Handlers \/ Scheduling \/ Provisioning \/
             Inventorying
panelVars == <<part, vars, handlerVars, scheduleVars, jobVars, inventoryVars>>

PanelSpec == PanelInit /\ [][PanelNext]_panelVars

\* No part that rests has an action that fairness would call for: each starts
\* with nothing to do until somebody asks.  Nodes are observed unasked, where
\* they are what moves.
Inventory_Fairness ==
  /\ WF_inventoryVars(part = "inventory" /\ (Inventory!Pass \/ Inventory!List))
  /\ \A n \in Told :
       /\ WF_inventoryVars(part = "inventory" /\ Inventory!Observe(n))
       /\ WF_inventoryVars(part = "inventory" /\ (Inventory!Arrive(n) \/ Inventory!Sync(n)))

PanelFairness ==
  /\ \A p \in {"p1", "p2"} : WF_handlerVars(Lifecycle!Step(p))
  /\ Schedules!Fairness /\ Provision!Fairness /\ Fairness
  /\ Inventory_Fairness

FairPanel == PanelSpec /\ PanelFairness

\* A claim ends, or its workflow abandoned it (ServerLifecycle).
ClaimsResolve == Lifecycle!ClaimsResolve

\* An enabled schedule is run again and again (ServerSchedules).
EnabledRuns == Schedules!EnabledRuns

\* A stream that listened before its job ended gets the end, and the stored
\* end is never overwritten (ProvisioningJobs).
EndReached == Provision!EndDelivered /\ Provision!EndSticks

\* An agent that can take it has the list of its servers in the end
\* (ConsoleInventory).
InventoryArrives == \A n \in Told \ {"n2"} : <>[](part = "inventory" => Inventory!Has(n))
==============================================================================
