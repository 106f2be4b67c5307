------------------------ MODULE ServerTransferProofs ------------------------
(***************************************************************************)
(* The saga of ServerTransfer, for every set of servers, nodes, routes and *)
(* jobs, any number of failed calls and crashes, and with the handlers     *)
(* that start, stop, freeze, configure or observe a server beside it.      *)
(*                                                                         *)
(* A job only ever touches its own server, and under Calm no other job     *)
(* has that server.  So the invariant Sound is a conjunction over servers: *)
(* what holds of a server and of the job that moves it (JobKnows, the      *)
(* state of both nodes at each stage; JobLeaves, what the job still has to *)
(* clean).  One lemma per action shows Sound for the server it works on.   *)
(***************************************************************************)
EXTENDS ServerTransfer, ServerLifecycleTypes

RuntimeOps == PowerOps \cup {"freeze", "unfreeze", "settings", "observe"}

\* One transfer per server at a time, and beside it only handlers that
\* neither create nor delete a container.
Calm == SerialTransfers = TRUE /\ Ops \subseteq RuntimeOps

-----------------------------------------------------------------------------
(* Types.                                                                  *)

RuntimePoints ==
  {"reconcile", "settingsWrite", "freezeFlag", "freezeStatus", "freezeStop",
   "unfreezeFlag", "unfreezeStatus", "power", "powerStatus"} \cup ObservePoints

FreezePoints == {"freezeFlag", "freezeStatus", "freezeStop"}

HandlerOK(r) ==
  /\ r.op \in Ops /\ r.pc \in RuntimePoints
  /\ r.pc \in ObservePoints => r.prev \in Stable
  /\ r.pc \notin ObservePoints => r.snap \in Row
  /\ r.pc \in FreezePoints => r.op = "freeze"

HandlersOK ==
  /\ proc \in [Procs -> Request \cup {None}]
  /\ \A p \in Procs : proc[p] # None => HandlerOK(proc[p])

JobsOK ==
  /\ mover \in [Movers -> Job \cup {None}]
  /\ dbNode \in [Servers -> Nodes \cup {None}]
  /\ attached \in [Nodes \X Servers -> SUBSET Attachments]

SagaTypes ==
  /\ servers \in [Servers -> Row]
  /\ AgentsOK /\ HistoryOK /\ HandlersOK /\ JobsOK

LEMMA SagaTypesImplyTypeOK == SagaTypes => TransferTypeOK
BY DEF SagaTypes, TransferTypeOK, TypeOK, RegistryTypeOK, AgentsOK, HistoryOK, HandlersOK,
   JobsOK

LEMMA AllExist ==
  ASSUME SagaTypes, NEW s \in Servers
  PROVE  Exists(s) /\ servers[s] \in Row /\ servers[s].node \in Nodes
BY NoneAssumption DEF SagaTypes, Exists, Row

-----------------------------------------------------------------------------
(* What the handlers do beside a transfer.                                 *)

\* A handler writes statuses of open rows and starts or stops containers.
KeepsRows ==
  /\ servers' \in [Servers -> Row]
  /\ \A s \in Servers :
       /\ servers'[s].node = servers[s].node /\ servers'[s].port = servers[s].port
       /\ Lock(s)' = Lock(s)

KeepsContainers ==
  /\ AgentsOK'
  /\ faults \in Nat /\ faults' \in Nat /\ faults <= faults'
  /\ \A n \in Nodes, s \in Servers :
       container'[<<n, s>>] = "none" <=> container[<<n, s>>] = "none"

Beside(p) ==
  /\ KeepsRows /\ KeepsContainers
  /\ HandlersOK' /\ HistoryOK'
  /\ crashes \in Nat /\ crashes' \in Nat /\ crashes <= crashes'
  /\ UNCHANGED <<mover, dbNode, attached>>

LEMMA WriteKeepsRows ==
  ASSUME servers \in [Servers -> Row], NEW s \in Servers,
         \/ \E status \in Stable : SetStatus(s, status)
         \/ \E frozen \in BOOLEAN : UpdateVariables(s, frozen) \/ AssignPortAllocations(s, frozen)
         \/ UNCHANGED servers
  PROVE  KeepsRows
<1>1. RegistryTypeOK /\ \A t \in Servers : servers[t] # None
  BY NoneAssumption DEF RegistryTypeOK
<1>2. RegistryTypeOK' /\ SameLocks
  BY <1>1, SetStatusLocks, UpdateVariablesLocks, SameTable
<1>3. servers' \in [Servers -> Row]
  BY <1>1 DEF SetStatus, UpdateVariables, AssignPortAllocations, Row, HasStatus, Exists, Statuses
<1>4. \A t \in Servers : StaysPut(t)
  BY <1>1, RowWriteStays DEF StaysPut, Exists, Statuses
<1>5. \A t \in Servers : Exists(t)'
  BY <1>3, NoneAssumption DEF Exists
<1>. QED BY <1>2, <1>3, <1>4, <1>5 DEF KeepsRows, SameLocks, StaysPut

LEMMA PowerKeepsContainers ==
  ASSUME AgentsOK, NEW r \in Request, r.snap \in Row, NEW outcome \in Outcomes,
         NEW state \in {"stopped", "running"}, AgentPower(r, outcome, state)
  PROVE  KeepsContainers
<1>1. AgentsOK' /\ \A ns \in Nodes \X Servers : container'[ns] = "none" <=> container[ns] = "none"
  BY AgentPowerOK
<1>2. faults \in Nat /\ faults' \in Nat /\ faults <= faults'
  BY BoundsAssumption DEF AgentsOK, AgentPower, AgentCall, agents
<1>3. ASSUME NEW n \in Nodes, NEW s \in Servers
      PROVE  container'[<<n, s>>] = "none" <=> container[<<n, s>>] = "none"
  <2>1. <<n, s>> \in Nodes \X Servers
    OBVIOUS
  <2>. QED BY <1>1, <2>1
<1>. QED BY <1>1, <1>2, <1>3 DEF KeepsContainers

LEMMA SameAgents ==
  ASSUME AgentsOK, UNCHANGED <<container, faults>>
  PROVE  KeepsContainers
BY BoundsAssumption DEF KeepsContainers, AgentsOK

LEMMA HandlerOver ==
  ASSUME HandlersOK, NEW p \in Procs, proc[p] # None,
         \/ Done(p)
         \/ \E point \in RuntimePoints :
              /\ Goto(p, point)
              /\ point \in ObservePoints <=> proc[p].pc \in ObservePoints
              /\ point \in FreezePoints => proc[p].pc \in FreezePoints
  PROVE  HandlersOK'
<1>1. CASE Done(p)
  BY <1>1 DEF Done, HandlersOK, HandlerOK
<1>2. ASSUME NEW point \in RuntimePoints, Goto(p, point),
             point \in ObservePoints <=> proc[p].pc \in ObservePoints,
             point \in FreezePoints => proc[p].pc \in FreezePoints
      PROVE  HandlersOK'
  <2>1. PICK r \in Request :
          /\ proc' = [proc EXCEPT ![p] = r] /\ r.pc = point /\ r.op = proc[p].op
          /\ r.snap = proc[p].snap /\ r.prev = proc[p].prev
    <3>1. point \in Points
      BY DEF RuntimePoints, ObservePoints, Points, OtherPoints
    <3>2. [proc[p] EXCEPT !.pc = point] \in Request
      BY <3>1 DEF HandlersOK, Request
    <3>3. /\ [proc[p] EXCEPT !.pc = point].pc = point
          /\ [proc[p] EXCEPT !.pc = point].op = proc[p].op
          /\ [proc[p] EXCEPT !.pc = point].snap = proc[p].snap
          /\ [proc[p] EXCEPT !.pc = point].prev = proc[p].prev
      BY DEF HandlersOK, Request
    <3>. QED BY <1>2, <3>2, <3>3 DEF Goto
  <2>2. HandlerOK(r)
    BY <1>2, <2>1 DEF HandlersOK, HandlerOK
  <2>. QED BY <2>1, <2>2, IdleAssumption DEF HandlersOK
<1>. QED BY <1>1, <1>2

LEMMA HandlerBegins ==
  ASSUME HandlersOK, NEW p \in Procs, NEW r \in Request, HandlerOK(r), Begin(p, r)
  PROVE  HandlersOK'
BY IdleAssumption DEF HandlersOK, Begin

\* A request that starts from the row it reads, for a server that exists.
LEMMA ReadBegins ==
  ASSUME SagaTypes, NEW p \in Procs, NEW s \in Servers, NEW op, NEW point \in RuntimePoints \ ObservePoints,
         point \in FreezePoints => op = "freeze",
         Begin(p, [op |-> op, pc |-> point, s |-> s, snap |-> servers[s], prev |-> "none"])
  PROVE  HandlersOK'
<1>. DEFINE r == [op |-> op, pc |-> point, s |-> s, snap |-> servers[s], prev |-> "none"]
<1>1. r \in Request
  BY AllExist, OpsAssumption DEF Begin, Request, Points, OtherPoints, RuntimePoints, ObservePoints
<1>2. HandlerOK(r)
  BY AllExist DEF Begin, HandlerOK
<1>. QED BY <1>1, <1>2, HandlerBegins DEF SagaTypes

LEMMA ArriveBeside ==
  ASSUME SagaTypes, Ops \subseteq RuntimeOps, NEW p \in Procs, Arrive(p)
  PROVE  HandlersOK' /\ UNCHANGED <<servers, agents, history>>
<1>. USE DEF Begin, RuntimeOps, PowerOps
<1>1. ASSUME NEW s \in Servers, SettingsRead(p, s)
      PROVE  HandlersOK'
  <2>1. PICK point \in {"reconcile", "settingsWrite"} :
          Begin(p, [op |-> "settings", pc |-> point, s |-> s, snap |-> servers[s], prev |-> "none"])
    BY <1>1 DEF SettingsRead
  <2>. QED BY <2>1, ReadBegins DEF RuntimePoints, ObservePoints, FreezePoints
<1>2. ASSUME NEW s \in Servers, (\E billing \in BOOLEAN : FreezeRead(p, s, billing))
                              \/ UnfreezeRead(p, s) \/ \E op \in PowerOps : PowerRead(p, s, op)
      PROVE  HandlersOK'
  BY <1>2, ReadBegins DEF FreezeRead, UnfreezeRead, PowerRead, RuntimePoints, ObservePoints, FreezePoints
<1>3. ASSUME NEW s \in Servers, NEW n \in Nodes, ObservePoll(p, s, n)
      PROVE  HandlersOK'
  <2>. DEFINE r == [op |-> "observe", pc |-> "observeRead", s |-> s, snap |-> None,
                    prev |-> Observed(container[<<n, s>>])]
  <2>1. r \in Request
    BY DEF Request, AllOps, Points, OtherPoints, Observed, Statuses, Stable
  <2>2. HandlerOK(r)
    BY <1>3 DEF ObservePoll, HandlerOK, RuntimePoints, ObservePoints, FreezePoints, Observed, Stable
  <2>. QED BY <1>3, <2>1, <2>2, HandlerBegins DEF ObservePoll, SagaTypes
<1>4. PICK s \in Servers : \/ SettingsRead(p, s)
                           \/ \E billing \in BOOLEAN : FreezeRead(p, s, billing)
                           \/ UnfreezeRead(p, s) \/ \E op \in PowerOps : PowerRead(p, s, op)
                           \/ \E n \in Nodes : ObservePoll(p, s, n)
  BY DEF Arrive, Reserve, DeleteRead, ClaimRemove, EggRead, CreateOps, AdminDeleteOps, RemoveOps
<1>5. UNCHANGED <<servers, agents, history>>
  BY <1>4 DEF SettingsRead, FreezeRead, UnfreezeRead, PowerRead, ObservePoll
<1>. QED BY <1>1, <1>2, <1>3, <1>4, <1>5

LEMMA StepBeside ==
  ASSUME SagaTypes, NEW p \in Procs, Step(p)
  PROVE  HandlersOK' /\ KeepsRows /\ KeepsContainers /\ UNCHANGED history
<1>. USE DEF SagaTypes
<1>0. /\ proc[p] # None /\ proc[p] \in Request /\ HandlerOK(proc[p])
      /\ proc[p].s \in Servers /\ proc[p].pc \in RuntimePoints
  <2>1. proc[p] # None
    BY DEF Step, CreateStep, DeleteStep, EggStep, WriteStep, RuntimeStep, AssignPorts, ResolveEgg,
       CreateContainer, RecordRead, Finalize, RecordUpsert, Notify, Cleanup, Release, ClaimDelete,
       DeleteDatabases, DeleteContainer, RemoveRow, RestoreRow, EggClaim, EggDelete, EggRestore,
       EggCreate, EggUpsert, ReconcilePorts, SettingsWrite, WriteFlag, FreezeStatus,
       UnfreezeStatus, FreezeStop, PowerAgent, PowerStatus, ObserveRead, ObserveWrite, At
  <2>. QED BY <2>1 DEF HandlersOK, HandlerOK, Request
<1>1. WriteStep(p) \/ RuntimeStep(p)
  BY <1>0 DEF Step, CreateStep, DeleteStep, EggStep, AssignPorts, ResolveEgg,
     CreateContainer, RecordRead, Finalize, RecordUpsert, Notify, Cleanup, Release, ClaimDelete,
     DeleteDatabases, DeleteContainer, RemoveRow, RestoreRow, EggClaim, EggDelete, EggRestore,
     EggCreate, EggUpsert, At, RuntimePoints, ObservePoints
<1>2. HandlersOK'
  <2>1. \/ Done(p)
        \/ \E point \in RuntimePoints :
             /\ Goto(p, point) /\ (point \in ObservePoints <=> proc[p].pc \in ObservePoints)
             /\ point \in FreezePoints => proc[p].pc \in FreezePoints
    BY <1>1 DEF WriteStep, RuntimeStep, ReconcilePorts, SettingsWrite, WriteFlag, FreezeStatus,
       UnfreezeStatus, FreezeStop, PowerAgent, PowerStatus, ObserveRead, ObserveWrite, At,
       RuntimePoints, ObservePoints, FreezePoints
  <2>. QED BY <1>0, <2>1, HandlerOver
<1>3. KeepsRows
  <2>1. At(p, "reconcile") \/ At(p, "settingsWrite") => proc[p].snap.frozen \in BOOLEAN
    BY <1>0 DEF At, HandlerOK, ObservePoints, Row
  <2>2. CASE ReconcilePorts(p) \/ SettingsWrite(p)
    BY <1>0, <2>1, <2>2, WriteKeepsRows DEF ReconcilePorts, SettingsWrite
  <2>3. CASE WriteFlag(p)
    BY <1>0, <2>3, WriteKeepsRows DEF WriteFlag, At
  <2>4. CASE FreezeStatus(p) \/ UnfreezeStatus(p)
    BY <1>0, <2>4, WriteKeepsRows DEF FreezeStatus, UnfreezeStatus, Stable
  <2>5. CASE PowerStatus(p)
    BY <1>0, <2>5, WriteKeepsRows DEF PowerStatus, PowerState, Stable
  <2>6. CASE ObserveWrite(p)
    BY <1>0, <2>6, WriteKeepsRows DEF ObserveWrite, At, HandlerOK, ObservePoints
  <2>7. CASE UNCHANGED servers
    BY <1>0, <2>7, WriteKeepsRows
  <2>. QED BY <1>1, <2>2, <2>3, <2>4, <2>5, <2>6, <2>7
         DEF WriteStep, RuntimeStep, FreezeStop, PowerAgent, ObserveRead
<1>4. KeepsContainers
  <2>1. CASE FreezeStop(p)
    <3>1. proc[p].snap \in Row
      BY <1>0, <2>1 DEF FreezeStop, At, HandlerOK, ObservePoints
    <3>. QED BY <1>0, <2>1, <3>1, PowerKeepsContainers DEF FreezeStop
  <2>2. CASE PowerAgent(p)
    <3>1. proc[p].snap \in Row
      BY <1>0, <2>2 DEF PowerAgent, At, HandlerOK, ObservePoints
    <3>. QED BY <1>0, <2>2, <3>1, PowerKeepsContainers DEF PowerAgent, PowerState
  <2>3. CASE UNCHANGED agents
    BY <2>3, SameAgents DEF agents
  <2>. QED BY <1>1, <2>1, <2>2, <2>3 DEF WriteStep, RuntimeStep, ReconcilePorts, SettingsWrite,
         WriteFlag, FreezeStatus, UnfreezeStatus, PowerStatus, ObserveRead, ObserveWrite
<1>5. UNCHANGED history
  BY <1>1 DEF WriteStep, RuntimeStep, ReconcilePorts, SettingsWrite, WriteFlag, FreezeStatus,
     UnfreezeStatus, FreezeStop, PowerAgent, PowerStatus, ObserveRead, ObserveWrite
<1>. QED BY <1>2, <1>3, <1>4, <1>5

LEMMA HandlerBeside ==
  ASSUME SagaTypes, Calm, NEW p \in Procs, Handler(p)
  PROVE  Beside(p)
<1>. USE DEF SagaTypes
<1>0. crashes \in Nat /\ (UNCHANGED history => HistoryOK' /\ crashes' = crashes)
  BY BoundsAssumption DEF HistoryOK, history
<1>1. UNCHANGED servers => KeepsRows
  BY WriteKeepsRows DEF KeepsRows, Lock, HasStatus, Exists
<1>2. ~DeleteServerDatabases(p)
  BY DEF DeleteServerDatabases, DeleteDatabases, At, HandlersOK, HandlerOK, RuntimePoints,
     ObservePoints
<1>3. CASE /\ Arrive(p) \/ Step(p)
           /\ dbNode' = [s \in Servers |-> IF servers'[s] = None THEN None ELSE dbNode[s]]
           /\ UNCHANGED <<mover, attached>>
  <2>1. HandlersOK' /\ KeepsRows /\ KeepsContainers /\ UNCHANGED history
    BY <1>1, <1>3, ArriveBeside, StepBeside, SameAgents DEF Calm, agents
  <2>2. dbNode' = dbNode
    BY <1>3, <2>1, NoneAssumption DEF KeepsRows, JobsOK
  <2>. QED BY <1>0, <1>3, <2>1, <2>2 DEF Beside
<1>4. CASE Crash(p) /\ UNCHANGED <<mover, dbNode, attached>>
  <2>1. HandlersOK'
    BY <1>4, HandlerOver DEF Crash
  <2>2. HistoryOK' /\ crashes' = crashes + 1
    <3>1. proc[p].s \in Servers
      BY <1>4 DEF Crash, HandlersOK, Request
    <3>. QED BY <1>4, <3>1, BoundsAssumption DEF Crash, HistoryOK
  <2>. QED BY <1>0, <1>1, <1>4, <2>1, <2>2, SameAgents DEF Crash, agents, Beside
<1>. QED BY <1>2, <1>3, <1>4 DEF Handler

-----------------------------------------------------------------------------
(* The invariant.                                                          *)

PriorStages == {"access", "port", "claim"}
BuiltStages == {"createDatabases", "power", "databaseRows", "commit"}
CleanStages == {"cleanDatabases", "cleanServer", "cleanBackups"}

Serial ==
  \A m, k \in Movers :
    mover[m] # None /\ mover[k] # None /\ mover[m].s = mover[k].s => m = k

Unharmed == faults = 0 /\ crashes = 0

Bare(n, s) == container[<<n, s>>] = "none" /\ attached[<<n, s>>] = {}

\* A server, whether it is being moved or not.
RowKept(s) ==
  /\ container[<<servers[s].node, s>>] # "none"
  /\ dbNode[s] # None => Attachments \subseteq attached[<<servers[s].node, s>>]
  /\ dbNode[s] = None => \A n \in Nodes : attached[<<n, s>>] = {}
  /\ Lock(s) = "none" /\ dbNode[s] # None => dbNode[s] = servers[s].node

RowSound(s) ==
  /\ RowKept(s)
  /\ Unharmed /\ ~InTransfer(s) => \A n \in Nodes \ {servers[s].node} : Bare(n, s)

\* What job r finds on both nodes and in the table at each stage.
JobKnows(r) ==
  LET there == <<r.to, r.s>> IN
  /\ r.from # r.to
  /\ servers[r.s].node = IF r.stage \in CleanStages THEN r.to ELSE r.from
  /\ r.stage \in ClaimedStages => Lock(r.s) = "transferring" /\ r.prev \in Stable
  /\ r.stage \in ClaimedStages \cup {"claim"} => r.port \in Ports
  /\ r.stage \notin PriorStages \cup {"list"} => (r.databases <=> dbNode[r.s] # None)
  /\ r.stage \in ClaimedStages \ {"commit", "databaseRowsBack"} => dbNode[r.s] \in {None, r.from}
  /\ r.stage \in BuiltStages => container[there] # "none"
  /\ r.stage \in BuiltStages \cup {"create"} /\ r.databases => "backups" \in attached[there]
  /\ r.stage \in BuiltStages \ {"createDatabases"} /\ r.databases => "databases" \in attached[there]

\* What job r has left to clean while nothing has failed.
JobLeaves(r) ==
  LET here == <<r.from, r.s>>
      there == <<r.to, r.s>> IN
  Unharmed =>
    /\ \A n \in Nodes \ {r.from, r.to} : Bare(n, r.s)
    /\ r.stage \in PriorStages \cup {"list", "serverData"} => Bare(r.to, r.s)
    /\ r.stage \in ClaimedStages => attached[there] \subseteq r.tried
    /\ r.stage \in {"backups", "create", "createDatabases"} /\ r.databases => "databases" \in r.tried
    /\ r.stage \in {"rollServer", "rollBackups"} => "databases" \notin attached[there]
    /\ r.stage \in {"rollBackups", "restartSource", "restore"} => container[there] = "none"
    /\ r.stage \in {"restartSource", "restore"} => attached[there] = {}
    /\ r.stage \in {"cleanServer", "cleanBackups"} => "databases" \notin attached[here]
    /\ r.stage = "cleanBackups" => container[here] = "none"

JobSound(m) == mover[m] # None => JobKnows(mover[m]) /\ JobLeaves(mover[m])

Sound == Serial /\ (\A s \in Servers : RowSound(s)) /\ (\A m \in Movers : JobSound(m))

-----------------------------------------------------------------------------
(* Steps and the servers they do not name.                                 *)

Grows == faults <= faults' /\ crashes <= crashes'

LEMMA Counters == SagaTypes => faults \in Nat /\ crashes \in Nat
BY BoundsAssumption DEF SagaTypes, AgentsOK, HistoryOK

\* A handler beside a transfer does not disturb it.
LEMMA BesideKeepsSound ==
  ASSUME SagaTypes, Sound, NEW p \in Procs, Beside(p)
  PROVE  SagaTypes' /\ Sound'
<1>1. SagaTypes'
  BY DEF SagaTypes, Beside, KeepsRows, KeepsContainers, JobsOK
<1>2. Unharmed' => Unharmed
  BY DEF Unharmed, Beside, KeepsContainers
<1>3. /\ UNCHANGED <<mover, dbNode, attached>>
      /\ \A s \in Servers : servers'[s].node = servers[s].node /\ Lock(s)' = Lock(s)
      /\ \A n \in Nodes, s \in Servers : container'[<<n, s>>] = "none" <=> container[<<n, s>>] = "none"
  BY DEF Beside, KeepsRows, KeepsContainers
<1>4. \A n \in Nodes, s \in Servers : Bare(n, s)' <=> Bare(n, s)
  BY <1>3 DEF Bare
<1>5. ASSUME NEW s \in Servers
      PROVE  RowSound(s)'
  <2>1. servers[s].node \in Nodes
    BY AllExist
  <2>2. InTransfer(s)' <=> InTransfer(s)
    BY <1>3 DEF InTransfer
  <2>. QED BY <1>2, <1>3, <1>4, <2>1, <2>2 DEF Sound, RowSound, RowKept
<1>6. ASSUME NEW r \in Job, JobKnows(r), JobLeaves(r)
      PROVE  JobKnows(r)' /\ JobLeaves(r)'
  <2>1. r.s \in Servers /\ r.from \in Nodes /\ r.to \in Nodes
    BY DEF Job
  <2>2. JobKnows(r)'
    BY <1>3, <1>6, <2>1 DEF JobKnows
  <2>3. JobLeaves(r)'
    BY <1>2, <1>3, <1>4, <1>6, <2>1 DEF JobLeaves
  <2>. QED BY <2>2, <2>3
<1>7. ASSUME NEW m \in Movers
      PROVE  JobSound(m)'
  BY <1>3, <1>6 DEF SagaTypes, JobsOK, Sound, JobSound
<1>8. Serial'
  BY <1>3 DEF Sound, Serial
<1>. QED BY <1>1, <1>5, <1>7, <1>8 DEF Sound

\* Nothing of any server but s changes.
Spares(s) ==
  \A t \in Servers \ {s} :
    /\ servers'[t] = servers[t] /\ dbNode'[t] = dbNode[t]
    /\ \A n \in Nodes : /\ container'[<<n, t>>] = container[<<n, t>>]
                        /\ attached'[<<n, t>>] = attached[<<n, t>>]

\* A step of job m for server s, seen from the other servers and jobs.
Only(m, s) ==
  /\ \A k \in Movers \ {m} : mover'[k] = mover[k] /\ (mover[k] # None => mover[k].s # s)
  /\ mover[m] # None => mover[m].s = s
  /\ mover'[m] # None => mover'[m].s = s
  /\ Spares(s)

Advances(m) ==
  \E s \in Servers : Only(m, s) /\ Grows /\ RowSound(s)' /\ JobSound(m)'

LEMMA AdvancesKeepsSound ==
  ASSUME SagaTypes, SagaTypes', Sound, NEW m \in Movers, Advances(m)
  PROVE  Sound'
<1>1. PICK s \in Servers : Only(m, s) /\ Grows /\ RowSound(s)' /\ JobSound(m)'
  BY DEF Advances
<1>2. Unharmed' => Unharmed
  BY <1>1, Counters DEF Unharmed, Grows
<1>3. ASSUME NEW t \in Servers \ {s}
      PROVE  /\ servers'[t] = servers[t] /\ dbNode'[t] = dbNode[t] /\ Lock(t)' = Lock(t)
             /\ \A n \in Nodes : /\ container'[<<n, t>>] = container[<<n, t>>]
                                 /\ attached'[<<n, t>>] = attached[<<n, t>>]
                                 /\ Bare(n, t)' <=> Bare(n, t)
  BY <1>1 DEF Only, Spares, Lock, HasStatus, Exists, Bare
<1>4. ASSUME NEW t \in Servers \ {s}
      PROVE  RowSound(t)'
  <2>1. servers[t].node \in Nodes
    BY AllExist
  <2>2. InTransfer(t)' <=> InTransfer(t)
    BY <1>1 DEF InTransfer, Only
  <2>3. RowSound(t)
    BY DEF Sound
  <2>4. \A n \in Nodes : Bare(n, t)' <=> Bare(n, t)
    BY <1>3
  <2>5. /\ servers'[t].node = servers[t].node /\ dbNode'[t] = dbNode[t] /\ Lock(t)' = Lock(t)
        /\ \A n \in Nodes : container'[<<n, t>>] = container[<<n, t>>]
        /\ \A n \in Nodes : attached'[<<n, t>>] = attached[<<n, t>>]
    BY <1>3
  <2>. QED BY <1>2, <2>1, <2>2, <2>3, <2>4, <2>5 DEF RowSound, RowKept
<1>5. ASSUME NEW r \in Job, JobKnows(r), JobLeaves(r), r.s # s
      PROVE  JobKnows(r)' /\ JobLeaves(r)'
  <2>1. PICK t \in Servers \ {s}, f \in Nodes, g \in Nodes : t = r.s /\ f = r.from /\ g = r.to
    BY <1>5 DEF Job
  <2>2. JobKnows(r)'
    BY <1>3, <1>5, <2>1 DEF JobKnows
  <2>3. JobLeaves(r)'
    <3>1. \A n \in Nodes : Bare(n, t)' <=> Bare(n, t)
      BY <1>3
    <3>2. /\ container'[<<f, t>>] = container[<<f, t>>] /\ container'[<<g, t>>] = container[<<g, t>>]
          /\ attached'[<<f, t>>] = attached[<<f, t>>] /\ attached'[<<g, t>>] = attached[<<g, t>>]
      BY <1>3
    <3>. QED BY <1>2, <1>5, <2>1, <3>1, <3>2 DEF JobLeaves
  <2>. QED BY <2>2, <2>3
<1>6. Serial'
  BY <1>1 DEF Sound, Serial, Only
<1>7. ASSUME NEW k \in Movers
      PROVE  JobSound(k)'
  BY <1>1, <1>5 DEF Sound, SagaTypes, JobsOK, JobSound, Only
<1>. QED BY <1>1, <1>4, <1>6, <1>7 DEF Sound

-----------------------------------------------------------------------------
(* What the pieces of an action do.                                        *)

Stages == ClaimedStages \cup OtherStages

\* Job m is r, which moves server s from f to t.
Moves(m, r, s, f, t) ==
  /\ SagaTypes /\ Sound
  /\ mover[m] = r /\ r.s = s /\ r.from = f /\ r.to = t

LEMMA MovesFacts ==
  ASSUME NEW m \in Movers, NEW r \in Job, NEW s \in Servers, NEW f \in Nodes, NEW t \in Nodes,
         Moves(m, r, s, f, t)
  PROVE  /\ JobKnows(r) /\ JobLeaves(r) /\ RowSound(s) /\ f # t /\ mover[m] # None
         /\ \A k \in Movers \ {m} : mover[k] # None => mover[k].s # s
<1>1. mover[m] # None
  BY NoJobAssumption DEF Moves
<1>. QED BY <1>1 DEF Moves, Sound, JobSound, JobKnows, Serial

LEMMA JobMoves ==
  ASSUME SagaTypes, Sound, NEW m \in Movers, mover[m] # None
  PROVE  \E r \in Job, s \in Servers, f \in Nodes, t \in Nodes : Moves(m, r, s, f, t)
<1>1. mover[m] \in Job
  BY DEF SagaTypes, JobsOK
<1>2. mover[m].s \in Servers /\ mover[m].from \in Nodes /\ mover[m].to \in Nodes
  BY <1>1 DEF Job
<1>. QED BY <1>1, <1>2 DEF Moves

\* The same transfer at another stage.
SameJob(q, r) ==
  /\ q.s = r.s /\ q.from = r.from /\ q.to = r.to /\ q.port = r.port
  /\ q.prev = r.prev /\ q.databases = r.databases /\ q.tried = r.tried

LEMMA Entered ==
  ASSUME NEW m \in Movers, NEW r \in Job, mover[m] = r, NEW stage \in Stages, Enter(m, stage)
  PROVE  \E q \in Job : /\ mover' = [mover EXCEPT ![m] = q]
                        /\ q.stage = stage /\ SameJob(q, r)
<1>. DEFINE q == [r EXCEPT !.stage = stage]
<1>1. q \in Job /\ q.stage = stage /\ SameJob(q, r)
  BY DEF Job, Stages, SameJob
<1>2. mover' = [mover EXCEPT ![m] = q]
  BY DEF Enter
<1>. QED BY <1>1, <1>2

\* What every step of a job of server s leaves in order.
Work(s) ==
  /\ servers' \in [Servers -> Row] /\ AgentsOK'
  /\ dbNode' \in [Servers -> Nodes \cup {None}]
  /\ attached' \in [Nodes \X Servers -> SUBSET Attachments]
  /\ faults <= faults' /\ UNCHANGED <<requests, claims>>
  /\ Spares(s) /\ RowKept(s)'

LEMMA WorkKeepsTypes ==
  ASSUME SagaTypes, NEW s \in Servers, Work(s), mover' \in [Movers -> Job \cup {None}]
  PROVE  SagaTypes' /\ Grows
BY Counters DEF SagaTypes, JobsOK, HandlersOK, HandlerOK, HistoryOK, requests, claims, Work, Grows

\* A job that goes on.
LEMMA GoesOn ==
  ASSUME NEW m \in Movers, NEW r \in Job, NEW s \in Servers, NEW f \in Nodes, NEW t \in Nodes,
         Moves(m, r, s, f, t), NEW q \in Job, mover' = [mover EXCEPT ![m] = q], q.s = s,
         Work(s), JobKnows(q)', JobLeaves(q)'
  PROVE  SagaTypes' /\ Advances(m)
<1>1. /\ mover' \in [Movers -> Job \cup {None}] /\ mover'[m] = q /\ q # None
      /\ \A k \in Movers \ {m} : mover'[k] = mover[k]
  BY NoJobAssumption DEF Moves, SagaTypes, JobsOK
<1>2. SagaTypes' /\ Grows
  BY <1>1, WorkKeepsTypes DEF Moves
<1>3. Only(m, s)
  BY <1>1, MovesFacts DEF Moves, Only, Work
<1>4. RowSound(s)' /\ JobSound(m)'
  BY <1>1 DEF RowSound, InTransfer, Work, JobSound
<1>. QED BY <1>2, <1>3, <1>4 DEF Advances

\* A job that ends.
LEMMA GoesOff ==
  ASSUME NEW m \in Movers, NEW r \in Job, NEW s \in Servers, NEW f \in Nodes, NEW t \in Nodes,
         Moves(m, r, s, f, t), EndJob(m), Work(s),
         Unharmed' => \A n \in Nodes \ {servers'[s].node} : Bare(n, s)'
  PROVE  SagaTypes' /\ Advances(m)
<1>1. /\ mover' \in [Movers -> Job \cup {None}] /\ mover'[m] = None
      /\ \A k \in Movers \ {m} : mover'[k] = mover[k]
  BY DEF Moves, SagaTypes, JobsOK, EndJob
<1>2. SagaTypes' /\ Grows
  BY <1>1, WorkKeepsTypes DEF Moves
<1>3. Only(m, s)
  BY <1>1, MovesFacts DEF Moves, Only, Work
<1>4. RowSound(s)' /\ JobSound(m)'
  BY <1>1 DEF RowSound, Work, JobSound
<1>. QED BY <1>2, <1>3, <1>4 DEF Advances

\* What a call for server s on node n leaves alone.
ContainerDone(n, s) ==
  /\ AgentsOK' /\ faults <= faults'
  /\ \A k \in Nodes, u \in Servers : u # s \/ k # n => container'[<<k, u>>] = container[<<k, u>>]

AttachedDone(n, s) ==
  /\ AgentsOK' /\ faults <= faults'
  /\ attached' \in [Nodes \X Servers -> SUBSET Attachments]
  /\ \A k \in Nodes, u \in Servers : u # s \/ k # n => attached'[<<k, u>>] = attached[<<k, u>>]

LEMMA CallEffect ==
  ASSUME SagaTypes, NEW n \in Nodes, NEW s \in Servers, NEW outcome \in Outcomes,
         NEW state \in ContainerStates, AgentCall(n, s, outcome, state)
  PROVE  /\ ContainerDone(n, s) /\ (outcome # "ok" => faults' # 0)
         /\ container'[<<n, s>>] \in {container[<<n, s>>], state}
         /\ outcome = "ok" => container'[<<n, s>>] = state
<1>1. AgentsOK'
  BY AgentCallOK DEF SagaTypes
<1>2. faults <= faults' /\ (outcome # "ok" => faults' # 0)
  BY Counters DEF AgentCall
<1>3. CASE container' = container /\ outcome \notin {"ok", "lost"}
  BY <1>1, <1>2, <1>3 DEF ContainerDone
<1>4. CASE container' = [container EXCEPT ![<<n, s>>] = state]
  BY <1>1, <1>2, <1>4 DEF SagaTypes, AgentsOK, ContainerDone
<1>. QED BY <1>3, <1>4 DEF AgentCall

LEMMA AttachedEffect ==
  ASSUME SagaTypes, NEW n \in Nodes, NEW s \in Servers, NEW outcome \in Outcomes,
         NEW items \in SUBSET Attachments, AttachedCall(n, s, outcome, items), container' = container
  PROVE  /\ AttachedDone(n, s) /\ (outcome # "ok" => faults' # 0)
         /\ attached'[<<n, s>>] \in {attached[<<n, s>>], items}
         /\ outcome = "ok" => attached'[<<n, s>>] = items
<1>1. AgentsOK'
  BY BoundsAssumption DEF SagaTypes, AgentsOK, AttachedCall
<1>2. faults <= faults' /\ (outcome # "ok" => faults' # 0)
  BY Counters DEF AttachedCall
<1>3. CASE attached' = attached /\ outcome \notin {"ok", "lost"}
  BY <1>1, <1>2, <1>3 DEF SagaTypes, JobsOK, AttachedDone
<1>4. CASE attached' = [attached EXCEPT ![<<n, s>>] = items]
  BY <1>1, <1>2, <1>4 DEF SagaTypes, JobsOK, AttachedDone
<1>. QED BY <1>3, <1>4 DEF AttachedCall

LEMMA StartEffect ==
  ASSUME SagaTypes, NEW n \in Nodes, NEW s \in Servers, NEW outcome \in Outcomes,
         StartCall(n, s, outcome)
  PROVE  /\ ContainerDone(n, s)
         /\ container'[<<n, s>>] = "none" <=> container[<<n, s>>] = "none"
         /\ container[<<n, s>>] # "none" /\ faults' = 0 => container'[<<n, s>>] = "running"
<1>1. CASE UNCHANGED agents /\ container[<<n, s>>] = "none"
  BY <1>1, Counters DEF agents, SagaTypes, AgentsOK, ContainerDone
<1>2. CASE AgentCall(n, s, outcome, "running") /\ container[<<n, s>>] # "none"
  BY <1>2, CallEffect DEF ContainerStates
<1>. QED BY <1>1, <1>2 DEF StartCall

\* A step that touches nothing but the job.
LEMMA Quiet ==
  ASSUME NEW m \in Movers, NEW r \in Job, NEW s \in Servers, NEW f \in Nodes, NEW t \in Nodes,
         Moves(m, r, s, f, t), UNCHANGED <<servers, agents, requests, claims, dbNode, attached>>
  PROVE  /\ Work(s) /\ UNCHANGED <<servers, container, dbNode, attached, faults, crashes>>
         /\ Lock(s)' = Lock(s) /\ (Unharmed' <=> Unharmed)
         /\ \A n \in Nodes : Bare(n, s)' <=> Bare(n, s)
<1>1. UNCHANGED <<servers, container, dbNode, attached, faults, crashes>>
  BY DEF agents, claims
<1>2. Lock(s)' = Lock(s) /\ (Unharmed' <=> Unharmed) /\ \A n \in Nodes : Bare(n, s)' <=> Bare(n, s)
  BY <1>1 DEF Lock, HasStatus, Exists, Unharmed, Bare
<1>3. RowKept(s)'
  BY <1>1, <1>2, MovesFacts DEF RowSound, RowKept
<1>4. Spares(s)
  BY <1>1 DEF Spares
<1>. QED BY <1>1, <1>2, <1>3, <1>4, Counters DEF Work, Moves, SagaTypes, JobsOK, AgentsOK

\* A job that stops before it has touched anything.
LEMMA QuietEnd ==
  ASSUME NEW m \in Movers, NEW r \in Job, NEW s \in Servers, NEW f \in Nodes, NEW t \in Nodes,
         Moves(m, r, s, f, t), r.stage \in PriorStages,
         EndJob(m), UNCHANGED <<servers, agents, requests, claims, dbNode, attached>>
  PROVE  SagaTypes' /\ Advances(m)
<1>1. servers'[s].node = f
  BY Quiet, MovesFacts DEF Moves, JobKnows, PriorStages, CleanStages
<1>2. Unharmed => \A n \in Nodes \ {f} : Bare(n, s)
  BY MovesFacts DEF Moves, JobLeaves
<1>. QED BY <1>1, <1>2, Quiet, GoesOff

-----------------------------------------------------------------------------
(* One lemma per action of a job: preparation.                             *)

LEMMA StartTransferAdvances ==
  ASSUME SagaTypes, Sound, Calm, NEW m \in Movers, NEW s \in Servers,
         NEW from \in Nodes, NEW to \in Nodes, StartTransfer(m, s, from, to)
  PROVE  SagaTypes' /\ Advances(m)
<1>1. PICK r \in Job :
        /\ mover' = [mover EXCEPT ![m] = r]
        /\ r.stage = "access" /\ r.s = s /\ r.from = from /\ r.to = to
  <2>1. [stage |-> "access", s |-> s, from |-> from, to |-> to, port |-> None,
         prev |-> "none", databases |-> FALSE, tried |-> {}] \in Job
    BY DEF Job, OtherStages
  <2>. QED BY <2>1 DEF StartTransfer
<1>2. /\ mover[m] = None /\ from # to /\ servers[s].node = from /\ ~InTransfer(s)
      /\ UNCHANGED <<servers, container, faults, crashes, dbNode, attached, requests, claims>>
  BY RoutesAssumption DEF StartTransfer, Calm, agents, claims
<1>3. /\ mover' \in [Movers -> Job \cup {None}] /\ mover'[m] = r /\ r # None
      /\ \A k \in Movers \ {m} : mover'[k] = mover[k]
  BY <1>1, NoJobAssumption DEF SagaTypes, JobsOK
<1>4. SagaTypes'
  BY <1>2, <1>3
     DEF SagaTypes, JobsOK, AgentsOK, HandlersOK, HandlerOK, HistoryOK, requests, claims
<1>5. Only(m, s)
  BY <1>1, <1>2, <1>3 DEF Only, Spares, InTransfer
<1>6. Grows
  BY <1>2, Counters DEF Grows
<1>7. RowSound(s)
  BY DEF Sound
<1>8. RowSound(s)'
  BY <1>1, <1>2, <1>3, <1>7 DEF RowSound, RowKept, Lock, HasStatus, Exists, InTransfer
<1>9. JobKnows(r)'
  BY <1>1, <1>2 DEF JobKnows, PriorStages, CleanStages, ClaimedStages, BuiltStages
<1>10. JobLeaves(r)'
  <2>1. Unharmed => \A n \in Nodes \ {from} : Bare(n, s)
    BY <1>2, <1>7 DEF RowSound
  <2>2. (\A n \in Nodes : Bare(n, s)' <=> Bare(n, s)) /\ (Unharmed' <=> Unharmed)
    BY <1>2 DEF Unharmed, Bare
  <2>. QED BY <1>1, <1>2, <2>1, <2>2 DEF JobLeaves, PriorStages, ClaimedStages
<1>. QED BY <1>3, <1>4, <1>5, <1>6, <1>8, <1>9, <1>10 DEF Advances, JobSound

LEMMA CheckAccessAdvances ==
  ASSUME NEW m \in Movers, NEW r \in Job, NEW s \in Servers, NEW f \in Nodes, NEW t \in Nodes,
         Moves(m, r, s, f, t), CheckAccess(m)
  PROVE  SagaTypes' /\ Advances(m)
<1>1. r.stage = "access" /\ UNCHANGED <<servers, agents, requests, claims, dbNode, attached>>
  BY DEF CheckAccess, Stage, Moves
<1>2. /\ f # t /\ r.s = s /\ r.from = f /\ r.to = t /\ JobKnows(r) /\ JobLeaves(r)
      /\ UNCHANGED <<servers, container, dbNode, attached, faults, crashes>>
      /\ (Unharmed' <=> Unharmed) /\ \A n \in Nodes : Bare(n, s)' <=> Bare(n, s)
  BY <1>1, Quiet, MovesFacts DEF Moves
<1>3. CASE EndJob(m)
  BY <1>1, <1>3, QuietEnd DEF PriorStages
<1>4. CASE Enter(m, "port")
  <2>1. PICK q \in Job : mover' = [mover EXCEPT ![m] = q] /\ q.stage = "port" /\ SameJob(q, r)
    BY <1>4, Entered DEF Moves, Stages, OtherStages
  <2>2. q.s = s /\ q.from = f /\ q.to = t
    BY <2>1 DEF SameJob, Moves
  <2>3. JobKnows(q)'
    BY <1>1, <1>2, <2>1, <2>2
       DEF JobKnows, PriorStages, CleanStages, ClaimedStages, BuiltStages
  <2>4. JobLeaves(q)'
    BY <1>1, <1>2, <2>1, <2>2 DEF JobLeaves, PriorStages, ClaimedStages
  <2>. QED BY <1>1, <2>1, <2>2, <2>3, <2>4, Quiet, GoesOn
<1>. QED BY <1>3, <1>4 DEF CheckAccess

LEMMA ChoosePortAdvances ==
  ASSUME NEW m \in Movers, NEW r \in Job, NEW s \in Servers, NEW f \in Nodes, NEW t \in Nodes,
         Moves(m, r, s, f, t), ChoosePort(m)
  PROVE  SagaTypes' /\ Advances(m)
<1>1. r.stage = "port" /\ UNCHANGED <<servers, agents, requests, claims, dbNode, attached>>
  BY DEF ChoosePort, Stage, Moves
<1>2. /\ f # t /\ r.s = s /\ r.from = f /\ r.to = t /\ JobKnows(r) /\ JobLeaves(r)
      /\ UNCHANGED <<servers, container, dbNode, attached, faults, crashes>>
      /\ (Unharmed' <=> Unharmed) /\ \A n \in Nodes : Bare(n, s)' <=> Bare(n, s)
  BY <1>1, Quiet, MovesFacts DEF Moves
<1>3. CASE EndJob(m)
  BY <1>1, <1>3, QuietEnd DEF PriorStages
<1>4. ASSUME NEW port \in Ports, mover' = [mover EXCEPT ![m] = [@ EXCEPT !.stage = "claim", !.port = port]]
      PROVE  SagaTypes' /\ Advances(m)
  <2>1. PICK q \in Job : /\ mover' = [mover EXCEPT ![m] = q] /\ q.stage = "claim"
                         /\ q.s = s /\ q.from = f /\ q.to = t /\ q.port = port
    <3>. DEFINE q == [r EXCEPT !.stage = "claim", !.port = port]
    <3>1. q \in Job /\ q.stage = "claim" /\ q.s = s /\ q.from = f /\ q.to = t /\ q.port = port
      BY DEF Job, OtherStages, Moves
    <3>2. mover' = [mover EXCEPT ![m] = q]
      BY <1>4 DEF Moves
    <3>. QED BY <3>1, <3>2
  <2>2. JobKnows(q)'
    BY <1>1, <1>2, <2>1
       DEF JobKnows, PriorStages, CleanStages, ClaimedStages, BuiltStages
  <2>3. JobLeaves(q)'
    BY <1>1, <1>2, <2>1 DEF JobLeaves, PriorStages, ClaimedStages
  <2>. QED BY <1>1, <2>1, <2>2, <2>3, Quiet, GoesOn
<1>. QED BY <1>3, <1>4 DEF ChoosePort

LEMMA ClaimTransferAdvances ==
  ASSUME NEW m \in Movers, NEW r \in Job, NEW s \in Servers, NEW f \in Nodes, NEW t \in Nodes,
         Moves(m, r, s, f, t), ClaimTransfer(m)
  PROVE  SagaTypes' /\ Advances(m)
<1>1. r.stage = "claim" /\ UNCHANGED <<agents, requests, claims, dbNode, attached>>
  BY DEF ClaimTransfer, Stage, Moves
<1>2. /\ f # t /\ r.s = s /\ r.from = f /\ r.to = t /\ JobKnows(r) /\ JobLeaves(r) /\ RowKept(s)
      /\ UNCHANGED <<container, dbNode, attached, faults, crashes>>
      /\ (Unharmed' <=> Unharmed) /\ \A n \in Nodes : Bare(n, s)' <=> Bare(n, s)
  BY <1>1, MovesFacts DEF Moves, agents, claims, Unharmed, Bare, RowSound
<1>3. CASE EndJob(m) /\ UNCHANGED servers
  BY <1>1, <1>3, QuietEnd DEF PriorStages
<1>4. CASE /\ ClaimTransition(s, "transferring")
           /\ mover' = [mover EXCEPT ![m] = [@ EXCEPT !.stage = "list", !.prev = servers[s].status]]
  <2>1. servers \in [Servers -> Row] /\ servers[s] \in Row /\ servers[s].node \in Nodes
    BY AllExist DEF SagaTypes, Moves
  <2>2. /\ Lock(s) = "none" /\ Lock(s)' = "transferring" /\ servers[s].status \in Stable
    BY <1>4, <2>1, ClaimTransitionLocks DEF RegistryTypeOK, Transitional
  <2>3. servers' = [servers EXCEPT ![s] = [servers[s] EXCEPT !.status = "transferring"]]
    BY <1>4 DEF ClaimTransition, WriteStatus
  <2>4. servers' \in [Servers -> Row] /\ servers'[s].node = servers[s].node
    BY <2>1, <2>3 DEF Row, Statuses, Transitional
  <2>5. PICK q \in Job : /\ mover' = [mover EXCEPT ![m] = q] /\ q.stage = "list" /\ q.prev \in Stable
                         /\ q.s = s /\ q.from = f /\ q.to = t /\ q.port = r.port
    <3>. DEFINE q == [r EXCEPT !.stage = "list", !.prev = servers[s].status]
    <3>1. q \in Job /\ q.stage = "list" /\ q.prev \in Stable /\ q.s = s /\ q.from = f /\ q.to = t
          /\ q.port = r.port
      BY <1>2, <2>2 DEF Job, ClaimedStages, Statuses
    <3>2. mover' = [mover EXCEPT ![m] = q]
      BY <1>4 DEF Moves
    <3>. QED BY <3>1, <3>2
  <2>6. Spares(s)
    BY <1>2, <2>1, <2>3 DEF Spares
  <2>7. RowKept(s)'
    BY <1>2, <2>2, <2>4 DEF RowKept
  <2>8. Work(s)
    BY <1>1, <1>2, <2>4, <2>6, <2>7, Counters DEF Work, Moves, SagaTypes, JobsOK, AgentsOK
  <2>9. dbNode[s] \in {None, f}
    BY <1>1, <1>2, <2>2 DEF RowKept, JobKnows, CleanStages
  <2>10. JobKnows(q)'
    BY <1>1, <1>2, <2>2, <2>4, <2>5, <2>9
       DEF JobKnows, PriorStages, CleanStages, ClaimedStages, BuiltStages
  <2>11. JobLeaves(q)'
    BY <1>1, <1>2, <2>5 DEF JobLeaves, PriorStages, ClaimedStages, Bare
  <2>. QED BY <2>5, <2>8, <2>10, <2>11, GoesOn
<1>. QED BY <1>2, <1>3, <1>4 DEF ClaimTransfer, Moves

LEMMA ListDatabasesAdvances ==
  ASSUME NEW m \in Movers, NEW r \in Job, NEW s \in Servers, NEW f \in Nodes, NEW t \in Nodes,
         Moves(m, r, s, f, t), ListDatabases(m)
  PROVE  SagaTypes' /\ Advances(m)
<1>1. r.stage = "list" /\ UNCHANGED <<servers, agents, requests, claims, dbNode, attached>>
  BY DEF ListDatabases, Stage, Moves
<1>2. /\ f # t /\ r.s = s /\ r.from = f /\ r.to = t /\ JobKnows(r) /\ JobLeaves(r)
      /\ UNCHANGED <<servers, container, dbNode, attached, faults, crashes>>
      /\ (Unharmed' <=> Unharmed) /\ Lock(s)' = Lock(s) /\ \A n \in Nodes : Bare(n, s)' <=> Bare(n, s)
  BY <1>1, Quiet, MovesFacts DEF Moves
<1>3. PICK q \in Job : /\ mover' = [mover EXCEPT ![m] = q] /\ q.stage = "serverData"
                       /\ q.s = s /\ q.from = f /\ q.to = t /\ q.port = r.port /\ q.prev = r.prev
                       /\ (q.databases <=> dbNode[s] # None) /\ q.tried = r.tried
  <2>. DEFINE q == [r EXCEPT !.stage = "serverData", !.databases = dbNode[s] # None]
  <2>1. q \in Job /\ q.stage = "serverData" /\ q.s = s /\ q.from = f /\ q.to = t
        /\ q.port = r.port /\ q.prev = r.prev /\ (q.databases <=> dbNode[s] # None)
        /\ q.tried = r.tried
    BY <1>2 DEF Job, ClaimedStages
  <2>2. mover' = [mover EXCEPT ![m] = q]
    BY DEF ListDatabases, Moves
  <2>. QED BY <2>1, <2>2
<1>4. JobKnows(q)'
  BY <1>1, <1>2, <1>3 DEF JobKnows, PriorStages, CleanStages, ClaimedStages, BuiltStages
<1>5. JobLeaves(q)'
  BY <1>1, <1>2, <1>3 DEF JobLeaves, PriorStages, ClaimedStages
<1>. QED BY <1>1, <1>3, <1>4, <1>5, Quiet, GoesOn

-----------------------------------------------------------------------------
(* Calls for the two nodes of a transfer, and the way into the catch block. *)

\* A call about s on f or t that keeps the server where its row is.
Keeps(s, f, t) ==
  /\ Work(s) /\ UNCHANGED <<servers, dbNode, crashes>>
  /\ Lock(s)' = Lock(s) /\ (Unharmed' => Unharmed)
  /\ \A n \in Nodes \ {f, t} : Bare(n, s)' <=> Bare(n, s)

Elsewhere(s, f, t) ==
  \A n \in Nodes, u \in Servers : u # s \/ n \notin {f, t} =>
    container'[<<n, u>>] = container[<<n, u>>] /\ attached'[<<n, u>>] = attached[<<n, u>>]

LEMMA AgentWork ==
  ASSUME NEW m \in Movers, NEW r \in Job, NEW s \in Servers, NEW f \in Nodes, NEW t \in Nodes,
         Moves(m, r, s, f, t), UNCHANGED <<servers, requests, claims, dbNode>>, AgentsOK',
         attached' \in [Nodes \X Servers -> SUBSET Attachments], faults <= faults', Elsewhere(s, f, t),
         container'[<<servers[s].node, s>>] # "none",
         dbNode[s] # None => Attachments \subseteq attached'[<<servers[s].node, s>>],
         dbNode[s] = None => attached'[<<f, s>>] = {} /\ attached'[<<t, s>>] = {}
  PROVE  Keeps(s, f, t)
<1>. USE DEF Elsewhere
<1>1. UNCHANGED <<servers, dbNode, crashes>> /\ Lock(s)' = Lock(s) /\ RowKept(s)
  BY MovesFacts DEF claims, Lock, HasStatus, Exists, RowSound
<1>2. Unharmed' => Unharmed
  BY <1>1, Counters DEF Unharmed, Moves
<1>3. \A n \in Nodes \ {f, t} : Bare(n, s)' <=> Bare(n, s)
  BY DEF Bare
<1>4. RowKept(s)'
  BY <1>1 DEF RowKept
<1>5. Spares(s)
  BY <1>1 DEF Spares
<1>. QED BY <1>1, <1>2, <1>3, <1>4, <1>5 DEF Keeps, Work, Moves, SagaTypes, JobsOK

LEMMA ContainerWork ==
  ASSUME NEW m \in Movers, NEW r \in Job, NEW s \in Servers, NEW f \in Nodes, NEW t \in Nodes,
         Moves(m, r, s, f, t), NEW n \in {f, t},
         UNCHANGED <<servers, requests, claims, dbNode, attached>>, ContainerDone(n, s),
         n # servers[s].node \/ (container'[<<n, s>>] = "none" <=> container[<<n, s>>] = "none")
  PROVE  Keeps(s, f, t)
<1>1. attached' = attached /\ RowKept(s) /\ servers[s].node \in Nodes
  BY AllExist, MovesFacts DEF RowSound, Moves
<1>2. /\ container'[<<servers[s].node, s>>] # "none"
      /\ dbNode[s] # None => Attachments \subseteq attached'[<<servers[s].node, s>>]
      /\ dbNode[s] = None => attached'[<<f, s>>] = {} /\ attached'[<<t, s>>] = {}
  BY <1>1 DEF RowKept, ContainerDone
<1>3. attached' \in [Nodes \X Servers -> SUBSET Attachments]
  BY <1>1 DEF Moves, SagaTypes, JobsOK
<1>4. Elsewhere(s, f, t) /\ AgentsOK' /\ faults <= faults'
  BY <1>1 DEF Elsewhere, ContainerDone
<1>. QED BY <1>2, <1>3, <1>4, AgentWork

\* A call about the databases or the backups on the node that has not the row.
LEMMA AttachedWork ==
  ASSUME NEW m \in Movers, NEW r \in Job, NEW s \in Servers, NEW f \in Nodes, NEW t \in Nodes,
         Moves(m, r, s, f, t), NEW n \in {f, t}, n # servers[s].node,
         UNCHANGED <<servers, container, requests, claims, dbNode>>, AttachedDone(n, s),
         dbNode[s] = None => attached'[<<n, s>>] = {}
  PROVE  Keeps(s, f, t)
<1>1. container' = container /\ RowKept(s) /\ servers[s].node \in Nodes
  BY AllExist, MovesFacts DEF RowSound, Moves
<1>2. /\ container'[<<servers[s].node, s>>] # "none"
      /\ dbNode[s] # None => Attachments \subseteq attached'[<<servers[s].node, s>>]
      /\ dbNode[s] = None => attached'[<<f, s>>] = {} /\ attached'[<<t, s>>] = {}
  <2>1. attached'[<<servers[s].node, s>>] = attached[<<servers[s].node, s>>]
    BY <1>1 DEF AttachedDone
  <2>2. \A k \in Nodes \ {n} : attached'[<<k, s>>] = attached[<<k, s>>]
    BY DEF AttachedDone
  <2>. QED BY <1>1, <2>1, <2>2 DEF RowKept
<1>3. attached' \in [Nodes \X Servers -> SUBSET Attachments] /\ AgentsOK' /\ faults <= faults'
  BY DEF AttachedDone
<1>4. Elsewhere(s, f, t)
  BY <1>1 DEF Elsewhere, AttachedDone
<1>. QED BY <1>2, <1>3, <1>4, AgentWork

FailStages == {"rollDatabases", "rollServer"}

LEMMA FailEnters ==
  ASSUME NEW m \in Movers, NEW r \in Job, mover[m] = r, Fail(m)
  PROVE  \E q \in Job : /\ mover' = [mover EXCEPT ![m] = q] /\ SameJob(q, r)
                        /\ q.stage \in FailStages
                        /\ q.stage = "rollServer" => "databases" \notin q.tried
<1>. DEFINE stage == IF "databases" \in r.tried THEN "rollDatabases" ELSE "rollServer"
<1>1. stage \in Stages /\ Enter(m, stage)
  BY DEF Fail, Stages, ClaimedStages
<1>2. PICK q \in Job : mover' = [mover EXCEPT ![m] = q] /\ q.stage = stage /\ SameJob(q, r)
  <2>. HIDE DEF stage
  <2>. QED BY <1>1, Entered
<1>. QED BY <1>2 DEF SameJob, FailStages

\* A job that fails has cleaned nothing yet: it knows what it tried.
LEMMA Fails ==
  ASSUME NEW m \in Movers, NEW r \in Job, NEW s \in Servers, NEW f \in Nodes, NEW t \in Nodes,
         Moves(m, r, s, f, t), r.stage \in ClaimedStages \ {"list"},
         NEW q \in Job, mover' = [mover EXCEPT ![m] = q],
         q.s = s, q.from = f, q.to = t, q.port = r.port, q.prev = r.prev, q.databases = r.databases,
         q.stage \in FailStages, q.stage = "rollServer" => "databases" \notin q.tried,
         Work(s), servers' = servers, dbNode'[s] \in {None, f}, dbNode'[s] = None <=> dbNode[s] = None,
         Unharmed' => /\ attached'[<<t, s>>] \subseteq q.tried
                      /\ \A n \in Nodes \ {f, t} : Bare(n, s)'
  PROVE  SagaTypes' /\ Advances(m)
<1>1. f # t /\ r.s = s /\ r.from = f /\ r.to = t /\ JobKnows(r) /\ Lock(s)' = Lock(s)
  BY MovesFacts DEF Moves, Lock, HasStatus, Exists
<1>2. /\ servers[s].node = f /\ Lock(s) = "transferring" /\ r.prev \in Stable /\ r.port \in Ports
      /\ r.databases <=> dbNode[s] # None
  BY <1>1 DEF JobKnows, ClaimedStages, CleanStages, PriorStages
<1>3. JobKnows(q)'
  BY <1>1, <1>2
     DEF JobKnows, FailStages, PriorStages, CleanStages, ClaimedStages, BuiltStages
<1>4. JobLeaves(q)'
  BY <1>1 DEF JobLeaves, FailStages, PriorStages, ClaimedStages
<1>. QED BY <1>3, <1>4, GoesOn

LEMMA CallFails ==
  ASSUME NEW m \in Movers, NEW r \in Job, NEW s \in Servers, NEW f \in Nodes, NEW t \in Nodes,
         Moves(m, r, s, f, t), r.stage \in ClaimedStages \ {"list"}, Fail(m),
         Work(s), servers' = servers, dbNode'[s] \in {None, f}, dbNode'[s] = None <=> dbNode[s] = None,
         Unharmed' => /\ attached'[<<t, s>>] \subseteq r.tried
                      /\ \A n \in Nodes \ {f, t} : Bare(n, s)'
  PROVE  SagaTypes' /\ Advances(m)
<1>1. PICK q \in Job : /\ mover' = [mover EXCEPT ![m] = q] /\ SameJob(q, r)
                       /\ q.stage \in FailStages
                       /\ q.stage = "rollServer" => "databases" \notin q.tried
  BY FailEnters DEF Moves
<1>2. /\ q.s = s /\ q.from = f /\ q.to = t /\ q.port = r.port /\ q.prev = r.prev
      /\ q.databases = r.databases /\ q.tried = r.tried
  BY <1>1 DEF SameJob, Moves
<1>. QED BY <1>1, <1>2, Fails

-----------------------------------------------------------------------------
(* Copying.                                                                *)

LEMMA TransferServerDataAdvances ==
  ASSUME NEW m \in Movers, NEW r \in Job, NEW s \in Servers, NEW f \in Nodes, NEW t \in Nodes,
         Moves(m, r, s, f, t), TransferServerData(m)
  PROVE  SagaTypes' /\ Advances(m)
<1>1. r.stage = "serverData" /\ UNCHANGED <<servers, requests, claims, dbNode, attached>>
  BY DEF TransferServerData, Stage, Moves
<1>2. /\ f # t /\ r.s = s /\ r.from = f /\ r.to = t /\ JobKnows(r) /\ JobLeaves(r) /\ RowKept(s)
  BY MovesFacts DEF Moves, RowSound
<1>3. servers[s].node = f /\ container[<<f, s>>] # "none" /\ dbNode[s] \in {None, f}
  BY <1>1, <1>2 DEF JobKnows, RowKept, ClaimedStages, CleanStages
<1>4. PICK outcome \in Outcomes :
        /\ outcome # "ok" => faults < MaxFaults
        /\ faults' = IF outcome = "ok" THEN faults ELSE faults + 1
        /\ container' = IF outcome \in {"ok", "lost"}
             THEN [ns \in DOMAIN container |-> IF ns \in {<<f, s>>, <<t, s>>} THEN "stopped" ELSE container[ns]]
             ELSE container
        /\ IF outcome = "ok" THEN Enter(m, IF r.databases THEN "databaseData" ELSE "backups")
           ELSE Fail(m)
  BY <1>2, <1>3 DEF TransferServerData, Moves
<1>5. /\ AgentsOK' /\ faults <= faults' /\ container'[<<f, s>>] # "none"
      /\ \A n \in Nodes, u \in Servers : u # s \/ n \notin {f, t} =>
           container'[<<n, u>>] = container[<<n, u>>]
  <2>1. faults' \in 0..MaxFaults /\ faults <= faults'
    BY <1>4, BoundsAssumption DEF Moves, SagaTypes, AgentsOK
  <2>2. container' \in [Nodes \X Servers -> ContainerStates]
    BY <1>4 DEF Moves, SagaTypes, AgentsOK, ContainerStates
  <2>3. \A n \in Nodes, u \in Servers : u # s \/ n \notin {f, t} =>
           container'[<<n, u>>] = container[<<n, u>>]
    BY <1>4 DEF Moves, SagaTypes, AgentsOK
  <2>4. container'[<<f, s>>] # "none"
    BY <1>2, <1>3, <1>4 DEF Moves, SagaTypes, AgentsOK
  <2>. QED BY <2>1, <2>2, <2>3, <2>4 DEF AgentsOK
<1>6. Keeps(s, f, t)
  <2>1. attached' \in [Nodes \X Servers -> SUBSET Attachments]
    BY <1>1 DEF Moves, SagaTypes, JobsOK
  <2>2. /\ dbNode[s] # None => Attachments \subseteq attached'[<<servers[s].node, s>>]
        /\ dbNode[s] = None => attached'[<<f, s>>] = {} /\ attached'[<<t, s>>] = {}
    BY <1>1, <1>2 DEF RowKept
  <2>. QED BY <1>1, <1>3, <1>5, <2>1, <2>2, AgentWork DEF Elsewhere
<1>7. Unharmed' => attached'[<<t, s>>] \subseteq r.tried /\ \A n \in Nodes \ {f, t} : Bare(n, s)'
  BY <1>1, <1>2, <1>6 DEF JobLeaves, ClaimedStages, Keeps
<1>8. CASE Fail(m)
  BY <1>1, <1>3, <1>6, <1>7, <1>8, CallFails DEF ClaimedStages, Keeps
<1>9. ASSUME NEW stage \in {"databaseData", "backups"}, Enter(m, stage),
             stage = "backups" => ~r.databases
      PROVE  SagaTypes' /\ Advances(m)
  <2>1. PICK q \in Job : mover' = [mover EXCEPT ![m] = q] /\ q.stage = stage /\ SameJob(q, r)
    BY <1>9, Entered DEF Moves, Stages, ClaimedStages
  <2>2. /\ q.s = s /\ q.from = f /\ q.to = t /\ q.port = r.port /\ q.prev = r.prev
        /\ q.databases = r.databases /\ q.tried = r.tried
    BY <1>2, <2>1 DEF SameJob
  <2>3. JobKnows(q)'
    BY <1>1, <1>2, <1>3, <1>6, <1>9, <2>1, <2>2
       DEF Keeps, JobKnows, PriorStages, CleanStages, ClaimedStages, BuiltStages
  <2>4. JobLeaves(q)'
    BY <1>2, <1>7, <1>9, <2>1, <2>2 DEF Keeps, JobLeaves, PriorStages, ClaimedStages
  <2>. QED BY <1>6, <2>1, <2>2, <2>3, <2>4, GoesOn DEF Keeps
<1>. QED BY <1>4, <1>8, <1>9

LEMMA ImportAdvances ==
  ASSUME NEW m \in Movers, NEW r \in Job, NEW s \in Servers, NEW f \in Nodes, NEW t \in Nodes,
         Moves(m, r, s, f, t), TransferDatabaseData(m) \/ TransferBackups(m)
  PROVE  SagaTypes' /\ Advances(m)
<1>0. PICK item \in Attachments, next \in {"backups", "create"} :
        /\ Import(m, r.stage, item, next)
        /\ \/ r.stage = "databaseData" /\ item = "databases" /\ next = "backups"
           \/ r.stage = "backups" /\ item = "backups" /\ next = "create"
  BY DEF TransferDatabaseData, TransferBackups, Attachments, Import, Stage, Moves
<1>1. /\ r.stage \in {"databaseData", "backups"}
      /\ UNCHANGED <<servers, container, requests, claims, dbNode>>
  BY <1>0 DEF Import
<1>2. /\ f # t /\ r.s = s /\ r.from = f /\ r.to = t /\ JobKnows(r) /\ JobLeaves(r) /\ RowKept(s)
  BY MovesFacts DEF Moves, RowSound
<1>3. servers[s].node = f /\ dbNode[s] \in {None, f} /\ (r.databases <=> dbNode[s] # None)
  BY <1>1, <1>2 DEF JobKnows, ClaimedStages, CleanStages, PriorStages
<1>. DEFINE items == attached[<<t, s>>] \cup (attached[<<f, s>>] \cap {item})
            outOf == IF "databases" \in r.tried \cup {item} THEN "rollDatabases" ELSE "rollServer"
<1>4. PICK stage \in Stages :
        /\ mover' = [mover EXCEPT ![m] = [@ EXCEPT !.tried = r.tried \cup {item}, !.stage = stage]]
        /\ \/ \E outcome \in Outcomes : /\ AttachedCall(t, s, outcome, items)
                                        /\ stage = IF outcome = "ok" THEN next ELSE outOf
           \/ UNCHANGED <<faults, attached>> /\ stage = outOf
  <2>1. next \in Stages /\ outOf \in Stages
    BY DEF Stages, ClaimedStages
  <2>2. \/ \E outcome \in Outcomes :
             /\ AttachedCall(t, s, outcome, items)
             /\ mover' = [mover EXCEPT ![m] = [@ EXCEPT !.tried = r.tried \cup {item},
                                       !.stage = IF outcome = "ok" THEN next ELSE outOf]]
        \/ /\ UNCHANGED <<faults, attached>>
           /\ mover' = [mover EXCEPT ![m] = [@ EXCEPT !.tried = r.tried \cup {item}, !.stage = outOf]]
    BY <1>0, <1>2 DEF Import, Moves
  <2>. QED BY <2>1, <2>2
<1>5. items \in SUBSET Attachments
  BY DEF Moves, SagaTypes, JobsOK
<1>6. /\ AttachedDone(t, s) /\ attached'[<<t, s>>] \in {attached[<<t, s>>], items}
      /\ stage = next => attached'[<<t, s>>] = items
  <2>1. CASE UNCHANGED <<faults, attached>> /\ stage = outOf
    BY <1>0, <1>1, <2>1, Counters DEF Moves, SagaTypes, JobsOK, AgentsOK, AttachedDone
  <2>2. ASSUME NEW outcome \in Outcomes, AttachedCall(t, s, outcome, items)
        PROVE  /\ AttachedDone(t, s) /\ attached'[<<t, s>>] \in {attached[<<t, s>>], items}
               /\ outcome = "ok" => attached'[<<t, s>>] = items
    <3>. HIDE DEF items
    <3>. QED BY <1>1, <1>5, <2>2, AttachedEffect DEF Moves
  <2>3. next # outOf
    BY <1>0
  <2>. HIDE DEF items, outOf
  <2>4. CASE \E outcome \in Outcomes : /\ AttachedCall(t, s, outcome, items)
                                      /\ stage = IF outcome = "ok" THEN next ELSE outOf
    <3>1. PICK outcome \in Outcomes : /\ AttachedCall(t, s, outcome, items)
                                     /\ stage = IF outcome = "ok" THEN next ELSE outOf
      BY <2>4
    <3>2. stage = next => outcome = "ok"
      BY <2>3, <3>1
    <3>. QED BY <2>2, <3>1, <3>2
  <2>. QED BY <1>4, <2>1, <2>4
<1>. HIDE DEF outOf
<1>7. Keeps(s, f, t)
  <2>1. dbNode[s] = None => attached'[<<t, s>>] = {}
    BY <1>2, <1>6 DEF RowKept
  <2>2. t \in {f, t} /\ t # servers[s].node
    BY <1>2, <1>3
  <2>. QED BY <1>1, <1>6, <2>1, <2>2, AttachedWork
<1>8. PICK q \in Job : /\ mover' = [mover EXCEPT ![m] = q] /\ q.stage = stage
                       /\ q.s = s /\ q.from = f /\ q.to = t /\ q.port = r.port
                       /\ q.prev = r.prev /\ q.databases = r.databases
                       /\ q.tried = r.tried \cup {item}
  <2>. DEFINE q == [r EXCEPT !.tried = r.tried \cup {item}, !.stage = stage]
  <2>1. /\ q \in Job /\ q.stage = stage
        /\ q.s = r.s /\ q.from = r.from /\ q.to = r.to /\ q.port = r.port
        /\ q.prev = r.prev /\ q.databases = r.databases /\ q.tried = r.tried \cup {item}
    BY DEF Job, Stages
  <2>2. mover' = [mover EXCEPT ![m] = q]
    BY <1>4 DEF Moves
  <2>. QED BY <1>2, <2>1, <2>2
<1>9. Unharmed' => attached'[<<t, s>>] \subseteq q.tried /\ \A n \in Nodes \ {f, t} : Bare(n, s)'
  BY <1>1, <1>2, <1>6, <1>7, <1>8 DEF JobLeaves, ClaimedStages, Keeps
<1>10. CASE stage = outOf
  <2>1. q.stage \in FailStages /\ (q.stage = "rollServer" => "databases" \notin q.tried)
    BY <1>8, <1>10 DEF FailStages, outOf
  <2>. QED BY <1>1, <1>3, <1>7, <1>8, <1>9, <2>1, Fails DEF ClaimedStages, Keeps
<1>11. CASE stage = next
  <2>1. next = "create" /\ q.databases => "backups" \in attached'[<<t, s>>]
    <3>1. ASSUME next = "create", q.databases
          PROVE  "backups" \in attached'[<<t, s>>]
      <4>1. item = "backups" /\ dbNode[s] # None
        BY <1>0, <1>3, <1>8, <3>1
      <4>2. "backups" \in attached[<<f, s>>]
        BY <1>2, <1>3, <4>1 DEF RowKept, Attachments
      <4>. QED BY <1>6, <1>11, <4>1, <4>2
    <3>. QED BY <3>1
  <2>2. Unharmed' /\ next = "create" /\ q.databases => "databases" \in q.tried
    BY <1>0, <1>2, <1>7, <1>8 DEF JobLeaves, Keeps
  <2>3. next = "backups" => "databases" \in q.tried
    BY <1>0, <1>8
  <2>4. JobKnows(q)'
    BY <1>1, <1>2, <1>3, <1>7, <1>8, <1>11, <2>1
       DEF Keeps, JobKnows, PriorStages, CleanStages, ClaimedStages, BuiltStages
  <2>5. JobLeaves(q)'
    BY <1>2, <1>8, <1>9, <1>11, <2>2, <2>3 DEF Keeps, JobLeaves, PriorStages, ClaimedStages
  <2>. QED BY <1>7, <1>8, <2>4, <2>5, GoesOn DEF Keeps
<1>. QED BY <1>4, <1>10, <1>11

-----------------------------------------------------------------------------
(* Building the target.                                                    *)

LEMMA CreateOnTargetAdvances ==
  ASSUME NEW m \in Movers, NEW r \in Job, NEW s \in Servers, NEW f \in Nodes, NEW t \in Nodes,
         Moves(m, r, s, f, t), CreateOnTarget(m)
  PROVE  SagaTypes' /\ Advances(m)
<1>1. r.stage = "create" /\ UNCHANGED <<servers, requests, claims, dbNode, attached>>
  BY DEF CreateOnTarget, Stage, Moves
<1>2. /\ f # t /\ r.s = s /\ r.from = f /\ r.to = t /\ JobKnows(r) /\ JobLeaves(r) /\ RowKept(s)
  BY MovesFacts DEF Moves, RowSound
<1>3. servers[s].node = f /\ dbNode[s] \in {None, f} /\ (r.databases <=> dbNode[s] # None)
  BY <1>1, <1>2 DEF JobKnows, ClaimedStages, CleanStages, PriorStages
<1>4. CASE Fail(m) /\ UNCHANGED agents
  <2>1. /\ Work(s) /\ UNCHANGED <<servers, container, dbNode, attached, faults, crashes>>
        /\ (Unharmed' <=> Unharmed) /\ \A n \in Nodes : Bare(n, s)' <=> Bare(n, s)
    BY <1>1, <1>4, Quiet
  <2>2. Unharmed' => attached'[<<t, s>>] \subseteq r.tried /\ \A n \in Nodes \ {f, t} : Bare(n, s)'
    BY <1>1, <1>2, <2>1 DEF JobLeaves, ClaimedStages
  <2>. QED BY <1>1, <1>3, <1>4, <2>1, <2>2, CallFails DEF ClaimedStages
<1>5. ASSUME NEW outcome \in Outcomes, AgentCall(t, s, outcome, "stopped"),
             IF outcome = "ok" THEN Enter(m, "createDatabases") ELSE Fail(m)
      PROVE  SagaTypes' /\ Advances(m)
  <2>1. ContainerDone(t, s) /\ (outcome = "ok" => container'[<<t, s>>] = "stopped")
    BY <1>5, CallEffect DEF Moves, ContainerStates
  <2>2. Keeps(s, f, t) /\ attached' = attached
    BY <1>1, <1>2, <1>3, <2>1, ContainerWork
  <2>3. Unharmed' => attached'[<<t, s>>] \subseteq r.tried /\ \A n \in Nodes \ {f, t} : Bare(n, s)'
    BY <1>1, <1>2, <2>2 DEF JobLeaves, ClaimedStages, Keeps
  <2>4. CASE Fail(m)
    BY <1>1, <1>3, <2>2, <2>3, <2>4, CallFails DEF ClaimedStages, Keeps
  <2>5. CASE Enter(m, "createDatabases") /\ outcome = "ok"
    <3>1. PICK q \in Job : mover' = [mover EXCEPT ![m] = q] /\ q.stage = "createDatabases" /\ SameJob(q, r)
      BY <2>5, Entered DEF Moves, Stages, ClaimedStages
    <3>2. /\ q.s = s /\ q.from = f /\ q.to = t /\ q.port = r.port /\ q.prev = r.prev
          /\ q.databases = r.databases /\ q.tried = r.tried
      BY <1>2, <3>1 DEF SameJob
    <3>3. JobKnows(q)'
      BY <1>1, <1>2, <1>3, <2>1, <2>2, <2>5, <3>1, <3>2
         DEF Keeps, JobKnows, PriorStages, CleanStages, ClaimedStages, BuiltStages
    <3>4. JobLeaves(q)'
      BY <1>1, <1>2, <2>2, <2>3, <3>1, <3>2
         DEF Keeps, JobLeaves, PriorStages, ClaimedStages
    <3>. QED BY <2>2, <3>1, <3>2, <3>3, <3>4, GoesOn DEF Keeps
  <2>. QED BY <1>5, <2>4, <2>5
<1>. QED BY <1>2, <1>4, <1>5 DEF CreateOnTarget, Moves

LEMMA CreateDatabasesAdvances ==
  ASSUME NEW m \in Movers, NEW r \in Job, NEW s \in Servers, NEW f \in Nodes, NEW t \in Nodes,
         Moves(m, r, s, f, t), CreateDatabases(m)
  PROVE  SagaTypes' /\ Advances(m)
<1>1. r.stage = "createDatabases" /\ UNCHANGED <<servers, container, requests, claims, dbNode>>
  BY DEF CreateDatabases, Stage, Moves
<1>2. /\ f # t /\ r.s = s /\ r.from = f /\ r.to = t /\ JobKnows(r) /\ JobLeaves(r) /\ RowKept(s)
  BY MovesFacts DEF Moves, RowSound
<1>3. /\ servers[s].node = f /\ dbNode[s] \in {None, f} /\ container[<<t, s>>] # "none"
      /\ (r.databases <=> dbNode[s] # None)
      /\ (r.databases => "backups" \in attached[<<t, s>>])
      /\ (Unharmed /\ r.databases => "databases" \in r.tried)
  BY <1>1, <1>2 DEF JobKnows, JobLeaves, ClaimedStages, CleanStages, PriorStages, BuiltStages
<1>. DEFINE items == attached[<<t, s>>] \cup {"databases"}
<1>4. PICK outcome \in Outcomes :
        /\ Keeps(s, f, t) /\ UNCHANGED container
        /\ IF outcome = "ok" THEN Enter(m, "power") ELSE Fail(m)
        /\ attached'[<<t, s>>] \in {attached[<<t, s>>], items}
        /\ outcome = "ok" /\ r.databases => attached'[<<t, s>>] = items
        /\ ~r.databases => attached'[<<t, s>>] = attached[<<t, s>>]
  <2>1. CASE ~r.databases
    <3>1. Enter(m, "power") /\ UNCHANGED <<servers, agents, requests, claims, dbNode, attached>>
      BY <1>1, <2>1 DEF CreateDatabases, agents, Moves
    <3>2. Keeps(s, f, t) /\ UNCHANGED <<container, attached>>
      BY <3>1, Quiet DEF Keeps
    <3>. QED BY <2>1, <3>1, <3>2 DEF Outcomes
  <2>2. CASE r.databases
    <3>1. PICK outcome \in Outcomes :
            AttachedCall(t, s, outcome, items) /\ IF outcome = "ok" THEN Enter(m, "power") ELSE Fail(m)
      BY <1>2, <2>2 DEF CreateDatabases, Moves
    <3>2. items \in SUBSET Attachments
      BY DEF Moves, SagaTypes, JobsOK, Attachments
    <3>3. /\ AttachedDone(t, s) /\ attached'[<<t, s>>] \in {attached[<<t, s>>], items}
          /\ outcome = "ok" => attached'[<<t, s>>] = items
      <4>. HIDE DEF items
      <4>. QED BY <1>1, <3>1, <3>2, AttachedEffect DEF Moves
    <3>4. Keeps(s, f, t)
      <4>1. t \in {f, t} /\ t # servers[s].node /\ dbNode[s] # None
        BY <1>2, <1>3, <2>2
      <4>. QED BY <1>1, <3>3, <4>1, AttachedWork
    <3>. QED BY <1>1, <2>2, <3>1, <3>3, <3>4
  <2>. QED BY <2>1, <2>2
<1>5. Unharmed' => attached'[<<t, s>>] \subseteq r.tried /\ \A n \in Nodes \ {f, t} : Bare(n, s)'
  BY <1>1, <1>2, <1>3, <1>4 DEF JobLeaves, ClaimedStages, Keeps
<1>6. CASE Fail(m)
  BY <1>1, <1>3, <1>4, <1>5, <1>6, CallFails DEF ClaimedStages, Keeps
<1>7. CASE Enter(m, "power") /\ outcome = "ok"
  <2>1. PICK q \in Job : mover' = [mover EXCEPT ![m] = q] /\ q.stage = "power" /\ SameJob(q, r)
    BY <1>7, Entered DEF Moves, Stages, ClaimedStages
  <2>2. /\ q.s = s /\ q.from = f /\ q.to = t /\ q.port = r.port /\ q.prev = r.prev
        /\ q.databases = r.databases /\ q.tried = r.tried
    BY <1>2, <2>1 DEF SameJob
  <2>3. q.databases => Attachments \subseteq attached'[<<t, s>>]
    BY <1>3, <1>4, <1>7, <2>2 DEF Attachments
  <2>4. JobKnows(q)'
    BY <1>1, <1>2, <1>3, <1>4, <2>1, <2>2, <2>3
       DEF Keeps, JobKnows, PriorStages, CleanStages, ClaimedStages, BuiltStages, Attachments
  <2>5. JobLeaves(q)'
    BY <1>2, <1>5, <2>1, <2>2 DEF Keeps, JobLeaves, PriorStages, ClaimedStages
  <2>. QED BY <1>4, <2>1, <2>2, <2>4, <2>5, GoesOn DEF Keeps
<1>. QED BY <1>4, <1>6, <1>7

LEMMA RestorePowerAdvances ==
  ASSUME NEW m \in Movers, NEW r \in Job, NEW s \in Servers, NEW f \in Nodes, NEW t \in Nodes,
         Moves(m, r, s, f, t), RestorePower(m)
  PROVE  SagaTypes' /\ Advances(m)
<1>1. r.stage = "power" /\ UNCHANGED <<servers, requests, claims, dbNode, attached>>
  BY DEF RestorePower, Stage, Moves
<1>2. /\ f # t /\ r.s = s /\ r.from = f /\ r.to = t /\ JobKnows(r) /\ JobLeaves(r) /\ RowKept(s)
  BY MovesFacts DEF Moves, RowSound
<1>3. /\ servers[s].node = f /\ dbNode[s] \in {None, f} /\ container[<<t, s>>] # "none"
      /\ (r.databases <=> dbNode[s] # None)
  BY <1>1, <1>2 DEF JobKnows, ClaimedStages, CleanStages, PriorStages, BuiltStages
<1>4. /\ Keeps(s, f, t) /\ container'[<<t, s>>] # "none"
      /\ Fail(m) \/ Enter(m, "databaseRows")
  <2>1. CASE UNCHANGED agents /\ Enter(m, "databaseRows")
    BY <1>1, <1>3, <2>1, Quiet DEF Keeps
  <2>2. ASSUME NEW outcome \in Outcomes, StartCall(t, s, outcome),
               IF outcome = "ok" THEN Enter(m, "databaseRows") ELSE Fail(m)
        PROVE  /\ Keeps(s, f, t) /\ container'[<<t, s>>] # "none"
               /\ Fail(m) \/ Enter(m, "databaseRows")
    <3>1. ContainerDone(t, s) /\ (container'[<<t, s>>] = "none" <=> container[<<t, s>>] = "none")
      BY <2>2, StartEffect DEF Moves
    <3>2. t \in {f, t} /\ t # servers[s].node
      BY <1>2, <1>3
    <3>. QED BY <1>1, <1>3, <2>2, <3>1, <3>2, ContainerWork
  <2>. QED BY <1>2, <2>1, <2>2 DEF RestorePower, Moves
<1>5. Unharmed' => attached'[<<t, s>>] \subseteq r.tried /\ \A n \in Nodes \ {f, t} : Bare(n, s)'
  BY <1>1, <1>2, <1>4 DEF JobLeaves, ClaimedStages, Keeps
<1>6. CASE Fail(m)
  BY <1>1, <1>3, <1>4, <1>5, <1>6, CallFails DEF ClaimedStages, Keeps
<1>7. CASE Enter(m, "databaseRows")
  <2>1. PICK q \in Job : mover' = [mover EXCEPT ![m] = q] /\ q.stage = "databaseRows" /\ SameJob(q, r)
    BY <1>7, Entered DEF Moves, Stages, ClaimedStages
  <2>2. /\ q.s = s /\ q.from = f /\ q.to = t /\ q.port = r.port /\ q.prev = r.prev
        /\ q.databases = r.databases /\ q.tried = r.tried
    BY <1>2, <2>1 DEF SameJob
  <2>3. JobKnows(q)'
    BY <1>1, <1>2, <1>3, <1>4, <2>1, <2>2
       DEF Keeps, JobKnows, PriorStages, CleanStages, ClaimedStages, BuiltStages
  <2>4. JobLeaves(q)'
    BY <1>2, <1>5, <2>1, <2>2 DEF Keeps, JobLeaves, PriorStages, ClaimedStages
  <2>. QED BY <1>4, <2>1, <2>2, <2>3, <2>4, GoesOn DEF Keeps
<1>. QED BY <1>4, <1>6, <1>7

-----------------------------------------------------------------------------
(* The commit, and the rows of the databases on both sides of it.          *)

\* The rows of the databases move to a node; nothing else changes.
LEMMA RowsMove ==
  ASSUME NEW m \in Movers, NEW r \in Job, NEW s \in Servers, NEW f \in Nodes, NEW t \in Nodes,
         Moves(m, r, s, f, t), Lock(s) = "transferring", NEW n \in Nodes, MoveDatabaseRows(s, n),
         UNCHANGED <<servers, agents, requests, claims, attached>>
  PROVE  /\ Work(s) /\ UNCHANGED <<servers, container, attached, faults, crashes>>
         /\ dbNode'[s] \in {None, n} /\ (dbNode'[s] = None <=> dbNode[s] = None)
         /\ Lock(s)' = Lock(s) /\ (Unharmed' <=> Unharmed)
         /\ \A k \in Nodes : Bare(k, s)' <=> Bare(k, s)
<1>1. UNCHANGED <<servers, container, attached, faults, crashes>>
  BY DEF agents, claims
<1>2. Lock(s)' = Lock(s) /\ (Unharmed' <=> Unharmed) /\ \A k \in Nodes : Bare(k, s)' <=> Bare(k, s)
  BY <1>1 DEF Lock, HasStatus, Exists, Unharmed, Bare
<1>3. /\ dbNode' \in [Servers -> Nodes \cup {None}]
      /\ dbNode'[s] \in {None, n} /\ (dbNode'[s] = None <=> dbNode[s] = None)
      /\ \A u \in Servers \ {s} : dbNode'[u] = dbNode[u]
  BY NoJobAssumption DEF MoveDatabaseRows, Moves, SagaTypes, JobsOK
<1>4. RowKept(s)'
  BY <1>1, <1>2, <1>3, MovesFacts DEF RowSound, RowKept
<1>5. Spares(s)
  BY <1>1, <1>3 DEF Spares
<1>. QED BY <1>1, <1>2, <1>3, <1>4, <1>5, Counters DEF Work, Moves, SagaTypes, JobsOK, AgentsOK

LEMMA FinalizeDatabasesAdvances ==
  ASSUME NEW m \in Movers, NEW r \in Job, NEW s \in Servers, NEW f \in Nodes, NEW t \in Nodes,
         Moves(m, r, s, f, t), FinalizeDatabases(m)
  PROVE  SagaTypes' /\ Advances(m)
<1>1. /\ r.stage = "databaseRows" /\ UNCHANGED <<servers, agents, requests, claims, attached>>
      /\ MoveDatabaseRows(s, t) /\ Enter(m, "commit")
  BY DEF FinalizeDatabases, Stage, Moves
<1>2. /\ f # t /\ r.s = s /\ r.from = f /\ r.to = t /\ JobKnows(r) /\ JobLeaves(r)
  BY MovesFacts DEF Moves
<1>3. Lock(s) = "transferring"
  BY <1>1, <1>2 DEF JobKnows, ClaimedStages
<1>4. /\ Work(s) /\ UNCHANGED <<servers, container, attached, faults, crashes>>
      /\ dbNode'[s] \in {None, t} /\ (dbNode'[s] = None <=> dbNode[s] = None)
      /\ Lock(s)' = Lock(s) /\ (Unharmed' <=> Unharmed)
      /\ \A k \in Nodes : Bare(k, s)' <=> Bare(k, s)
  BY <1>1, <1>3, RowsMove
<1>5. PICK q \in Job : mover' = [mover EXCEPT ![m] = q] /\ q.stage = "commit" /\ SameJob(q, r)
  BY <1>1, Entered DEF Moves, Stages, ClaimedStages
<1>6. /\ q.s = s /\ q.from = f /\ q.to = t /\ q.port = r.port /\ q.prev = r.prev
      /\ q.databases = r.databases /\ q.tried = r.tried
  BY <1>2, <1>5 DEF SameJob
<1>7. JobKnows(q)'
  BY <1>1, <1>2, <1>4, <1>5, <1>6
     DEF JobKnows, PriorStages, CleanStages, ClaimedStages, BuiltStages
<1>8. JobLeaves(q)'
  BY <1>1, <1>2, <1>4, <1>5, <1>6 DEF JobLeaves, PriorStages, ClaimedStages
<1>. QED BY <1>4, <1>5, <1>6, <1>7, <1>8, GoesOn

LEMMA CommitAdvances ==
  ASSUME NEW m \in Movers, NEW r \in Job, NEW s \in Servers, NEW f \in Nodes, NEW t \in Nodes,
         Moves(m, r, s, f, t), Commit(m)
  PROVE  SagaTypes' /\ Advances(m)
<1>1. r.stage = "commit" /\ UNCHANGED <<agents, requests, claims, attached>>
  BY DEF Commit, Stage, Moves
<1>2. /\ f # t /\ r.s = s /\ r.from = f /\ r.to = t /\ JobKnows(r) /\ JobLeaves(r) /\ RowKept(s)
  BY MovesFacts DEF Moves, RowSound
<1>3. /\ servers[s].node = f /\ Lock(s) = "transferring" /\ container[<<t, s>>] # "none"
      /\ r.port \in Ports /\ r.prev \in Stable /\ (r.databases <=> dbNode[s] # None)
      /\ (r.databases => Attachments \subseteq attached[<<t, s>>])
  BY <1>1, <1>2 DEF JobKnows, ClaimedStages, CleanStages, PriorStages, BuiltStages, Attachments
<1>4. /\ UNCHANGED <<container, attached, faults, crashes>> /\ (Unharmed' <=> Unharmed)
      /\ \A n \in Nodes : Bare(n, s)' <=> Bare(n, s)
  BY <1>1 DEF agents, claims, Unharmed, Bare
<1>5. CASE UNCHANGED <<servers, dbNode>> /\ Enter(m, "databaseRowsBack")
  <2>1. Work(s) /\ Lock(s)' = Lock(s)
    BY <1>1, <1>5, Quiet
  <2>2. PICK q \in Job : mover' = [mover EXCEPT ![m] = q] /\ q.stage = "databaseRowsBack" /\ SameJob(q, r)
    BY <1>5, Entered DEF Moves, Stages, ClaimedStages
  <2>3. /\ q.s = s /\ q.from = f /\ q.to = t /\ q.port = r.port /\ q.prev = r.prev
        /\ q.databases = r.databases /\ q.tried = r.tried
    BY <1>2, <2>2 DEF SameJob
  <2>4. JobKnows(q)'
    BY <1>1, <1>2, <1>3, <1>4, <1>5, <2>1, <2>2, <2>3
       DEF JobKnows, PriorStages, CleanStages, ClaimedStages, BuiltStages
  <2>5. JobLeaves(q)'
    BY <1>1, <1>2, <1>4, <2>2, <2>3 DEF JobLeaves, PriorStages, ClaimedStages
  <2>. QED BY <2>1, <2>2, <2>3, <2>4, <2>5, GoesOn
<1>6. CASE /\ FinalizeTransfer(s, t, r.port, r.prev) /\ MoveDatabaseRows(s, t)
           /\ Enter(m, "cleanDatabases")
  <2>1. servers \in [Servers -> Row] /\ servers[s] \in Row
    BY AllExist DEF SagaTypes, Moves
  <2>2. PICK row \in Row : /\ servers' = [servers EXCEPT ![s] = row]
                           /\ row.node = t /\ row.status = r.prev
    <3>. DEFINE row == [servers[s] EXCEPT !.node = t, !.port = r.port, !.status = r.prev]
    <3>1. row \in Row /\ row.node = t /\ row.status = r.prev
      BY <1>3, <2>1 DEF Row, Statuses
    <3>2. servers' = [servers EXCEPT ![s] = row]
      BY <1>6 DEF FinalizeTransfer
    <3>. QED BY <3>1, <3>2
  <2>3. servers' \in [Servers -> Row] /\ servers'[s] = row /\ \A u \in Servers \ {s} : servers'[u] = servers[u]
    BY <2>1, <2>2
  <2>4. Lock(s)' = "none"
    BY <1>3, <2>2, <2>3 DEF Lock, HasStatus, Stable, Transitional
  <2>5. /\ dbNode' \in [Servers -> Nodes \cup {None}]
        /\ dbNode'[s] \in {None, t} /\ (dbNode'[s] = None <=> dbNode[s] = None)
        /\ \A u \in Servers \ {s} : dbNode'[u] = dbNode[u]
    BY <1>6, NoJobAssumption DEF MoveDatabaseRows, Moves, SagaTypes, JobsOK
  <2>6. RowKept(s)'
    BY <1>2, <1>3, <1>4, <2>2, <2>3, <2>5 DEF RowKept
  <2>7. Spares(s)
    BY <1>4, <2>3, <2>5 DEF Spares
  <2>8. Work(s)
    BY <1>1, <1>4, <2>3, <2>5, <2>6, <2>7, Counters DEF Work, Moves, SagaTypes, JobsOK, AgentsOK
  <2>9. PICK q \in Job : mover' = [mover EXCEPT ![m] = q] /\ q.stage = "cleanDatabases" /\ SameJob(q, r)
    BY <1>6, Entered DEF Moves, Stages, OtherStages
  <2>10. q.s = s /\ q.from = f /\ q.to = t /\ q.databases = r.databases
    BY <1>2, <2>9 DEF SameJob
  <2>11. JobKnows(q)'
    BY <1>2, <1>3, <2>2, <2>3, <2>5, <2>9, <2>10
       DEF JobKnows, PriorStages, CleanStages, ClaimedStages, BuiltStages
  <2>12. JobLeaves(q)'
    BY <1>2, <1>4, <2>9, <2>10 DEF JobLeaves, PriorStages, ClaimedStages
  <2>. QED BY <2>8, <2>9, <2>10, <2>11, <2>12, GoesOn
<1>. QED BY <1>2, <1>5, <1>6 DEF Commit, Moves

LEMMA RestoreDatabasesAdvances ==
  ASSUME NEW m \in Movers, NEW r \in Job, NEW s \in Servers, NEW f \in Nodes, NEW t \in Nodes,
         Moves(m, r, s, f, t), RestoreDatabases(m)
  PROVE  SagaTypes' /\ Advances(m)
<1>1. /\ r.stage = "databaseRowsBack" /\ UNCHANGED <<servers, agents, requests, claims, attached>>
      /\ MoveDatabaseRows(s, f) /\ Fail(m)
  BY DEF RestoreDatabases, Stage, Moves
<1>2. /\ f # t /\ r.s = s /\ r.from = f /\ r.to = t /\ JobKnows(r) /\ JobLeaves(r)
  BY MovesFacts DEF Moves
<1>3. Lock(s) = "transferring"
  BY <1>1, <1>2 DEF JobKnows, ClaimedStages
<1>4. /\ Work(s) /\ UNCHANGED <<servers, container, attached, faults, crashes>>
      /\ dbNode'[s] \in {None, f} /\ (dbNode'[s] = None <=> dbNode[s] = None)
      /\ (Unharmed' <=> Unharmed)
      /\ \A k \in Nodes : Bare(k, s)' <=> Bare(k, s)
  BY <1>1, <1>3, RowsMove
<1>5. Unharmed' => attached'[<<t, s>>] \subseteq r.tried /\ \A n \in Nodes \ {f, t} : Bare(n, s)'
  BY <1>1, <1>2, <1>4 DEF JobLeaves, ClaimedStages
<1>. QED BY <1>1, <1>4, <1>5, CallFails DEF ClaimedStages

-----------------------------------------------------------------------------
(* After the commit: the source is cleaned.                                *)

LEMMA CleanDatabasesAdvances ==
  ASSUME NEW m \in Movers, NEW r \in Job, NEW s \in Servers, NEW f \in Nodes, NEW t \in Nodes,
         Moves(m, r, s, f, t), CleanDatabases(m)
  PROVE  SagaTypes' /\ Advances(m)
<1>1. /\ r.stage = "cleanDatabases" /\ UNCHANGED <<servers, container, requests, claims, dbNode>>
      /\ Enter(m, "cleanServer")
  BY DEF CleanDatabases, Stage, Moves
<1>2. /\ f # t /\ r.s = s /\ r.from = f /\ r.to = t /\ JobKnows(r) /\ JobLeaves(r) /\ RowKept(s)
  BY MovesFacts DEF Moves, RowSound
<1>3. servers[s].node = t /\ (r.databases <=> dbNode[s] # None)
  BY <1>1, <1>2 DEF JobKnows, CleanStages, PriorStages
<1>. DEFINE items == attached[<<f, s>>] \ {"databases"}
<1>4. Keeps(s, f, t) /\ (Unharmed' => "databases" \notin attached'[<<f, s>>])
  <2>1. CASE ~r.databases
    <3>1. UNCHANGED <<servers, agents, requests, claims, dbNode, attached>>
      BY <1>1, <2>1 DEF CleanDatabases, agents, Moves
    <3>2. Keeps(s, f, t) /\ UNCHANGED attached
      BY <3>1, Quiet DEF Keeps
    <3>. QED BY <1>2, <1>3, <2>1, <3>2 DEF RowKept
  <2>2. CASE r.databases
    <3>1. PICK outcome \in Outcomes : AttachedCall(f, s, outcome, items)
      BY <1>2, <2>2 DEF CleanDatabases, Moves
    <3>2. items \in SUBSET Attachments
      BY DEF Moves, SagaTypes, JobsOK
    <3>3. /\ AttachedDone(f, s) /\ (outcome # "ok" => faults' # 0)
          /\ outcome = "ok" => attached'[<<f, s>>] = items
      <4>. HIDE DEF items
      <4>. QED BY <1>1, <3>1, <3>2, AttachedEffect DEF Moves
    <3>4. Keeps(s, f, t)
      <4>1. f \in {f, t} /\ f # servers[s].node /\ dbNode[s] # None
        BY <1>2, <1>3, <2>2
      <4>. QED BY <1>1, <3>3, <4>1, AttachedWork
    <3>. QED BY <3>3, <3>4 DEF Unharmed
  <2>. QED BY <2>1, <2>2
<1>5. PICK q \in Job : mover' = [mover EXCEPT ![m] = q] /\ q.stage = "cleanServer" /\ SameJob(q, r)
  BY <1>1, Entered DEF Moves, Stages, OtherStages
<1>6. q.s = s /\ q.from = f /\ q.to = t /\ q.databases = r.databases
  BY <1>2, <1>5 DEF SameJob
<1>7. JobKnows(q)'
  BY <1>2, <1>3, <1>4, <1>5, <1>6
     DEF Keeps, JobKnows, PriorStages, CleanStages, ClaimedStages, BuiltStages
<1>8. JobLeaves(q)'
  BY <1>2, <1>4, <1>5, <1>6 DEF Keeps, JobLeaves, PriorStages, ClaimedStages
<1>. QED BY <1>4, <1>5, <1>6, <1>7, <1>8, GoesOn DEF Keeps

LEMMA CleanServerAdvances ==
  ASSUME NEW m \in Movers, NEW r \in Job, NEW s \in Servers, NEW f \in Nodes, NEW t \in Nodes,
         Moves(m, r, s, f, t), CleanServer(m)
  PROVE  SagaTypes' /\ Advances(m)
<1>1. PICK outcome \in Outcomes :
        /\ r.stage = "cleanServer" /\ UNCHANGED <<servers, requests, claims, dbNode, attached>>
        /\ AgentCall(f, s, outcome, "none") /\ Enter(m, "cleanBackups")
  BY DEF CleanServer, Stage, Moves
<1>2. /\ f # t /\ r.s = s /\ r.from = f /\ r.to = t /\ JobKnows(r) /\ JobLeaves(r)
  BY MovesFacts DEF Moves
<1>3. servers[s].node = t /\ (r.databases <=> dbNode[s] # None)
  BY <1>1, <1>2 DEF JobKnows, CleanStages, PriorStages
<1>4. /\ ContainerDone(f, s) /\ (outcome # "ok" => faults' # 0)
      /\ outcome = "ok" => container'[<<f, s>>] = "none"
  BY <1>1, CallEffect DEF Moves, ContainerStates
<1>5. Keeps(s, f, t) /\ (Unharmed' => container'[<<f, s>>] = "none")
  <2>1. f \in {f, t} /\ f # servers[s].node
    BY <1>2, <1>3
  <2>. QED BY <1>1, <1>4, <2>1, ContainerWork DEF Unharmed
<1>6. PICK q \in Job : mover' = [mover EXCEPT ![m] = q] /\ q.stage = "cleanBackups" /\ SameJob(q, r)
  BY <1>1, Entered DEF Moves, Stages, OtherStages
<1>7. q.s = s /\ q.from = f /\ q.to = t /\ q.databases = r.databases
  BY <1>2, <1>6 DEF SameJob
<1>8. JobKnows(q)'
  BY <1>2, <1>3, <1>5, <1>6, <1>7
     DEF Keeps, JobKnows, PriorStages, CleanStages, ClaimedStages, BuiltStages
<1>9. JobLeaves(q)'
  BY <1>1, <1>2, <1>5, <1>6, <1>7 DEF Keeps, JobLeaves, PriorStages, ClaimedStages
<1>. QED BY <1>5, <1>6, <1>7, <1>8, <1>9, GoesOn DEF Keeps

LEMMA CleanBackupsAdvances ==
  ASSUME NEW m \in Movers, NEW r \in Job, NEW s \in Servers, NEW f \in Nodes, NEW t \in Nodes,
         Moves(m, r, s, f, t), CleanBackups(m)
  PROVE  SagaTypes' /\ Advances(m)
<1>. DEFINE items == attached[<<f, s>>] \ {"backups"}
<1>1. PICK outcome \in Outcomes :
        /\ r.stage = "cleanBackups" /\ UNCHANGED <<servers, container, requests, claims, dbNode>>
        /\ AttachedCall(f, s, outcome, items) /\ EndJob(m)
  BY DEF CleanBackups, Stage, Moves
<1>2. /\ f # t /\ r.s = s /\ r.from = f /\ r.to = t /\ JobKnows(r) /\ JobLeaves(r) /\ RowKept(s)
  BY MovesFacts DEF Moves, RowSound
<1>3. servers[s].node = t
  BY <1>1, <1>2 DEF JobKnows, CleanStages
<1>4. items \in SUBSET Attachments /\ (dbNode[s] = None => attached[<<f, s>>] = {})
  BY <1>2 DEF Moves, SagaTypes, JobsOK, RowKept
<1>5. /\ AttachedDone(f, s) /\ (outcome # "ok" => faults' # 0)
      /\ attached'[<<f, s>>] \in {attached[<<f, s>>], items}
      /\ outcome = "ok" => attached'[<<f, s>>] = items
  <2>. HIDE DEF items
  <2>. QED BY <1>1, <1>4, AttachedEffect DEF Moves
<1>6. Keeps(s, f, t)
  <2>1. f \in {f, t} /\ f # servers[s].node /\ (dbNode[s] = None => attached'[<<f, s>>] = {})
    BY <1>2, <1>3, <1>4, <1>5
  <2>. QED BY <1>1, <1>5, <2>1, AttachedWork
<1>7. ASSUME Unharmed', NEW n \in Nodes \ {t}
      PROVE  Bare(n, s)'
  <2>1. outcome = "ok" /\ Unharmed
    BY <1>5, <1>6, <1>7 DEF Unharmed, Keeps
  <2>2. CASE n = f
    <3>1. container'[<<f, s>>] = "none" /\ "databases" \notin attached[<<f, s>>]
      BY <1>1, <1>2, <2>1 DEF JobLeaves
    <3>2. attached'[<<f, s>>] = {}
      BY <1>4, <1>5, <2>1, <3>1 DEF Attachments
    <3>. QED BY <2>2, <3>1, <3>2 DEF Bare
  <2>3. CASE n # f
    BY <1>2, <1>6, <2>1, <2>3 DEF JobLeaves, Keeps
  <2>. QED BY <2>2, <2>3
<1>. QED BY <1>1, <1>3, <1>6, <1>7, GoesOff DEF Keeps

-----------------------------------------------------------------------------
(* The catch block: the target is cleaned, the row given back.             *)

\* What the roll-back still finds of the claim.
RollStages == {"rollDatabases", "rollServer", "rollBackups", "restartSource", "restore"}

LEMMA RollFacts ==
  ASSUME NEW m \in Movers, NEW r \in Job, NEW s \in Servers, NEW f \in Nodes, NEW t \in Nodes,
         Moves(m, r, s, f, t), r.stage \in RollStages
  PROVE  /\ f # t /\ r.s = s /\ r.from = f /\ r.to = t /\ JobLeaves(r) /\ RowKept(s)
         /\ servers[s].node = f /\ Lock(s) = "transferring" /\ r.prev \in Stable /\ r.port \in Ports
         /\ dbNode[s] \in {None, f} /\ (r.databases <=> dbNode[s] # None)
<1>1. f # t /\ r.s = s /\ r.from = f /\ r.to = t /\ JobKnows(r) /\ JobLeaves(r) /\ RowKept(s)
  BY MovesFacts DEF Moves, RowSound
<1>2. /\ servers[s].node = f /\ Lock(s) = "transferring" /\ r.prev \in Stable /\ r.port \in Ports
      /\ dbNode[s] \in {None, f} /\ (r.databases <=> dbNode[s] # None)
  BY <1>1 DEF RollStages, JobKnows, ClaimedStages, CleanStages, PriorStages
<1>. QED BY <1>1, <1>2

\* A roll-back that goes on keeps what it found.
LEMMA RollsOn ==
  ASSUME NEW m \in Movers, NEW r \in Job, NEW s \in Servers, NEW f \in Nodes, NEW t \in Nodes,
         Moves(m, r, s, f, t), r.stage \in RollStages, Keeps(s, f, t),
         NEW stage \in RollStages \ {"rollDatabases"}, Enter(m, stage),
         Unharmed' =>
           /\ attached'[<<t, s>>] \subseteq r.tried /\ "databases" \notin attached'[<<t, s>>]
           /\ stage # "rollServer" => container'[<<t, s>>] = "none"
           /\ stage \in {"restartSource", "restore"} => attached'[<<t, s>>] = {}
  PROVE  SagaTypes' /\ Advances(m)
<1>1. /\ f # t /\ r.s = s /\ r.from = f /\ r.to = t /\ JobLeaves(r) /\ RowKept(s)
      /\ servers[s].node = f /\ Lock(s) = "transferring" /\ r.prev \in Stable /\ r.port \in Ports
      /\ dbNode[s] \in {None, f} /\ (r.databases <=> dbNode[s] # None)
  BY RollFacts
<1>2. PICK q \in Job : mover' = [mover EXCEPT ![m] = q] /\ q.stage = stage /\ SameJob(q, r)
  BY Entered DEF Moves, Stages, ClaimedStages, RollStages
<1>3. /\ q.s = s /\ q.from = f /\ q.to = t /\ q.port = r.port /\ q.prev = r.prev
      /\ q.databases = r.databases /\ q.tried = r.tried
  BY <1>1, <1>2 DEF SameJob
<1>4. JobKnows(q)'
  BY <1>1, <1>2, <1>3
     DEF Keeps, RollStages, JobKnows, PriorStages, CleanStages, ClaimedStages, BuiltStages
<1>5. JobLeaves(q)'
  BY <1>1, <1>2, <1>3 DEF Keeps, RollStages, JobLeaves, PriorStages, ClaimedStages
<1>. QED BY <1>2, <1>3, <1>4, <1>5, GoesOn DEF Keeps

LEMMA RollDatabasesAdvances ==
  ASSUME NEW m \in Movers, NEW r \in Job, NEW s \in Servers, NEW f \in Nodes, NEW t \in Nodes,
         Moves(m, r, s, f, t), RollDatabases(m)
  PROVE  SagaTypes' /\ Advances(m)
<1>. DEFINE items == attached[<<t, s>>] \ {"databases"}
<1>1. PICK outcome \in Outcomes :
        /\ r.stage = "rollDatabases" /\ UNCHANGED <<servers, container, requests, claims, dbNode>>
        /\ AttachedCall(t, s, outcome, items) /\ Enter(m, "rollServer")
  BY MovesFacts DEF RollDatabases, Stage, Moves
<1>2. /\ f # t /\ servers[s].node = f /\ r.s = s /\ r.to = t /\ JobLeaves(r) /\ RowKept(s)
  BY <1>1, RollFacts DEF RollStages
<1>3. items \in SUBSET Attachments /\ (dbNode[s] = None => attached[<<t, s>>] = {})
  BY <1>2 DEF Moves, SagaTypes, JobsOK, RowKept
<1>4. /\ AttachedDone(t, s) /\ (outcome # "ok" => faults' # 0)
      /\ attached'[<<t, s>>] \in {attached[<<t, s>>], items}
      /\ outcome = "ok" => attached'[<<t, s>>] = items
  <2>. HIDE DEF items
  <2>. QED BY <1>1, <1>3, AttachedEffect DEF Moves
<1>5. Keeps(s, f, t)
  <2>1. t \in {f, t} /\ t # servers[s].node /\ (dbNode[s] = None => attached'[<<t, s>>] = {})
    BY <1>2, <1>3, <1>4
  <2>. QED BY <1>1, <1>4, <2>1, AttachedWork
<1>6. Unharmed' => attached'[<<t, s>>] \subseteq r.tried /\ "databases" \notin attached'[<<t, s>>]
  BY <1>1, <1>2, <1>4, <1>5 DEF JobLeaves, ClaimedStages, Unharmed, Keeps
<1>7. r.stage \in RollStages /\ "rollServer" \in RollStages \ {"rollDatabases"}
  BY <1>1 DEF RollStages
<1>. QED BY <1>1, <1>5, <1>6, <1>7, RollsOn

LEMMA RollServerAdvances ==
  ASSUME NEW m \in Movers, NEW r \in Job, NEW s \in Servers, NEW f \in Nodes, NEW t \in Nodes,
         Moves(m, r, s, f, t), RollServer(m)
  PROVE  SagaTypes' /\ Advances(m)
<1>1. PICK outcome \in Outcomes :
        /\ r.stage = "rollServer" /\ UNCHANGED <<servers, requests, claims, dbNode, attached>>
        /\ AgentCall(t, s, outcome, "none") /\ Enter(m, AfterRollServer(m))
  BY DEF RollServer, Stage, Moves
<1>2. /\ f # t /\ servers[s].node = f /\ r.s = s /\ r.to = t /\ JobLeaves(r)
  BY <1>1, RollFacts DEF RollStages
<1>3. /\ ContainerDone(t, s) /\ (outcome # "ok" => faults' # 0)
      /\ outcome = "ok" => container'[<<t, s>>] = "none"
  BY <1>1, CallEffect DEF Moves, ContainerStates
<1>4. Keeps(s, f, t) /\ (Unharmed' => container'[<<t, s>>] = "none")
  <2>1. t \in {f, t} /\ t # servers[s].node
    BY <1>2
  <2>. QED BY <1>1, <1>3, <2>1, ContainerWork DEF Unharmed
<1>5. PICK stage \in {"rollBackups", "restartSource"} :
        Enter(m, stage) /\ (stage = "restartSource" => "backups" \notin r.tried)
  BY <1>1 DEF AfterRollServer, Moves
<1>6. Unharmed' => /\ attached'[<<t, s>>] \subseteq r.tried /\ "databases" \notin attached'[<<t, s>>]
                   /\ stage = "restartSource" => attached'[<<t, s>>] = {}
  <2>1. attached' = attached /\ attached[<<t, s>>] \subseteq Attachments
    BY <1>1 DEF Moves, SagaTypes, JobsOK
  <2>2. Unharmed' => attached[<<t, s>>] \subseteq r.tried /\ "databases" \notin attached[<<t, s>>]
    BY <1>1, <1>2, <1>4 DEF JobLeaves, ClaimedStages, Keeps
  <2>. QED BY <1>5, <2>1, <2>2 DEF Attachments
<1>. QED BY <1>1, <1>4, <1>5, <1>6, RollsOn DEF RollStages

LEMMA RollBackupsAdvances ==
  ASSUME NEW m \in Movers, NEW r \in Job, NEW s \in Servers, NEW f \in Nodes, NEW t \in Nodes,
         Moves(m, r, s, f, t), RollBackups(m)
  PROVE  SagaTypes' /\ Advances(m)
<1>. DEFINE items == attached[<<t, s>>] \ {"backups"}
<1>1. PICK outcome \in Outcomes :
        /\ r.stage = "rollBackups" /\ UNCHANGED <<servers, container, requests, claims, dbNode>>
        /\ AttachedCall(t, s, outcome, items) /\ Enter(m, "restartSource")
  BY DEF RollBackups, Stage, Moves
<1>2. /\ f # t /\ servers[s].node = f /\ r.s = s /\ r.to = t /\ JobLeaves(r) /\ RowKept(s)
  BY <1>1, RollFacts DEF RollStages
<1>3. items \in SUBSET Attachments /\ (dbNode[s] = None => attached[<<t, s>>] = {})
  BY <1>2 DEF Moves, SagaTypes, JobsOK, RowKept
<1>4. /\ AttachedDone(t, s) /\ (outcome # "ok" => faults' # 0)
      /\ attached'[<<t, s>>] \in {attached[<<t, s>>], items}
      /\ outcome = "ok" => attached'[<<t, s>>] = items
  <2>. HIDE DEF items
  <2>. QED BY <1>1, <1>3, AttachedEffect DEF Moves
<1>5. Keeps(s, f, t)
  <2>1. t \in {f, t} /\ t # servers[s].node /\ (dbNode[s] = None => attached'[<<t, s>>] = {})
    BY <1>2, <1>3, <1>4
  <2>. QED BY <1>1, <1>4, <2>1, AttachedWork
<1>6. Unharmed' => container'[<<t, s>>] = "none" /\ attached'[<<t, s>>] = {}
  <2>1. attached[<<t, s>>] \subseteq Attachments
    BY DEF Moves, SagaTypes, JobsOK
  <2>2. Unharmed' => container'[<<t, s>>] = "none" /\ "databases" \notin attached[<<t, s>>]
    BY <1>1, <1>2, <1>5 DEF JobLeaves, Keeps
  <2>3. Unharmed' => outcome = "ok"
    BY <1>4 DEF Unharmed
  <2>. QED BY <1>4, <2>1, <2>2, <2>3 DEF Attachments
<1>. QED BY <1>1, <1>5, <1>6, RollsOn DEF RollStages

LEMMA RestartSourceAdvances ==
  ASSUME NEW m \in Movers, NEW r \in Job, NEW s \in Servers, NEW f \in Nodes, NEW t \in Nodes,
         Moves(m, r, s, f, t), RestartSource(m)
  PROVE  SagaTypes' /\ Advances(m)
<1>1. /\ r.stage = "restartSource" /\ UNCHANGED <<servers, requests, claims, dbNode, attached>>
      /\ Enter(m, "restore")
  BY DEF RestartSource, Stage, Moves
<1>2. /\ f # t /\ servers[s].node = f /\ r.s = s /\ r.from = f /\ r.to = t /\ JobLeaves(r)
  BY <1>1, RollFacts DEF RollStages
<1>3. Keeps(s, f, t) /\ container'[<<t, s>>] = container[<<t, s>>]
  <2>1. CASE UNCHANGED agents
    <3>1. Work(s) /\ UNCHANGED <<servers, container, dbNode, attached, faults, crashes>>
          /\ Lock(s)' = Lock(s) /\ (Unharmed' <=> Unharmed)
          /\ \A n \in Nodes : Bare(n, s)' <=> Bare(n, s)
      BY <1>1, <2>1, Quiet
    <3>. QED BY <3>1 DEF Keeps
  <2>2. ASSUME NEW outcome \in Outcomes, StartCall(f, s, outcome)
        PROVE  Keeps(s, f, t) /\ container'[<<t, s>>] = container[<<t, s>>]
    <3>1. ContainerDone(f, s) /\ (container'[<<f, s>>] = "none" <=> container[<<f, s>>] = "none")
      BY <2>2, StartEffect DEF Moves
    <3>2. f \in {f, t}
      OBVIOUS
    <3>3. Keeps(s, f, t)
      BY <1>1, <3>1, <3>2, ContainerWork
    <3>. QED BY <1>2, <3>1, <3>3 DEF ContainerDone
  <2>. QED BY <1>2, <2>1, <2>2 DEF RestartSource, Moves
<1>4. Unharmed' => container'[<<t, s>>] = "none" /\ attached'[<<t, s>>] = {}
  BY <1>1, <1>2, <1>3 DEF JobLeaves, Keeps
<1>5. r.stage \in RollStages /\ "restore" \in RollStages \ {"rollDatabases"}
  BY <1>1 DEF RollStages
<1>. QED BY <1>1, <1>3, <1>4, <1>5, RollsOn

LEMMA RestoreServerAdvances ==
  ASSUME NEW m \in Movers, NEW r \in Job, NEW s \in Servers, NEW f \in Nodes, NEW t \in Nodes,
         Moves(m, r, s, f, t), RestoreServer(m)
  PROVE  SagaTypes' /\ Advances(m)
<1>1. /\ r.stage = "restore" /\ UNCHANGED <<agents, requests, claims, dbNode, attached>>
      /\ RestoreTransition(s, "transferring", r.prev) /\ EndJob(m)
  BY DEF RestoreServer, Stage, Moves
<1>2. /\ f # t /\ r.s = s /\ r.from = f /\ r.to = t /\ JobLeaves(r) /\ RowKept(s)
      /\ servers[s].node = f /\ Lock(s) = "transferring" /\ r.prev \in Stable
      /\ dbNode[s] \in {None, f}
  BY <1>1, RollFacts DEF RollStages
<1>3. /\ UNCHANGED <<container, attached, faults, crashes>> /\ (Unharmed' <=> Unharmed)
      /\ \A n \in Nodes : Bare(n, s)' <=> Bare(n, s)
  BY <1>1 DEF agents, claims, Unharmed, Bare
<1>4. servers \in [Servers -> Row] /\ servers[s] \in Row
  BY AllExist DEF SagaTypes, Moves
<1>5. /\ servers' \in [Servers -> Row] /\ servers'[s].node = f
      /\ \A u \in Servers \ {s} : servers'[u] = servers[u]
  BY <1>1, <1>2, <1>4 DEF RestoreTransition, Row, Statuses
<1>6. RowKept(s)'
  BY <1>1, <1>2, <1>3, <1>5 DEF RowKept
<1>7. Spares(s)
  BY <1>1, <1>3, <1>5 DEF Spares
<1>8. Work(s)
  BY <1>1, <1>3, <1>5, <1>6, <1>7, Counters DEF Work, Moves, SagaTypes, JobsOK, AgentsOK
<1>9. Unharmed => \A n \in Nodes \ {f} : Bare(n, s)
  BY <1>1, <1>2 DEF JobLeaves, Bare
<1>. QED BY <1>1, <1>3, <1>5, <1>8, <1>9, GoesOff

\* The death of a replica ends the job at any stage.
LEMMA CrashTransferAdvances ==
  ASSUME NEW m \in Movers, NEW r \in Job, NEW s \in Servers, NEW f \in Nodes, NEW t \in Nodes,
         Moves(m, r, s, f, t), CrashTransfer(m)
  PROVE  SagaTypes' /\ Advances(m)
<1>1. /\ EndJob(m) /\ crashes < MaxCrashes /\ crashes' = crashes + 1
      /\ stranded' \in {stranded, stranded \cup {s}}
      /\ UNCHANGED <<servers, container, faults, requests, dbNode, attached>>
  BY DEF CrashTransfer, agents, Moves
<1>2. /\ mover' \in [Movers -> Job \cup {None}] /\ mover'[m] = None
      /\ \A k \in Movers \ {m} : mover'[k] = mover[k]
  BY <1>1 DEF Moves, SagaTypes, JobsOK, EndJob
<1>3. SagaTypes'
  <2>1. HistoryOK'
    BY <1>1, BoundsAssumption DEF Moves, SagaTypes, HistoryOK, requests
  <2>. QED BY <1>1, <1>2, <2>1
         DEF Moves, SagaTypes, JobsOK, AgentsOK, HandlersOK, HandlerOK, requests
<1>4. Grows /\ ~Unharmed'
  BY <1>1, Counters DEF Moves, Grows, Unharmed
<1>5. Only(m, s)
  BY <1>1, <1>2, MovesFacts DEF Moves, Only, Spares
<1>6. RowSound(s)'
  BY <1>1, <1>4, MovesFacts DEF RowSound, RowKept, Lock, HasStatus, Exists
<1>. QED BY <1>2, <1>3, <1>4, <1>5, <1>6 DEF Advances, JobSound

-----------------------------------------------------------------------------
(* The theorems.                                                           *)

LEMMA SoundInit ==
  ASSUME TransferInit
  PROVE  SagaTypes /\ Sound
<1>1. /\ servers \in [Servers -> Row] /\ \A s \in Servers : servers[s].status \in {"stopped", "running"}
  <2>1. {ft[1] : ft \in Routes} \subseteq Nodes
    BY RoutesAssumption
  <2>2. servers \in [Servers -> [node : {ft[1] : ft \in Routes}, port : Ports,
                                status : {"stopped", "running"}, frozen : {FALSE}]]
    BY DEF TransferInit
  <2>. QED BY <2>1, <2>2 DEF Row, Statuses, Stable
<1>2. PICK rich \in SUBSET Servers :
        /\ dbNode = [s \in Servers |-> IF s \in rich THEN servers[s].node ELSE None]
        /\ attached = [ns \in Nodes \X Servers |->
             IF ns[2] \in rich /\ servers[ns[2]].node = ns[1] THEN Attachments ELSE {}]
  BY DEF TransferInit
<1>3. /\ container = [ns \in Nodes \X Servers |->
                       IF servers[ns[2]].node = ns[1] THEN servers[ns[2]].status ELSE "none"]
      /\ proc = [p \in Procs |-> None] /\ mover = [m \in Movers |-> None]
      /\ stranded = {} /\ skipped = {} /\ faults = 0 /\ crashes = 0
  BY DEF TransferInit
<1>4. \A s \in Servers : servers[s].node \in Nodes
  BY <1>1 DEF Row
<1>5. SagaTypes
  <2>1. AgentsOK
    BY <1>1, <1>3, BoundsAssumption DEF AgentsOK, ContainerStates
  <2>2. HistoryOK /\ HandlersOK
    BY <1>3, BoundsAssumption DEF HistoryOK, HandlersOK
  <2>3. JobsOK
    BY <1>2, <1>3, <1>4 DEF JobsOK
  <2>. QED BY <1>1, <2>1, <2>2, <2>3 DEF SagaTypes
<1>6. ASSUME NEW s \in Servers
      PROVE  RowSound(s)
  <2>1. \A n \in Nodes : /\ container[<<n, s>>] = IF servers[s].node = n THEN servers[s].status ELSE "none"
                         /\ attached[<<n, s>>] = IF s \in rich /\ servers[s].node = n
                                                 THEN Attachments ELSE {}
    BY <1>2, <1>3
  <2>2. dbNode[s] = IF s \in rich THEN servers[s].node ELSE None
    BY <1>2
  <2>3. RowKept(s)
    BY <1>1, <1>4, <2>1, <2>2, NoJobAssumption DEF RowKept
  <2>. QED BY <1>4, <2>1, <2>3 DEF RowSound, Bare
<1>. QED BY <1>3, <1>5, <1>6 DEF Sound, Serial, JobSound

LEMMA JobAdvances ==
  ASSUME SagaTypes, Sound, NEW m \in Movers, Forward(m) \/ Rollback(m) \/ CrashTransfer(m)
  PROVE  SagaTypes' /\ Advances(m) /\ mover[m] # None
<1>1. mover[m] # None
  BY DEF Forward, Rollback, CrashTransfer, CheckAccess, ChoosePort, ClaimTransfer, ListDatabases,
     TransferServerData, TransferDatabaseData, TransferBackups, Import, CreateOnTarget,
     CreateDatabases, RestorePower, FinalizeDatabases, Commit, CleanDatabases, CleanServer,
     CleanBackups, RestoreDatabases, RollDatabases, RollServer, RollBackups, RestartSource,
     RestoreServer, Stage
<1>2. PICK r \in Job, s \in Servers, f \in Nodes, t \in Nodes : Moves(m, r, s, f, t)
  BY <1>1, JobMoves
<1>3. CASE Forward(m)
  <2>1. CASE CheckAccess(m) \/ ChoosePort(m) \/ ClaimTransfer(m) \/ ListDatabases(m)
    BY <1>1, <1>2, <2>1, CheckAccessAdvances, ChoosePortAdvances, ClaimTransferAdvances,
       ListDatabasesAdvances
  <2>2. CASE TransferServerData(m) \/ TransferDatabaseData(m) \/ TransferBackups(m)
    BY <1>1, <1>2, <2>2, TransferServerDataAdvances, ImportAdvances
  <2>3. CASE CreateOnTarget(m) \/ CreateDatabases(m) \/ RestorePower(m)
    BY <1>1, <1>2, <2>3, CreateOnTargetAdvances, CreateDatabasesAdvances, RestorePowerAdvances
  <2>4. CASE FinalizeDatabases(m) \/ Commit(m)
    BY <1>1, <1>2, <2>4, FinalizeDatabasesAdvances, CommitAdvances
  <2>5. CASE CleanDatabases(m) \/ CleanServer(m) \/ CleanBackups(m)
    BY <1>1, <1>2, <2>5, CleanDatabasesAdvances, CleanServerAdvances, CleanBackupsAdvances
  <2>. QED BY <1>3, <2>1, <2>2, <2>3, <2>4, <2>5 DEF Forward
<1>4. CASE Rollback(m)
  BY <1>1, <1>2, <1>4, RestoreDatabasesAdvances, RollDatabasesAdvances, RollServerAdvances,
     RollBackupsAdvances, RestartSourceAdvances, RestoreServerAdvances DEF Rollback
<1>5. CASE CrashTransfer(m)
  BY <1>1, <1>2, <1>5, CrashTransferAdvances
<1>. QED BY <1>1, <1>3, <1>4, <1>5

LEMMA SoundStep ==
  ASSUME Calm, SagaTypes, Sound, [TransferNext]_allVars
  PROVE  SagaTypes' /\ Sound'
<1>1. CASE UNCHANGED allVars
  <2>1. /\ UNCHANGED <<servers, container, proc, stranded, skipped, faults, crashes>>
        /\ UNCHANGED <<mover, dbNode, attached>>
    BY <1>1 DEF allVars, vars
  <2>2. SagaTypes'
    BY <2>1 DEF SagaTypes, AgentsOK, HistoryOK, HandlersOK, HandlerOK, JobsOK
  <2>3. \A s \in Servers : RowSound(s)'
    BY <2>1 DEF Sound, RowSound, RowKept, Lock, HasStatus, Exists, Unharmed, Bare, InTransfer
  <2>4. \A r \in Job : (JobKnows(r) => JobKnows(r)') /\ (JobLeaves(r) => JobLeaves(r)')
    BY <2>1 DEF JobKnows, Lock, HasStatus, Exists, JobLeaves, Unharmed, Bare
  <2>5. \A m \in Movers : JobSound(m)'
    BY <2>1, <2>4 DEF Sound, JobSound, SagaTypes, JobsOK
  <2>. QED BY <2>1, <2>2, <2>3, <2>5 DEF Sound, Serial
<1>2. ASSUME NEW p \in Procs, Handler(p)
      PROVE  SagaTypes' /\ Sound'
  BY <1>2, HandlerBeside, BesideKeepsSound
<1>3. ASSUME NEW m \in Movers, SagaTypes' /\ Advances(m)
      PROVE  SagaTypes' /\ Sound'
  BY <1>3, AdvancesKeepsSound
<1>4. ASSUME NEW m \in Movers, NEW s \in Servers, NEW from \in Nodes, NEW to \in Nodes,
             StartTransfer(m, s, from, to)
      PROVE  SagaTypes' /\ Sound'
  BY <1>3, <1>4, StartTransferAdvances
<1>5. ASSUME NEW m \in Movers, Forward(m) \/ Rollback(m) \/ CrashTransfer(m)
      PROVE  SagaTypes' /\ Sound'
  BY <1>3, <1>5, JobAdvances
<1>. QED BY <1>1, <1>2, <1>4, <1>5 DEF TransferNext

LEMMA SoundAlways == ASSUME Calm PROVE TransferSpec => [](SagaTypes /\ Sound)
<1>1. TransferInit => SagaTypes /\ Sound
  BY SoundInit
<1>2. SagaTypes /\ Sound /\ [TransferNext]_allVars => (SagaTypes /\ Sound)'
  BY SoundStep
<1>. QED BY <1>1, <1>2, PTL DEF TransferSpec

LEMMA SoundSays ==
  ASSUME SagaTypes, Sound
  PROVE  TransferTypeOK /\ ServerKept /\ AttachmentsKept /\ DatabasesFollow /\ NothingLeftBehind
<1>1. TransferTypeOK
  BY SagaTypesImplyTypeOK
<1>2. \A s \in Servers : RowSound(s) /\ Exists(s) /\ servers[s].node \in Nodes
  BY AllExist DEF Sound
<1>3. ServerKept /\ AttachmentsKept
  BY <1>2 DEF RowSound, RowKept, ServerKept, AttachmentsKept
<1>4. DatabasesFollow
  <2>1. ASSUME NEW s \in Servers, HasStatus(s, Stable)
        PROVE  Lock(s) = "none"
    BY <2>1 DEF Lock, HasStatus, Stable, Transitional
  <2>. QED BY <1>2, <2>1 DEF RowSound, RowKept, DatabasesFollow
<1>5. NothingLeftBehind
  BY <1>2 DEF RowSound, Unharmed, Bare, Busy, NothingLeftBehind
<1>. QED BY <1>1, <1>3, <1>4, <1>5

\* The types.
THEOREM TransferTypes == ASSUME Calm PROVE TransferSpec => []TransferTypeOK
BY SoundAlways, SoundSays, PTL

\* Whatever calls fail and whichever replica dies, the node of the row keeps
\* the container (the order of executeTransfer's commit and clean-ups).
THEOREM ServerKeptAlways == ASSUME Calm PROVE TransferSpec => []ServerKept
BY SoundAlways, SoundSays, PTL

\* The same for the databases and the backups.
THEOREM AttachmentsKeptAlways == ASSUME Calm PROVE TransferSpec => []AttachmentsKept
BY SoundAlways, SoundSays, PTL

\* A server that is not being moved has its databases on its own node, though
\* executeTransfer moves their rows with two statements.
THEOREM DatabasesFollowAlways == ASSUME Calm PROVE TransferSpec => []DatabasesFollow
BY SoundAlways, SoundSays, PTL

\* While nobody deletes servers, a transfer that has ended leaves nothing on
\* another node, unless a call failed or a replica died (executeTransfer's two
\* clean-ups).
THEOREM NothingLeftBehindAlways == ASSUME Calm PROVE TransferSpec => []NothingLeftBehind
BY SoundAlways, SoundSays, PTL

-----------------------------------------------------------------------------
(* What executeTransfer promises of its roll-back.  A stop or a freeze of  *)
(* the server between the restart of the source and the end of the job     *)
(* would undo it, so here nobody asks for one.                             *)

Undisturbed == Calm /\ Ops \cap {"stop", "freeze"} = {}

\* The source runs again when the job is about to give the row back.
JobRestores(r) ==
  r.stage = "restore" /\ r.prev = "running" /\ faults = 0 => container[<<r.from, r.s>>] = "running"

Restores == \A m \in Movers : mover[m] # None => JobRestores(mover[m])

KeepsRunning ==
  \A n \in Nodes, s \in Servers : container[<<n, s>>] = "running" => container'[<<n, s>>] = "running"

LEMMA HandlerKeepsRunning ==
  ASSUME SagaTypes, Undisturbed, NEW p \in Procs, Handler(p)
  PROVE  KeepsRunning /\ UNCHANGED mover
<1>1. Beside(p)
  BY HandlerBeside DEF Undisturbed
<1>2. CASE container' = container
  BY <1>1, <1>2 DEF KeepsRunning, Beside
<1>3. CASE FreezeStop(p) \/ PowerAgent(p)
  <2>1. /\ proc[p] \in Request /\ HandlerOK(proc[p]) /\ proc[p].snap \in Row
        /\ proc[p].op \notin {"stop", "freeze"}
    BY <1>3, IdleAssumption DEF SagaTypes, HandlersOK, HandlerOK, FreezeStop, PowerAgent, At, ObservePoints,
       Undisturbed
  <2>2. PICK outcome \in Outcomes : AgentPower(proc[p], outcome, "running")
    BY <1>3, <2>1 DEF FreezeStop, PowerAgent, PowerState, At, HandlerOK, FreezePoints
  <2>3. proc[p].snap.node \in Nodes /\ proc[p].s \in Servers
    BY <2>1 DEF Request, Row
  <2>4. container' \in {container, [container EXCEPT ![<<proc[p].snap.node, proc[p].s>>] = "running"]}
    BY <2>2 DEF AgentPower, AgentCall, agents
  <2>. QED BY <1>1, <2>3, <2>4 DEF KeepsRunning, Beside, SagaTypes, AgentsOK
<1>4. container' = container \/ FreezeStop(p) \/ PowerAgent(p)
  <2>1. ~DeleteServerDatabases(p)
    BY DEF DeleteServerDatabases, DeleteDatabases, At, SagaTypes, HandlersOK, HandlerOK,
       RuntimePoints, ObservePoints
  <2>2. CASE Crash(p)
    BY <2>2 DEF Crash, agents
  <2>3. CASE Arrive(p)
    BY <2>3, ArriveBeside DEF Undisturbed, Calm, agents
  <2>4. CASE Step(p)
    BY <2>4
       DEF Step, CreateStep, DeleteStep, EggStep, WriteStep, RuntimeStep, AssignPorts, ResolveEgg,
           CreateContainer, RecordRead, Finalize, RecordUpsert, Notify, Cleanup, Release, ClaimDelete,
           DeleteDatabases, DeleteContainer, RemoveRow, RestoreRow, EggClaim, EggDelete, EggRestore,
           EggCreate, EggUpsert, ReconcilePorts, SettingsWrite, WriteFlag, FreezeStatus,
           UnfreezeStatus, PowerStatus, ObserveRead, ObserveWrite, At, SagaTypes, HandlersOK,
           HandlerOK, RuntimePoints, ObservePoints, agents
  <2>. QED BY <2>1, <2>2, <2>3, <2>4 DEF Handler
<1>. QED BY <1>2, <1>3, <1>4

\* Only RestartSource leads to the stage "restore".
LEMMA OnlyRestartRestores ==
  ASSUME SagaTypes, NEW m \in Movers, mover[m] # None, mover'[m] # None, mover'[m].stage = "restore",
         Forward(m) \/ Rollback(m)
  PROVE  RestartSource(m)
<1>1. /\ mover[m] \in Job /\ mover \in [Movers -> Job \cup {None}]
      /\ \A stage : Enter(m, stage) => mover'[m].stage = stage
      /\ EndJob(m) => mover'[m] = None
  BY DEF SagaTypes, JobsOK, Job, Enter, EndJob
<1>2. ~Fail(m)
  BY <1>1 DEF Fail
<1>3. CASE Forward(m)
  <2>1. ~(CheckAccess(m) \/ FinalizeDatabases(m) \/ Commit(m) \/ CleanDatabases(m) \/ CleanServer(m)
          \/ CleanBackups(m))
    BY <1>1 DEF CheckAccess, FinalizeDatabases, Commit, CleanDatabases, CleanServer, CleanBackups
  <2>2. ~(CreateOnTarget(m) \/ CreateDatabases(m) \/ RestorePower(m))
    BY <1>1, <1>2 DEF CreateOnTarget, CreateDatabases, RestorePower
  <2>3. ~TransferServerData(m)
    <3>1. ~Enter(m, IF mover[m].databases THEN "databaseData" ELSE "backups")
      BY <1>1
    <3>. QED BY <1>2, <3>1 DEF TransferServerData
  <2>4. ~(ChoosePort(m) \/ ClaimTransfer(m) \/ ListDatabases(m))
    BY <1>1 DEF ChoosePort, ClaimTransfer, ListDatabases, Job
  <2>5. ~(TransferDatabaseData(m) \/ TransferBackups(m))
    BY <1>1 DEF TransferDatabaseData, TransferBackups, Import, Job
  <2>. QED BY <1>3, <2>1, <2>2, <2>3, <2>4, <2>5 DEF Forward
<1>4. CASE Rollback(m)
  BY <1>1, <1>2, <1>4
     DEF Rollback, RestoreDatabases, RollDatabases, RollServer, AfterRollServer, RollBackups,
         RestoreServer
<1>. QED BY <1>3, <1>4

LEMMA RestartRestores ==
  ASSUME NEW m \in Movers, NEW r \in Job, NEW s \in Servers, NEW f \in Nodes, NEW t \in Nodes,
         Moves(m, r, s, f, t), RestartSource(m)
  PROVE  \E q \in Job : mover'[m] = q /\ JobRestores(q)'
<1>1. r.stage = "restartSource" /\ Enter(m, "restore") /\ container[<<f, s>>] # "none"
  <2>1. r.stage = "restartSource" /\ Enter(m, "restore")
    BY DEF RestartSource, Stage, Moves
  <2>2. r.stage \in RollStages
    BY <2>1 DEF RollStages
  <2>3. servers[s].node = f /\ RowKept(s)
    BY <2>2, RollFacts
  <2>. QED BY <2>1, <2>3 DEF RowKept
<1>2. PICK q \in Job : mover' = [mover EXCEPT ![m] = q] /\ q.stage = "restore" /\ SameJob(q, r)
  BY <1>1, Entered DEF Moves, Stages, ClaimedStages
<1>3. mover'[m] = q /\ q.from = f /\ q.s = s /\ q.prev = r.prev
  BY <1>2 DEF SameJob, Moves, SagaTypes, JobsOK
<1>4. r.prev = "running" /\ faults' = 0 => container'[<<f, s>>] = "running"
  <2>1. ASSUME r.prev = "running"
        PROVE  \E outcome \in Outcomes : StartCall(f, s, outcome)
    BY <2>1 DEF RestartSource, Moves
  <2>. QED BY <1>1, <2>1, StartEffect DEF Moves
<1>. QED BY <1>3, <1>4 DEF JobRestores

LEMMA RestoresStep ==
  ASSUME Undisturbed, SagaTypes, Sound, Restores, [TransferNext]_allVars
  PROVE  Restores'
<1>1. CASE UNCHANGED allVars
  BY <1>1 DEF allVars, vars, Restores, JobRestores
<1>2. ASSUME NEW p \in Procs, Handler(p)
      PROVE  Restores'
  <2>1. KeepsRunning /\ UNCHANGED mover /\ (faults' = 0 => faults = 0)
    BY <1>2, HandlerKeepsRunning, HandlerBeside DEF Undisturbed, Beside, KeepsContainers
  <2>2. ASSUME NEW r \in Job, JobRestores(r)
        PROVE  JobRestores(r)'
    BY <2>1, <2>2 DEF JobRestores, KeepsRunning, Job
  <2>. QED BY <2>1, <2>2 DEF Restores, SagaTypes, JobsOK
<1>3. ASSUME NEW m \in Movers, Advances(m), SagaTypes',
             \A q \in Job : mover'[m] = q => JobRestores(q)'
      PROVE  Restores'
  <2>1. PICK s \in Servers : Only(m, s) /\ Grows
    BY <1>3 DEF Advances
  <2>2. ASSUME NEW k \in Movers \ {m}, NEW q \in Job, mover'[k] = q
        PROVE  JobRestores(q)'
    <3>1. mover[k] = q /\ q.s # s
      BY <2>1, <2>2, NoJobAssumption DEF Only
    <3>2. q.s \in Servers \ {s} /\ q.from \in Nodes
      BY <3>1 DEF Job
    <3>3. container'[<<q.from, q.s>>] = container[<<q.from, q.s>>]
      BY <2>1, <3>2 DEF Only, Spares
    <3>4. faults' = 0 => faults = 0
      BY <2>1, Counters DEF Grows
    <3>5. JobRestores(q)
      BY <3>1, NoJobAssumption DEF Restores
    <3>. QED BY <3>3, <3>4, <3>5 DEF JobRestores
  <2>3. ASSUME NEW k \in Movers, NEW q \in Job, mover'[k] = q
        PROVE  JobRestores(q)'
    BY <1>3, <2>2, <2>3
  <2>. QED BY <1>3, <2>3 DEF Restores, SagaTypes, JobsOK
<1>4. ASSUME NEW m \in Movers, NEW s \in Servers, NEW from \in Nodes, NEW to \in Nodes,
             StartTransfer(m, s, from, to)
      PROVE  Restores'
  <2>1. Advances(m) /\ SagaTypes'
    BY <1>4, StartTransferAdvances DEF Undisturbed
  <2>2. mover'[m].stage = "access"
    BY <1>4 DEF StartTransfer, SagaTypes, JobsOK
  <2>. QED BY <1>3, <2>1, <2>2 DEF JobRestores
<1>5. ASSUME NEW m \in Movers, mover[m] # None, Forward(m) \/ Rollback(m) \/ CrashTransfer(m),
             Advances(m), SagaTypes'
      PROVE  Restores'
  <2>1. CASE mover'[m] # None /\ mover'[m].stage = "restore" /\ ~CrashTransfer(m)
    <3>1. PICK r \in Job, s \in Servers, f \in Nodes, t \in Nodes : Moves(m, r, s, f, t)
      BY <1>5, JobMoves
    <3>2. RestartSource(m)
      BY <1>5, <2>1, OnlyRestartRestores
    <3>3. PICK q \in Job : mover'[m] = q /\ JobRestores(q)'
      BY <3>1, <3>2, RestartRestores
    <3>4. \A x \in Job : mover'[m] = x => JobRestores(x)'
      BY <3>3
    <3>. QED BY <1>3, <1>5, <3>4
  <2>2. CASE mover'[m] = None \/ mover'[m].stage # "restore"
    <3>1. ASSUME NEW q \in Job, mover'[m] = q
          PROVE  JobRestores(q)'
      <4>1. q.stage # "restore"
        BY <2>2, <3>1, NoJobAssumption
      <4>. QED BY <4>1 DEF JobRestores
    <3>. QED BY <1>3, <1>5, <3>1
  <2>3. CASE CrashTransfer(m)
    BY <2>2, <2>3 DEF CrashTransfer, EndJob, SagaTypes, JobsOK
  <2>. QED BY <2>1, <2>2, <2>3
<1>. QED BY <1>1, <1>2, <1>4, <1>5, JobAdvances DEF TransferNext

LEMMA RestoresInit == TransferInit => Restores
BY DEF TransferInit, Restores

LEMMA RestoresAlways == ASSUME Undisturbed PROVE TransferSpec => [](SagaTypes /\ Sound /\ Restores)
<1>1. TransferSpec => [](SagaTypes /\ Sound)
  BY SoundAlways DEF Undisturbed
<1>2. SagaTypes /\ Sound /\ Restores /\ [TransferNext]_allVars => Restores'
  BY RestoresStep
<1>. QED BY <1>1, <1>2, RestoresInit, PTL DEF TransferSpec

\* Stage "restore" is left by giving the row back, or by a crash.
LEMMA RestoreReturns ==
  ASSUME Undisturbed, SagaTypes, Sound, Restores, [TransferNext]_allVars,
         NEW m \in Movers, NEW s \in Servers,
         Stage(m, "restore"), mover[m].s = s, faults = 0
  PROVE  /\ container[<<servers[s].node, s>>] # "none"
         /\ mover[m].prev = "running" => container[<<servers[s].node, s>>] = "running"
<1>1. PICK r \in Job, z \in Servers, f \in Nodes, t \in Nodes : Moves(m, r, z, f, t)
  BY JobMoves DEF Stage
<1>2. r = mover[m] /\ r.stage = "restore" /\ z = s
  BY <1>1 DEF Moves, Stage
<1>3. r.stage \in RollStages
  BY <1>2 DEF RollStages
<1>4. servers[s].node = f /\ RowKept(s) /\ r.from = f /\ r.s = s
  BY <1>1, <1>2, <1>3, RollFacts
<1>5. JobRestores(r)
  BY <1>2 DEF Restores, Stage
<1>. QED BY <1>2, <1>4, <1>5 DEF RowKept, JobRestores

\* executeTransfer's catch block: when the job gives the row back, the server
\* has its container, and runs if it ran before, unless an agent call failed
\* or somebody stopped or froze it meanwhile (Undisturbed).
THEOREM RollbackRestores == ASSUME Undisturbed PROVE TransferSpec => RollbackRestoresServer
<1>. DEFINE Returned ==
  \A m \in Movers, s \in Servers :
    /\ Stage(m, "restore") /\ mover[m].s = s /\ ~Stage(m, "restore")'
    /\ HasStatus(s, {"transferring"}) /\ HasStatus(s, Stable)' /\ faults = 0
    => /\ container[<<servers[s].node, s>>] # "none"
       /\ mover[m].prev = "running" => container[<<servers[s].node, s>>] = "running"
<1>1. SagaTypes /\ Sound /\ Restores /\ [TransferNext]_allVars => [Returned]_allVars
  BY RestoreReturns
<1>. QED BY <1>1, RestoresAlways, PTL DEF TransferSpec, RollbackRestoresServer


-----------------------------------------------------------------------------
(***************************************************************************)
(* TransfersSound, with transfers of one server requested at will, and for *)
(* deletions and egg changes beside them too.                              *)
(*                                                                         *)
(* A row in status `transferring` is a lock that a job holds between its   *)
(* claim and its commit or roll-back, and a delete may take it from the    *)
(* job (claimDeletion refuses only `provisioning` and `deleting`).  The    *)
(* invariant Exclusive says who may hold the lock of a server together.    *)
(* Every step of a handler is one of three moves on the locks (Goes,       *)
(* Takes, Leaves), and so is every step of a job; one lemma per action     *)
(* shows which, and Exclusive follows from the moves alone.                *)
(***************************************************************************)

\* Nobody creates a server under the id of one that is being moved, and
\* nobody deletes one by the route of the agents, which restores the status
\* that it read before its claim.
Orderly == Ops \cap (CreateOps \cup AdminDeleteOps) = {}

-----------------------------------------------------------------------------
(* Types: what a handler and a job know of their own records.              *)

PlainWork ==
  {"claimEgg", "reconcile", "settingsWrite", "freezeFlag", "freezeStatus", "freezeStop",
   "unfreezeFlag", "unfreezeStatus", "power", "powerStatus"}
WorkPoints == PlainWork \cup ObservePoints \cup EggPoints \cup DeletingPoints

WorkOK(r) ==
  /\ r.op \in Ops /\ r.pc \in WorkPoints
  /\ r.pc \notin ObservePoints => r.snap \in Row
  /\ r.pc \in EggPoints \cup ObservePoints => r.prev \in Stable
  /\ r.pc \in DeletingPoints => r.op \in RemoveOps /\ r.prev \in Stable \cup {"transferring"}

WorkersOK ==
  /\ proc \in [Procs -> Request \cup {None}]
  /\ \A p \in Procs : proc[p] # None => WorkOK(proc[p])

JobOK(r) ==
  /\ r.stage \in ClaimedStages => r.prev \in Stable
  /\ r.stage \in ClaimedStages \cup {"claim"} => r.port \in Ports

MoversOK ==
  /\ mover \in [Movers -> Job \cup {None}]
  /\ \A m \in Movers : mover[m] # None => JobOK(mover[m])

ClaimTypes == RegistryTypeOK /\ WorkersOK /\ MoversOK

-----------------------------------------------------------------------------
(* The invariant.                                                          *)

Backed == \A p \in Procs, s \in Servers : Holds(p, s) => Lock(s) = Claim(p)

\* A job that lost its row to a delete does not know it yet.
JobsBacked ==
  \A m \in Movers, s \in Servers :
    MoverHolds(m, s) => ~Exists(s) \/ Lock(s) \in {"transferring", "deleting"}

JobsExclude ==
  \A m, k \in Movers, s \in Servers : MoverHolds(m, s) /\ MoverHolds(k, s) => m = k

\* A handler that works beside a job took the lock from it.
TakenFromJob ==
  \A m \in Movers, p \in Procs, s \in Servers :
    MoverHolds(m, s) /\ Holds(p, s) => proc[p].prev = "transferring"

JobsOwned ==
  \A s \in Servers : Lock(s) = "transferring" => s \in stranded \/ \E m \in Movers : MoverHolds(m, s)

Exclusive ==
  Backed /\ ClaimsExclude /\ JobsBacked /\ JobsExclude /\ TakenFromJob /\ JobsOwned

SameRow(s) == Lock(s)' = Lock(s) /\ (Exists(s)' <=> Exists(s))
SameRows == \A s \in Servers : SameRow(s)
SameRowsExcept(s) == \A t \in Servers \ {s} : SameRow(t)

\* The request of p goes on with the claim it has, or without one.
Goes(p) ==
  /\ SameRows /\ stranded \subseteq stranded'
  /\ Claim(p)' = Claim(p)
  /\ Claim(p) # "none" => proc'[p].s = proc[p].s /\ proc'[p].prev = proc[p].prev

\* p closes an open lock, or takes it from a transfer.
Takes(p, s) ==
  /\ SameRowsExcept(s) /\ stranded \ {s} \subseteq stranded'
  /\ Claim(p) = "none" /\ Claim(p)' # "none" /\ proc'[p].s = s
  /\ Exists(s) /\ Exists(s)' /\ Lock(s)' = Claim(p)'
  /\ \/ Lock(s) = "none"
     \/ Lock(s) = "transferring" /\ Claim(p)' = "deleting" /\ proc'[p].prev = "transferring"

\* p ends its claim: it removes the row or opens the lock, gives it back to
\* the transfer it took it from, or leaves it closed behind it.
Leaves(p, s) ==
  /\ SameRowsExcept(s) /\ stranded \ {s} \subseteq stranded'
  /\ Claim(p) # "none" /\ Claim(p)' = "none" /\ proc[p].s = s
  /\ \/ Lock(s)' = "none" /\ (~Exists(s)' \/ proc[p].prev # "transferring")
     \/ Lock(s)' = "transferring" /\ s \in stranded'
     \/ SameRow(s)

Alone(p) == \A q \in Procs \ {p} : proc'[q] = proc[q]

HandlerMove(p) ==
  /\ Alone(p) /\ UNCHANGED mover
  /\ Goes(p) \/ \E s \in Servers : Takes(p, s) \/ Leaves(p, s)

\* The same for the jobs, which leave the lock as they found it when a delete
\* has taken it meanwhile.
JobGoes(m) ==
  /\ SameRows /\ stranded \subseteq stranded'
  /\ \A s \in Servers : MoverHolds(m, s)' <=> MoverHolds(m, s)

JobTakes(m, s) ==
  /\ SameRowsExcept(s) /\ stranded \subseteq stranded'
  /\ Exists(s) /\ Lock(s) = "none" /\ Lock(s)' = "transferring"
  /\ \A t \in Servers : ~MoverHolds(m, t) /\ (MoverHolds(m, t)' <=> t = s)

JobLeavesLocks(m, s) ==
  /\ SameRowsExcept(s) /\ stranded \subseteq stranded'
  /\ \A t \in Servers : ~MoverHolds(m, t)' /\ (MoverHolds(m, t) <=> t = s)
  /\ \/ Lock(s) = "transferring" /\ Lock(s)' = "none"
     \/ SameRow(s) /\ (Lock(s) # "transferring" \/ s \in stranded')

JobMove(m) ==
  /\ \A k \in Movers \ {m} : mover'[k] = mover[k]
  /\ UNCHANGED proc
  /\ JobGoes(m) \/ \E s \in Servers : JobTakes(m, s) \/ JobLeavesLocks(m, s)

-----------------------------------------------------------------------------
(* The moves keep the invariant.                                           *)

LEMMA OthersHold ==
  ASSUME NEW p \in Procs, HandlerMove(p)
  PROVE  /\ \A q \in Procs \ {p} : Claim(q)' = Claim(q) /\ proc'[q] = proc[q]
         /\ \A q \in Procs \ {p}, s \in Servers : Holds(q, s)' <=> Holds(q, s)
         /\ \A m \in Movers, s \in Servers : MoverHolds(m, s)' <=> MoverHolds(m, s)
BY DEF HandlerMove, Alone, Claim, Holds, MoverHolds

LEMMA Transferring ==
  ASSUME NEW s \in Servers
  PROVE  /\ HasStatus(s, {"transferring"}) <=> Lock(s) = "transferring"
         /\ Lock(s) # "none" => Exists(s)
BY DEF Lock, HasStatus, Transitional

LEMMA ClaimKinds ==
  ASSUME NEW p \in Procs
  PROVE  Claim(p) \in {"none", "provisioning", "deleting"}
BY DEF Claim

LEMMA HandlerMoveKeeps ==
  ASSUME Exclusive, NEW p \in Procs, HandlerMove(p)
  PROVE  Exclusive'
<1>. USE DEF Exclusive
<1>1. /\ \A q \in Procs \ {p} : Claim(q)' = Claim(q) /\ proc'[q] = proc[q]
      /\ \A q \in Procs \ {p}, s \in Servers : Holds(q, s)' <=> Holds(q, s)
      /\ \A m \in Movers, s \in Servers : MoverHolds(m, s)' <=> MoverHolds(m, s)
  BY OthersHold
<1>2. JobsExclude'
  BY <1>1 DEF JobsExclude
<1>3. CASE Goes(p)
  <2>1. /\ \A q \in Procs, s \in Servers : Holds(q, s)' <=> Holds(q, s)
        /\ \A q \in Procs : Claim(q)' = Claim(q)
        /\ \A q \in Procs, s \in Servers : Holds(q, s) => proc'[q].prev = proc[q].prev
    BY <1>1, <1>3 DEF Goes, Holds
  <2>2. \A s \in Servers : SameRow(s)
    BY <1>3 DEF Goes, SameRows
  <2>3. Backed' /\ ClaimsExclude' /\ JobsBacked'
    BY <1>1, <2>1, <2>2 DEF Backed, ClaimsExclude, JobsBacked, SameRow
  <2>4. TakenFromJob'
    BY <1>1, <2>1 DEF TakenFromJob
  <2>5. JobsOwned'
    BY <1>1, <1>3, <2>2 DEF JobsOwned, SameRow, Goes
  <2>. QED BY <1>2, <2>3, <2>4, <2>5
<1>4. ASSUME NEW s \in Servers, Takes(p, s)
      PROVE  Exclusive'
  <2>1. \A t \in Servers : ~Holds(p, t) /\ (Holds(p, t)' <=> t = s)
    BY <1>4 DEF Takes, Holds
  <2>2. \A q \in Procs : ~Holds(q, s)
    BY <1>4, ClaimKinds DEF Backed, Takes, Holds
  <2>3. Backed'
    BY <1>1, <1>4, <2>1, <2>2 DEF Backed, Takes, SameRowsExcept, SameRow
  <2>4. ClaimsExclude'
    BY <1>1, <2>1, <2>2 DEF ClaimsExclude
  <2>5. JobsBacked'
    BY <1>1, <1>4 DEF JobsBacked, Takes, SameRowsExcept, SameRow
  <2>6. TakenFromJob'
    <3>1. Lock(s) = "none" => \A m \in Movers : ~MoverHolds(m, s)
      BY <1>4 DEF Takes, JobsBacked
    <3>2. ASSUME NEW m \in Movers, NEW q \in Procs, NEW t \in Servers, MoverHolds(m, t)', Holds(q, t)'
          PROVE  proc'[q].prev = "transferring"
      <4>1. CASE q = p
        BY <1>1, <1>4, <2>1, <3>1, <3>2, <4>1 DEF Takes
      <4>2. CASE q # p
        BY <1>1, <3>2, <4>2 DEF TakenFromJob
      <4>. QED BY <4>1, <4>2
    <3>. QED BY <3>2 DEF TakenFromJob
  <2>7. ASSUME NEW t \in Servers, Lock(t)' = "transferring"
        PROVE  t \in stranded' \/ \E m \in Movers : MoverHolds(m, t)'
    <3>2. t # s
      <4>1. Claim(p)' # "transferring"
        BY DEF Claim
      <4>. QED BY <1>4, <2>7, <4>1 DEF Takes
    <3>3. Lock(t) = "transferring"
      BY <1>4, <2>7, <3>2 DEF Takes, SameRowsExcept, SameRow
    <3>. QED BY <1>1, <1>4, <3>2, <3>3 DEF JobsOwned, Takes
  <2>. QED BY <1>2, <2>3, <2>4, <2>5, <2>6, <2>7 DEF JobsOwned
<1>5. ASSUME NEW s \in Servers, Leaves(p, s)
      PROVE  Exclusive'
  <2>1. \A t \in Servers : ~Holds(p, t)' /\ (Holds(p, t) <=> t = s)
    BY <1>5 DEF Leaves, Holds
  <2>2. \A q \in Procs \ {p} : ~Holds(q, s)
    BY <2>1 DEF ClaimsExclude
  <2>3. Backed'
    BY <1>1, <1>5, <2>1, <2>2 DEF Backed, Leaves, SameRowsExcept, SameRow
  <2>4. ClaimsExclude'
    BY <1>1, <2>1 DEF ClaimsExclude
  <2>5. JobsBacked'
    <3>1. ASSUME NEW m \in Movers, MoverHolds(m, s)
          PROVE  ~Exists(s)' \/ Lock(s)' \in {"transferring", "deleting"}
      <4>1. proc[p].prev = "transferring" /\ (~Exists(s) \/ Lock(s) \in {"transferring", "deleting"})
        BY <2>1, <3>1 DEF TakenFromJob, JobsBacked
      <4>. QED BY <1>5, <4>1 DEF Leaves, SameRow
    <3>. QED BY <1>1, <1>5, <3>1 DEF JobsBacked, Leaves, SameRowsExcept, SameRow
  <2>6. TakenFromJob'
    BY <1>1, <2>1 DEF TakenFromJob
  <2>7. ASSUME NEW t \in Servers, Lock(t)' = "transferring"
        PROVE  t \in stranded' \/ \E m \in Movers : MoverHolds(m, t)'
    <3>2. CASE t = s
      <4>1. Lock(s) # "transferring"
        BY <2>1, ClaimKinds DEF Backed
      <4>. QED BY <1>5, <2>7, <3>2, <4>1 DEF Leaves, SameRow
    <3>3. CASE t # s
      <4>1. Lock(t) = "transferring"
        BY <1>5, <2>7, <3>3 DEF Leaves, SameRowsExcept, SameRow
      <4>. QED BY <1>1, <1>5, <3>3, <4>1 DEF JobsOwned, Leaves
    <3>. QED BY <3>2, <3>3
  <2>. QED BY <1>2, <2>3, <2>4, <2>5, <2>6, <2>7 DEF JobsOwned
<1>. QED BY <1>3, <1>4, <1>5 DEF HandlerMove

LEMMA JobMoveKeeps ==
  ASSUME Exclusive, NEW m \in Movers, JobMove(m)
  PROVE  Exclusive'
<1>. USE DEF Exclusive
<1>1. /\ \A k \in Movers \ {m}, s \in Servers : MoverHolds(k, s)' <=> MoverHolds(k, s)
      /\ \A p \in Procs : Claim(p)' = Claim(p) /\ proc'[p] = proc[p]
      /\ \A p \in Procs, s \in Servers : Holds(p, s)' <=> Holds(p, s)
  BY DEF JobMove, MoverHolds, Claim, Holds
<1>2. ClaimsExclude'
  BY <1>1 DEF ClaimsExclude
<1>3. CASE JobGoes(m)
  <2>1. \A k \in Movers, s \in Servers : MoverHolds(k, s)' <=> MoverHolds(k, s)
    BY <1>1, <1>3 DEF JobGoes
  <2>2. \A s \in Servers : SameRow(s)
    BY <1>3 DEF JobGoes, SameRows
  <2>3. Backed' /\ JobsBacked' /\ JobsExclude' /\ TakenFromJob'
    BY <1>1, <2>1, <2>2 DEF Backed, JobsBacked, JobsExclude, TakenFromJob, SameRow
  <2>4. JobsOwned'
    BY <1>3, <2>1, <2>2 DEF JobsOwned, SameRow, JobGoes
  <2>. QED BY <1>2, <2>3, <2>4
<1>4. ASSUME NEW s \in Servers, JobTakes(m, s)
      PROVE  Exclusive'
  <2>1. (\A p \in Procs : ~Holds(p, s)) /\ \A k \in Movers : ~MoverHolds(k, s)
    BY <1>4 DEF JobTakes, Backed, JobsBacked, Holds
  <2>2. Backed'
    BY <1>1, <1>4, <2>1 DEF Backed, JobTakes, SameRowsExcept, SameRow
  <2>3. JobsBacked' /\ JobsExclude' /\ TakenFromJob'
    BY <1>1, <1>4, <2>1 DEF JobsBacked, JobsExclude, TakenFromJob, JobTakes, SameRowsExcept, SameRow
  <2>4. ASSUME NEW t \in Servers, Lock(t)' = "transferring"
        PROVE  t \in stranded' \/ \E k \in Movers : MoverHolds(k, t)'
    <3>1. t # s => Lock(t) = "transferring"
      BY <1>4, <2>4 DEF JobTakes, SameRowsExcept, SameRow
    <3>. QED BY <1>1, <1>4, <3>1 DEF JobsOwned, JobTakes
  <2>. QED BY <1>2, <2>2, <2>3, <2>4 DEF JobsOwned
<1>5. ASSUME NEW s \in Servers, JobLeavesLocks(m, s)
      PROVE  Exclusive'
  <2>1. \A k \in Movers \ {m} : ~MoverHolds(k, s)
    BY <1>5 DEF JobLeavesLocks, JobsExclude
  <2>2. Lock(s) = "transferring" => \A p \in Procs : ~Holds(p, s)
    BY ClaimKinds DEF Backed
  <2>3. Backed'
    BY <1>1, <1>5, <2>2 DEF Backed, JobLeavesLocks, SameRowsExcept, SameRow
  <2>4. JobsBacked' /\ JobsExclude' /\ TakenFromJob'
    BY <1>1, <1>5, <2>1 DEF JobsBacked, JobsExclude, TakenFromJob, JobLeavesLocks, SameRowsExcept, SameRow
  <2>5. ASSUME NEW t \in Servers, Lock(t)' = "transferring"
        PROVE  t \in stranded' \/ \E k \in Movers : MoverHolds(k, t)'
    <3>2. CASE t = s
      BY <1>5, <2>5, <3>2 DEF JobLeavesLocks, SameRow
    <3>3. CASE t # s
      <4>1. Lock(t) = "transferring"
        BY <1>5, <2>5, <3>3 DEF JobLeavesLocks, SameRowsExcept, SameRow
      <4>. QED BY <1>1, <1>5, <3>3, <4>1 DEF JobsOwned, JobLeavesLocks
    <3>. QED BY <3>2, <3>3
  <2>. QED BY <1>2, <2>3, <2>4, <2>5 DEF JobsOwned
<1>. QED BY <1>3, <1>4, <1>5 DEF JobMove

\* The invariant says what the jobs and the claims promise.
LEMMA ExclusiveSays ==
  ASSUME Exclusive
  PROVE  MoversExclude /\ TransfersOwned
<1>1. ASSUME NEW m \in Movers, NEW s \in Servers, NEW p \in Procs, MoverHolds(m, s), Holds(p, s)
      PROVE  proc[p].pc \in DeletingPoints
  <2>1. Lock(s) = Claim(p) /\ Claim(p) # "none"
    BY <1>1 DEF Exclusive, Backed, Holds
  <2>2. Claim(p) = "deleting"
    BY <1>1, <2>1, ClaimKinds, Transferring DEF Exclusive, JobsBacked
  <2>. QED BY <2>2 DEF Claim
<1>2. TransfersOwned
  BY Transferring DEF Exclusive, JobsOwned, TransfersOwned
<1>. QED BY <1>1, <1>2 DEF Exclusive, JobsExclude, MoversExclude

-----------------------------------------------------------------------------
(* What the handlers do to their own records.                              *)

\* The points of one claim, or the points without one.
Phase(a, b) ==
  \E points \in {PlainWork, ObservePoints, EggPoints, DeletingPoints} : a \in points /\ b \in points

LEMMA WorkerGoes ==
  ASSUME WorkersOK, NEW p \in Procs, proc[p] # None, NEW point, Phase(proc[p].pc, point),
         Goto(p, point)
  PROVE  /\ WorkersOK' /\ Alone(p) /\ Claim(p)' = Claim(p)
         /\ proc'[p].s = proc[p].s /\ proc'[p].prev = proc[p].prev
<1>1. proc[p] \in Request /\ WorkOK(proc[p]) /\ point \in WorkPoints
  BY DEF WorkersOK, Phase, WorkPoints
<1>2. PICK r \in Request :
        /\ proc' = [proc EXCEPT ![p] = r] /\ r.pc = point /\ r.op = proc[p].op
        /\ r.snap = proc[p].snap /\ r.prev = proc[p].prev /\ r.s = proc[p].s
  <2>1. point \in Points
    BY <1>1 DEF WorkPoints, PlainWork, ObservePoints, EggPoints, DeletingPoints, Points,
       OtherPoints, ProvisioningPoints
  <2>2. [proc[p] EXCEPT !.pc = point] \in Request
    BY <1>1, <2>1 DEF Request
  <2>3. /\ [proc[p] EXCEPT !.pc = point].pc = point
        /\ [proc[p] EXCEPT !.pc = point].op = proc[p].op
        /\ [proc[p] EXCEPT !.pc = point].snap = proc[p].snap
        /\ [proc[p] EXCEPT !.pc = point].prev = proc[p].prev
        /\ [proc[p] EXCEPT !.pc = point].s = proc[p].s
    BY <1>1 DEF Request
  <2>. QED BY <2>2, <2>3 DEF Goto
<1>3. WorkOK(r)
  BY <1>1, <1>2 DEF WorkOK, Phase, PlainWork, ObservePoints, EggPoints, DeletingPoints
<1>4. proc'[p] = r /\ Alone(p) /\ r # None
  BY <1>2, IdleAssumption DEF WorkersOK, Alone
<1>5. WorkersOK'
  BY <1>2, <1>3, <1>4 DEF WorkersOK, Alone
<1>6. Claim(p)' = Claim(p)
  BY <1>2, <1>4 DEF Claim, Phase, PlainWork, ObservePoints, EggPoints, DeletingPoints,
     ProvisioningPoints
<1>. QED BY <1>2, <1>4, <1>5, <1>6

LEMMA WorkerOver ==
  ASSUME WorkersOK, NEW p \in Procs, proc[p] # None, Done(p)
  PROVE  WorkersOK' /\ Alone(p) /\ Claim(p)' = "none"
BY DEF WorkersOK, Done, Alone, Claim

LEMMA WorkerBecomes ==
  ASSUME WorkersOK, NEW p \in Procs, NEW r \in Request, WorkOK(r), proc' = [proc EXCEPT ![p] = r]
  PROVE  WorkersOK' /\ Alone(p) /\ proc'[p] = r /\ r # None
BY IdleAssumption DEF WorkersOK, Alone

\* What a worker is, and the claim that it has at its point.
LEMMA WorkerFacts ==
  ASSUME WorkersOK, NEW p \in Procs, proc[p] # None
  PROVE  /\ proc[p] \in Request /\ WorkOK(proc[p]) /\ proc[p].s \in Servers
         /\ proc[p].pc \in PlainWork \cup ObservePoints => Claim(p) = "none"
         /\ proc[p].pc \in EggPoints => Claim(p) = "provisioning"
         /\ proc[p].pc \in DeletingPoints => Claim(p) = "deleting"
BY DEF WorkersOK, Request, Claim, PlainWork, ObservePoints, EggPoints, DeletingPoints,
   ProvisioningPoints

\* A step of a handler that leaves the locks as they are.
LEMMA Unlocked ==
  ASSUME NEW p \in Procs, Alone(p), UNCHANGED <<mover, stranded>>, SameRows, Claim(p)' = Claim(p),
         Claim(p) # "none" => proc'[p].s = proc[p].s /\ proc'[p].prev = proc[p].prev
  PROVE  HandlerMove(p)
BY DEF HandlerMove, Goes

LEMMA SameTableRows ==
  ASSUME UNCHANGED servers
  PROVE  SameRows
BY DEF SameRows, SameRow, Lock, HasStatus, Exists

\* Writes of statuses and variables that look at the lock.
LEMMA WriteRows ==
  ASSUME RegistryTypeOK, NEW s \in Servers,
         \/ \E status \in Stable : SetStatus(s, status)
         \/ \E frozen \in BOOLEAN : UpdateVariables(s, frozen) \/ AssignPortAllocations(s, frozen)
         \/ UNCHANGED servers
  PROVE  RegistryTypeOK' /\ SameRows
<1>1. RegistryTypeOK' /\ SameLocks
  BY SetStatusLocks, UpdateVariablesLocks, SameTable
<1>2. \A t \in Servers : Exists(t)' <=> Exists(t)
  <2>1. \A t \in Servers : servers[t] \in Row \cup {None}
    BY DEF RegistryTypeOK
  <2>. QED BY <2>1, NoneAssumption DEF SetStatus, UpdateVariables, AssignPortAllocations, Exists,
         HasStatus, RegistryTypeOK, Row, Statuses
<1>. QED BY <1>1, <1>2 DEF SameLocks, SameRows, SameRow

-----------------------------------------------------------------------------
(* Every step of a handler is a move.                                      *)

\* What a step that is a move also keeps.
WorkerOK(p) == RegistryTypeOK' /\ WorkersOK' /\ HandlerMove(p)

LEMMA ReadMove ==
  ASSUME ClaimTypes, NEW p \in Procs, NEW s \in Servers, NEW op, NEW point \in PlainWork, Exists(s),
         Begin(p, [op |-> op, pc |-> point, s |-> s, snap |-> servers[s], prev |-> "none"]),
         UNCHANGED <<servers, mover, stranded>>
  PROVE  WorkerOK(p)
<1>. DEFINE r == [op |-> op, pc |-> point, s |-> s, snap |-> servers[s], prev |-> "none"]
<1>1. servers[s] \in Row
  BY DEF ClaimTypes, RegistryTypeOK, Exists
<1>2. r \in Request /\ WorkOK(r)
  BY <1>1, OpsAssumption DEF Begin, Request, WorkOK, PlainWork, WorkPoints, EggPoints, ObservePoints,
     DeletingPoints, Points, OtherPoints
<1>3. WorkersOK' /\ Alone(p) /\ proc'[p] = r /\ proc'[p] # None
  BY <1>2, WorkerBecomes DEF Begin, ClaimTypes
<1>4. Claim(p) = "none" /\ Claim(p)' = "none"
  BY <1>3 DEF Begin, Claim, PlainWork, ProvisioningPoints, DeletingPoints
<1>5. RegistryTypeOK' /\ SameRows
  BY WriteRows DEF ClaimTypes
<1>. QED BY <1>3, <1>4, <1>5, Unlocked DEF WorkerOK

LEMMA ObservePollMove ==
  ASSUME ClaimTypes, NEW p \in Procs, NEW s \in Servers, NEW n \in Nodes, ObservePoll(p, s, n),
         UNCHANGED mover
  PROVE  WorkerOK(p)
<1>. DEFINE r == [op |-> "observe", pc |-> "observeRead", s |-> s, snap |-> None,
                  prev |-> Observed(container[<<n, s>>])]
<1>1. Begin(p, r) /\ UNCHANGED <<servers, stranded>>
  BY DEF ObservePoll, history
<1>2. r \in Request /\ WorkOK(r)
  BY <1>1, OpsAssumption DEF Begin, Request, WorkOK, WorkPoints, EggPoints, ObservePoints,
     DeletingPoints, Points, OtherPoints, Observed, Statuses, Stable
<1>3. WorkersOK' /\ Alone(p) /\ proc'[p] = r /\ proc'[p] # None
  BY <1>1, <1>2, WorkerBecomes DEF Begin, ClaimTypes
<1>4. Claim(p) = "none" /\ Claim(p)' = "none"
  BY <1>1, <1>3 DEF Begin, Claim, ProvisioningPoints, DeletingPoints
<1>5. RegistryTypeOK' /\ SameRows
  BY <1>1, WriteRows DEF ClaimTypes
<1>. QED BY <1>1, <1>3, <1>4, <1>5, Unlocked DEF WorkerOK

LEMMA ClaimRemoveMove ==
  ASSUME ClaimTypes, NEW p \in Procs, NEW s \in Servers, NEW op, ClaimRemove(p, s, op), UNCHANGED mover
  PROVE  WorkerOK(p)
<1>. DEFINE r == [op |-> op, s |-> s, snap |-> servers[s], prev |-> servers[s].status,
                  pc |-> IF op = "registryRemove" THEN "deleteDatabases" ELSE "deleteContainer"]
<1>1. Begin(p, r) /\ op \in RemoveOps /\ ClaimDeletion(s, FALSE) /\ stranded' = stranded \ {s}
  BY DEF ClaimRemove
<1>2. /\ RegistryTypeOK' /\ SameLocksExcept(s) /\ Lock(s) \in {"none", "transferring"}
      /\ Lock(s)' = "deleting" /\ servers[s] \in Row
  BY <1>1, ClaimDeletionLocks DEF ClaimTypes
<1>3. /\ servers[s].status \in Stable \cup {"transferring"}
      /\ Lock(s) = "none" \/ servers[s].status = "transferring"
  BY <1>1, <1>2 DEF ClaimDeletion, MayClaimDeletion, Row, Statuses, Transitional, Lock, HasStatus
<1>4. r \in Request /\ WorkOK(r)
  BY <1>1, <1>2, <1>3, OpsAssumption DEF Begin, Request, WorkOK, WorkPoints, EggPoints, ObservePoints,
     DeletingPoints, Points, RemoveOps, Statuses, Transitional
<1>5. WorkersOK' /\ Alone(p) /\ proc'[p] = r /\ proc'[p] # None
  BY <1>1, <1>4, WorkerBecomes DEF Begin, ClaimTypes
<1>6. Claim(p) = "none" /\ Claim(p)' = "deleting"
  BY <1>1, <1>5 DEF Begin, Claim, ProvisioningPoints, DeletingPoints
<1>7. Exists(s) /\ Exists(s)' /\ \A t \in Servers : Exists(t)' <=> Exists(t)
  BY <1>1, NoneAssumption DEF ClaimDeletion, MayClaimDeletion, WriteStatus, Exists, ClaimTypes,
     RegistryTypeOK, Row, Statuses, Transitional
<1>8. Takes(p, s)
  BY <1>1, <1>2, <1>3, <1>5, <1>6, <1>7 DEF Takes, SameRowsExcept, SameRow, SameLocksExcept
<1>. QED BY <1>2, <1>5, <1>8 DEF WorkerOK, HandlerMove

LEMMA ArriveMove ==
  ASSUME ClaimTypes, Orderly, NEW p \in Procs, Arrive(p), UNCHANGED mover
  PROVE  WorkerOK(p)
<1>1. PICK s \in Servers : \/ \E op \in RemoveOps : ClaimRemove(p, s, op)
                           \/ EggRead(p, s) \/ SettingsRead(p, s) \/ UnfreezeRead(p, s)
                           \/ \E billing \in BOOLEAN : FreezeRead(p, s, billing)
                           \/ \E op \in PowerOps : PowerRead(p, s, op)
                           \/ \E n \in Nodes : ObservePoll(p, s, n)
  BY DEF Arrive, Reserve, DeleteRead, Begin, Orderly
<1>2. CASE SettingsRead(p, s)
  <2>1. PICK point \in {"reconcile", "settingsWrite"} :
          Begin(p, [op |-> "settings", pc |-> point, s |-> s, snap |-> servers[s], prev |-> "none"])
    BY <1>2 DEF SettingsRead
  <2>. QED BY <1>2, <2>1, ReadMove DEF SettingsRead, PlainWork, history
<1>3. CASE EggRead(p, s)
  BY <1>3, ReadMove DEF EggRead, PlainWork, history
<1>4. CASE UnfreezeRead(p, s)
  BY <1>4, ReadMove DEF UnfreezeRead, PlainWork, history
<1>5. ASSUME NEW billing \in BOOLEAN, FreezeRead(p, s, billing)
      PROVE  WorkerOK(p)
  BY <1>5, ReadMove DEF FreezeRead, PlainWork, history
<1>6. ASSUME NEW op \in PowerOps, PowerRead(p, s, op)
      PROVE  WorkerOK(p)
  BY <1>6, ReadMove DEF PowerRead, PlainWork, history
<1>. QED BY <1>1, <1>2, <1>3, <1>4, <1>5, <1>6, ObservePollMove, ClaimRemoveMove

\* Handlers that hold no claim.
LEMMA PlainMove ==
  ASSUME ClaimTypes, NEW p \in Procs, WriteStep(p) \/ RuntimeStep(p), UNCHANGED mover
  PROVE  WorkerOK(p)
<1>. USE DEF ClaimTypes
<1>1. proc[p] # None /\ proc[p].pc \in PlainWork \cup ObservePoints
  BY DEF WriteStep, RuntimeStep, ReconcilePorts, SettingsWrite, WriteFlag, FreezeStatus,
     UnfreezeStatus, FreezeStop, PowerAgent, PowerStatus, ObserveRead, ObserveWrite, At,
     PlainWork, ObservePoints
<1>2. proc[p] \in Request /\ WorkOK(proc[p]) /\ proc[p].s \in Servers /\ Claim(p) = "none"
  BY <1>1, WorkerFacts
<1>3. WorkersOK' /\ Alone(p) /\ Claim(p)' = Claim(p)
  <2>1. Done(p) \/ \E point : Goto(p, point) /\ Phase(proc[p].pc, point)
    BY DEF WriteStep, RuntimeStep, ReconcilePorts, SettingsWrite, WriteFlag, FreezeStatus,
       UnfreezeStatus, FreezeStop, PowerAgent, PowerStatus, ObserveRead, ObserveWrite, At,
       PlainWork, ObservePoints, Phase
  <2>. QED BY <1>1, <1>2, <2>1, WorkerGoes, WorkerOver
<1>4. RegistryTypeOK' /\ SameRows
  <2>1. At(p, "reconcile") \/ At(p, "settingsWrite") => proc[p].snap.frozen \in BOOLEAN
    BY <1>2 DEF At, WorkOK, ObservePoints, Row
  <2>2. CASE ReconcilePorts(p) \/ SettingsWrite(p)
    BY <1>2, <2>1, <2>2, WriteRows DEF ReconcilePorts, SettingsWrite
  <2>3. CASE WriteFlag(p)
    <3>1. UNCHANGED servers \/ \E frozen \in BOOLEAN : UpdateVariables(proc[p].s, frozen)
      BY <2>3 DEF WriteFlag, At
    <3>. QED BY <1>2, <3>1, WriteRows
  <2>4. CASE FreezeStatus(p) \/ UnfreezeStatus(p)
    BY <1>2, <2>4, WriteRows DEF FreezeStatus, UnfreezeStatus, Stable
  <2>5. CASE PowerStatus(p)
    BY <1>2, <2>5, WriteRows DEF PowerStatus, PowerState, Stable
  <2>6. CASE ObserveWrite(p)
    <3>1. proc[p].prev \in Stable /\ SetStatus(proc[p].s, proc[p].prev)
      BY <1>2, <2>6 DEF ObserveWrite, At, WorkOK, ObservePoints
    <3>. QED BY <1>2, <3>1, WriteRows
  <2>7. CASE UNCHANGED servers
    BY <2>7, SameTable, SameTableRows
  <2>. QED BY <2>2, <2>3, <2>4, <2>5, <2>6, <2>7
         DEF WriteStep, RuntimeStep, FreezeStop, PowerAgent, ObserveRead
<1>5. UNCHANGED stranded
  BY DEF WriteStep, RuntimeStep, ReconcilePorts, SettingsWrite, WriteFlag, FreezeStatus,
     UnfreezeStatus, FreezeStop, PowerAgent, PowerStatus, ObserveRead, ObserveWrite, history
<1>. QED BY <1>2, <1>3, <1>4, <1>5, Unlocked DEF WorkerOK

\* Steps within a claim.
LEMMA WithinMove ==
  ASSUME ClaimTypes, NEW p \in Procs, proc[p] # None, NEW point, Goto(p, point),
         Phase(proc[p].pc, point), UNCHANGED <<servers, mover, stranded>>
  PROVE  WorkerOK(p)
<1>1. /\ WorkersOK' /\ Alone(p) /\ Claim(p)' = Claim(p)
      /\ proc'[p].s = proc[p].s /\ proc'[p].prev = proc[p].prev
  BY WorkerGoes DEF ClaimTypes
<1>2. RegistryTypeOK' /\ SameRows
  BY SameTable, SameTableRows DEF ClaimTypes
<1>. QED BY <1>1, <1>2, Unlocked DEF WorkerOK

\* A request that ends its claim.
LEMMA OverMove ==
  ASSUME ClaimTypes, NEW p \in Procs, proc[p] # None, Done(p), UNCHANGED mover, RegistryTypeOK',
         NEW s \in Servers, proc[p].s = s, Claim(p) # "none",
         SameRowsExcept(s), stranded \ {s} \subseteq stranded',
         \/ Lock(s)' = "none" /\ (~Exists(s)' \/ proc[p].prev # "transferring")
         \/ Lock(s)' = "transferring" /\ s \in stranded'
         \/ SameRow(s)
  PROVE  WorkerOK(p)
BY WorkerOver DEF WorkerOK, HandlerMove, Leaves, ClaimTypes

\* A request without a claim that ends.
LEMMA EndMove ==
  ASSUME ClaimTypes, NEW p \in Procs, proc[p] # None, Done(p), Claim(p) = "none",
         UNCHANGED <<servers, mover, stranded>>
  PROVE  WorkerOK(p)
<1>1. WorkersOK' /\ Alone(p) /\ Claim(p)' = "none"
  BY WorkerOver DEF ClaimTypes
<1>2. RegistryTypeOK' /\ SameRows
  BY SameTable, SameTableRows DEF ClaimTypes
<1>. QED BY <1>1, <1>2, Unlocked DEF WorkerOK

LEMMA EggClaimMove ==
  ASSUME ClaimTypes, NEW p \in Procs, EggClaim(p), UNCHANGED mover
  PROVE  WorkerOK(p)
<1>. DEFINE r == [proc[p] EXCEPT !.pc = "eggDelete", !.prev = servers[proc[p].s].status]
<1>1. /\ proc[p] # None /\ proc[p].pc = "claimEgg" /\ UNCHANGED stranded
      /\ proc[p] \in Request /\ WorkOK(proc[p]) /\ proc[p].s \in Servers /\ Claim(p) = "none"
  BY WorkerFacts DEF EggClaim, At, PlainWork, history, ClaimTypes
<1>2. CASE Done(p) /\ UNCHANGED servers
  BY <1>1, <1>2, EndMove
<1>3. ASSUME NEW s \in Servers, s = proc[p].s, ClaimTransition(s, "provisioning"),
             proc' = [proc EXCEPT ![p] = r]
      PROVE  WorkerOK(p)
  <2>1. /\ RegistryTypeOK' /\ SameLocksExcept(s) /\ Lock(s) = "none" /\ Lock(s)' = "provisioning"
        /\ servers[s].status \in Stable
    BY <1>3, ClaimTransitionLocks DEF ClaimTypes, Transitional
  <2>2. r \in Request /\ WorkOK(r) /\ r.s = s /\ r.pc = "eggDelete"
    BY <1>1, <1>3, <2>1 DEF Request, WorkOK, PlainWork, WorkPoints, EggPoints, ObservePoints,
       DeletingPoints, Points, ProvisioningPoints, Statuses
  <2>3. WorkersOK' /\ Alone(p) /\ proc'[p] = r /\ proc'[p] # None
    BY <1>3, <2>2, WorkerBecomes DEF ClaimTypes
  <2>4. Claim(p)' = "provisioning"
    BY <2>2, <2>3 DEF Claim, ProvisioningPoints
  <2>5. Exists(s) /\ Exists(s)' /\ \A t \in Servers : Exists(t)' <=> Exists(t)
    BY <1>3, NoneAssumption DEF ClaimTransition, WriteStatus, HasStatus, Exists, ClaimTypes,
       RegistryTypeOK, Row, Statuses, Transitional
  <2>6. Takes(p, s)
    BY <1>1, <2>1, <2>2, <2>3, <2>4, <2>5 DEF Takes, SameRowsExcept, SameRow, SameLocksExcept
  <2>. QED BY <2>1, <2>3, <2>6 DEF WorkerOK, HandlerMove
<1>. QED BY <1>1, <1>2, <1>3 DEF EggClaim

LEMMA EggStepMove ==
  ASSUME ClaimTypes, NEW p \in Procs, EggDelete(p) \/ EggCreate(p) \/ EggRestore(p) \/ EggUpsert(p),
         UNCHANGED mover
  PROVE  WorkerOK(p)
<1>. USE DEF ClaimTypes
<1>1. /\ proc[p] # None /\ proc[p].pc \in EggPoints /\ proc[p] \in Request /\ WorkOK(proc[p])
      /\ proc[p].s \in Servers /\ Claim(p) = "provisioning"
  <2>1. proc[p] # None /\ proc[p].pc \in EggPoints
    BY DEF EggDelete, EggCreate, EggRestore, EggUpsert, At, EggPoints
  <2>. QED BY <2>1, WorkerFacts
<1>2. PICK s \in Servers : s = proc[p].s
  BY <1>1
<1>3. proc[p].prev \in Stable /\ proc[p].snap \in Row
  BY <1>1 DEF WorkOK, EggPoints, ObservePoints
<1>4. proc[p].prev # "transferring"
  BY <1>3 DEF Stable
<1>5. CASE EggDelete(p)
  <2>1. \E point : Goto(p, point) /\ Phase(proc[p].pc, point)
    BY <1>5 DEF EggDelete, At, EggPoints, Phase
  <2>. QED BY <1>1, <1>5, <2>1, WithinMove DEF EggDelete, history
<1>6. CASE EggCreate(p)
  <2>1. CASE Goto(p, "eggUpsert") /\ UNCHANGED stranded
    <3>1. Phase(proc[p].pc, "eggUpsert")
      BY <1>1 DEF Phase, EggPoints
    <3>. QED BY <1>1, <1>6, <2>1, <3>1, WithinMove DEF EggCreate
  <2>2. CASE Done(p) /\ stranded' = stranded \cup {s}
    <3>1. RegistryTypeOK' /\ SameRows
      BY <1>6, WriteRows DEF EggCreate
    <3>. QED BY <1>1, <1>2, <2>2, <3>1, OverMove DEF SameRows, SameRowsExcept
  <2>. QED BY <1>2, <1>6, <2>1, <2>2 DEF EggCreate
<1>7. CASE EggRestore(p)
  <2>1. RestoreTransition(s, "provisioning", proc[p].prev) /\ Done(p) /\ UNCHANGED stranded
    BY <1>2, <1>7 DEF EggRestore, history
  <2>2. /\ RegistryTypeOK' /\ SameLocksExcept(s)
        /\ Lock(s)' = IF Lock(s) = "provisioning" THEN "none" ELSE Lock(s)
    BY <1>3, <2>1, RestoreTransitionLocks DEF Transitional
  <2>3. \A t \in Servers : Exists(t)' <=> Exists(t)
    BY <1>3, <2>1, NoneAssumption DEF RestoreTransition, HasStatus, Exists, RegistryTypeOK, Row, Statuses
  <2>4. SameRowsExcept(s) /\ (Lock(s)' = "none" \/ SameRow(s))
    BY <2>2, <2>3 DEF SameRowsExcept, SameRow, SameLocksExcept
  <2>. QED BY <1>1, <1>2, <1>4, <2>1, <2>2, <2>4, OverMove
<1>8. CASE EggUpsert(p)
  <2>1. PICK row \in Row : row.status = "created" /\ Upsert(s, row)
    BY <1>2, <1>3, <1>8, EggUpsertWrites
  <2>2. row.status \in Stable /\ Done(p) /\ stranded \ {s} \subseteq stranded'
    BY <1>2, <1>8, <2>1 DEF EggUpsert, Stable
  <2>3. /\ RegistryTypeOK' /\ SameLocksExcept(s)
        /\ Lock(s)' = IF PortTaken(s, row.node, row.port) THEN Lock(s) ELSE "none"
    BY <2>1, <2>2, UpsertLocks
  <2>4. /\ PortTaken(s, row.node, row.port) => SameRows
        /\ \A t \in Servers \ {s} : Exists(t)' <=> Exists(t)
    BY <2>1, SameTableRows DEF Upsert, Exists, RegistryTypeOK
  <2>5. SameRowsExcept(s) /\ (Lock(s)' = "none" \/ SameRow(s))
    BY <2>3, <2>4 DEF SameRowsExcept, SameRow, SameLocksExcept, SameRows
  <2>. QED BY <1>1, <1>2, <1>4, <2>2, <2>3, <2>5, OverMove
<1>. QED BY <1>5, <1>6, <1>7, <1>8

LEMMA DeleteStepMove ==
  ASSUME ClaimTypes, NEW p \in Procs, proc[p] # None => proc[p].op \notin AdminDeleteOps,
         DeleteDatabases(p) \/ DeleteContainer(p) \/ RemoveRow(p) \/ RestoreRow(p), UNCHANGED mover
  PROVE  WorkerOK(p)
<1>. USE DEF ClaimTypes
<1>1. /\ proc[p] # None /\ proc[p].pc \in DeletingPoints /\ proc[p] \in Request /\ WorkOK(proc[p])
      /\ proc[p].s \in Servers /\ Claim(p) = "deleting"
  <2>1. proc[p] # None /\ proc[p].pc \in DeletingPoints \cup {"lateRestore"}
    BY DEF DeleteDatabases, DeleteContainer, RemoveRow, RestoreRow, At, DeletingPoints
  <2>2. proc[p].pc # "lateRestore"
    BY <2>1, WorkerFacts DEF WorkOK, WorkPoints, PlainWork, EggPoints, ObservePoints, DeletingPoints
  <2>. QED BY <2>1, <2>2, WorkerFacts
<1>2. PICK s \in Servers : s = proc[p].s
  BY <1>1
<1>3. proc[p].op \in RemoveOps /\ proc[p].prev \in Stable \cup {"transferring"}
  BY <1>1 DEF WorkOK
<1>4. CASE DeleteDatabases(p) \/ DeleteContainer(p)
  <2>1. \E point : Goto(p, point) /\ Phase(proc[p].pc, point)
    BY <1>4 DEF DeleteDatabases, DeleteContainer, At, DeletingPoints, Phase
  <2>. QED BY <1>1, <1>4, <2>1, WithinMove DEF DeleteDatabases, DeleteContainer, history
<1>5. CASE RemoveRow(p)
  <2>1. Remove(s) /\ Done(p) /\ stranded' = stranded \ {s}
    BY <1>1, <1>2, <1>5 DEF RemoveRow
  <2>2. RegistryTypeOK' /\ SameLocksExcept(s) /\ Lock(s)' = "none"
    BY <2>1, RemoveLocks
  <2>3. ~Exists(s)' /\ \A t \in Servers \ {s} : Exists(t)' <=> Exists(t)
    BY <2>1 DEF Remove, Exists, RegistryTypeOK
  <2>. QED BY <1>1, <1>2, <2>1, <2>2, <2>3, OverMove DEF SameRowsExcept, SameRow, SameLocksExcept
<1>6. CASE RestoreRow(p)
  <2>1. RestoreDeletion(s, proc[p].prev) /\ Done(p)
    BY <1>1, <1>2, <1>6 DEF RestoreRow, RestoreStatus
  <2>2. /\ RegistryTypeOK' /\ SameLocksExcept(s)
        /\ Lock(s)' = IF Lock(s) # "deleting" THEN Lock(s)
                      ELSE IF proc[p].prev \in Transitional THEN proc[p].prev ELSE "none"
    BY <1>3, <2>1, RestoreDeletionLocks DEF Statuses, Transitional
  <2>3. \A t \in Servers : Exists(t)' <=> Exists(t)
    BY <1>3, <2>1, NoneAssumption DEF RestoreDeletion, HasStatus, Exists, RegistryTypeOK, Row,
       Statuses, Transitional
  <2>4. /\ stranded \ {s} \subseteq stranded'
        /\ Lock(s) = "deleting" /\ proc[p].prev = "transferring" => s \in stranded'
    BY <1>1, <1>2, <1>6 DEF RestoreRow, RestoreStatus, Lock, HasStatus, Transitional
  <2>5. \/ Lock(s)' = "none" /\ proc[p].prev # "transferring"
        \/ Lock(s)' = "transferring" /\ s \in stranded'
        \/ SameRow(s)
    <3>1. proc[p].prev \in Stable => proc[p].prev \notin Transitional
      BY DEF Stable, Transitional
    <3>. QED BY <1>3, <2>2, <2>3, <2>4, <3>1 DEF SameRow, Transitional
  <2>6. SameRowsExcept(s)
    BY <2>2, <2>3 DEF SameRowsExcept, SameRow, SameLocksExcept
  <2>. QED BY <1>1, <1>2, <2>1, <2>2, <2>4, <2>5, <2>6, OverMove
<1>. QED BY <1>4, <1>5, <1>6

LEMMA CrashMove ==
  ASSUME ClaimTypes, NEW p \in Procs, Crash(p), UNCHANGED mover
  PROVE  WorkerOK(p)
<1>1. /\ proc[p] # None /\ Done(p) /\ UNCHANGED servers /\ proc[p].s \in Servers
      /\ stranded' = IF Claim(p) # "none" THEN stranded \cup {proc[p].s} ELSE stranded
  BY WorkerFacts DEF Crash, ClaimTypes
<1>2. CASE Claim(p) = "none"
  BY <1>1, <1>2, EndMove
<1>3. CASE Claim(p) # "none"
  <2>1. RegistryTypeOK' /\ SameRows
    BY <1>1, SameTable, SameTableRows DEF ClaimTypes
  <2>. QED BY <1>1, <1>3, <2>1, OverMove DEF SameRows, SameRowsExcept
<1>. QED BY <1>2, <1>3

LEMMA HandlerMoves ==
  ASSUME ClaimTypes, Orderly, NEW p \in Procs, Handler(p)
  PROVE  WorkerOK(p)
<1>1. UNCHANGED mover
  BY DEF Handler, DeleteServerDatabases
<1>2. Arrive(p) \/ Step(p) \/ Crash(p)
  BY DEF Handler, DeleteServerDatabases, Step, DeleteStep
<1>3. CASE Step(p)
  <2>1. proc[p] # None
    BY <1>3 DEF Step, CreateStep, DeleteStep, EggStep, WriteStep, RuntimeStep, AssignPorts, ResolveEgg,
       CreateContainer, RecordRead, Finalize, RecordUpsert, Notify, Cleanup, Release, ClaimDelete,
       DeleteDatabases, DeleteContainer, RemoveRow, RestoreRow, EggClaim, EggDelete, EggRestore,
       EggCreate, EggUpsert, ReconcilePorts, SettingsWrite, WriteFlag, FreezeStatus,
       UnfreezeStatus, FreezeStop, PowerAgent, PowerStatus, ObserveRead, ObserveWrite, At
  <2>2. WorkOK(proc[p]) /\ proc[p].op \notin AdminDeleteOps
    BY <2>1, WorkerFacts DEF ClaimTypes, WorkOK, Orderly
  <2>3. ~CreateStep(p) /\ ~ClaimDelete(p)
    BY <2>2 DEF WorkOK, WorkPoints, PlainWork, ObservePoints, EggPoints, DeletingPoints, CreateStep,
       ClaimDelete, AssignPorts, ResolveEgg, CreateContainer, RecordRead, Finalize, RecordUpsert,
       Notify, Cleanup, Release, At
  <2>. QED BY <1>1, <1>3, <2>2, <2>3, PlainMove, EggClaimMove, EggStepMove, DeleteStepMove
         DEF Step, DeleteStep, EggStep
<1>. QED BY <1>1, <1>2, <1>3, ArriveMove, CrashMove

-----------------------------------------------------------------------------
(* Every step of a job is a move.                                          *)

JobStepOK(m) == ClaimTypes' /\ JobMove(m)

LEMMA JobBecomes ==
  ASSUME MoversOK, NEW m \in Movers, NEW r \in Job, JobOK(r), mover' = [mover EXCEPT ![m] = r]
  PROVE  /\ MoversOK' /\ \A k \in Movers \ {m} : mover'[k] = mover[k]
         /\ \A s \in Servers : MoverHolds(m, s)' <=> r.s = s /\ r.stage \in ClaimedStages
BY NoJobAssumption DEF MoversOK, MoverHolds

LEMMA JobEnds ==
  ASSUME MoversOK, NEW m \in Movers, EndJob(m)
  PROVE  /\ MoversOK' /\ \A k \in Movers \ {m} : mover'[k] = mover[k]
         /\ \A s \in Servers : ~MoverHolds(m, s)'
BY NoJobAssumption DEF MoversOK, MoverHolds, EndJob

LEMMA JobFacts ==
  ASSUME MoversOK, NEW m \in Movers, mover[m] # None
  PROVE  /\ mover[m] \in Job /\ JobOK(mover[m]) /\ mover[m].s \in Servers
         /\ mover[m].from \in Nodes /\ mover[m].to \in Nodes
         /\ \A s \in Servers : MoverHolds(m, s) <=> mover[m].s = s /\ mover[m].stage \in ClaimedStages
BY DEF MoversOK, Job, MoverHolds

\* A job that keeps what it has, or what it has not.
LEMMA JobStays ==
  ASSUME ClaimTypes, NEW m \in Movers, mover[m] # None, NEW r \in Job, JobOK(r), r.s = mover[m].s,
         r.stage \in ClaimedStages <=> mover[m].stage \in ClaimedStages,
         mover' = [mover EXCEPT ![m] = r], UNCHANGED <<servers, proc, stranded>>
  PROVE  JobStepOK(m)
<1>1. /\ MoversOK' /\ \A k \in Movers \ {m} : mover'[k] = mover[k]
      /\ \A s \in Servers : MoverHolds(m, s)' <=> MoverHolds(m, s)
  <2>1. \A s \in Servers : MoverHolds(m, s) <=> mover[m].s = s /\ mover[m].stage \in ClaimedStages
    BY JobFacts DEF ClaimTypes
  <2>2. /\ MoversOK' /\ \A k \in Movers \ {m} : mover'[k] = mover[k]
        /\ \A s \in Servers : MoverHolds(m, s)' <=> r.s = s /\ r.stage \in ClaimedStages
    BY JobBecomes DEF ClaimTypes
  <2>. QED BY <2>1, <2>2
<1>2. RegistryTypeOK' /\ SameRows /\ WorkersOK'
  BY SameTable, SameTableRows DEF ClaimTypes, WorkersOK
<1>. QED BY <1>1, <1>2 DEF JobStepOK, JobMove, JobGoes, ClaimTypes

LEMMA JobEnters ==
  ASSUME ClaimTypes, NEW m \in Movers, mover[m] # None, NEW stage \in ClaimedStages \cup OtherStages,
         Enter(m, stage), stage # "claim",
         stage \in ClaimedStages <=> mover[m].stage \in ClaimedStages,
         UNCHANGED <<servers, proc, stranded>>
  PROVE  JobStepOK(m)
<1>. DEFINE r == [mover[m] EXCEPT !.stage = stage]
<1>1. mover[m] \in Job /\ JobOK(mover[m])
  BY JobFacts DEF ClaimTypes
<1>2. r \in Job /\ r.stage = stage /\ r.s = mover[m].s /\ r.prev = mover[m].prev /\ r.port = mover[m].port
  BY <1>1 DEF Job
<1>3. JobOK(r)
  BY <1>1, <1>2 DEF JobOK
<1>4. mover' = [mover EXCEPT ![m] = r]
  BY DEF Enter
<1>. HIDE DEF r
<1>. QED BY <1>2, <1>3, <1>4, JobStays

LEMMA JobStops ==
  ASSUME ClaimTypes, NEW m \in Movers, mover[m] # None, EndJob(m), mover[m].stage \notin ClaimedStages,
         UNCHANGED <<servers, proc>>, stranded \subseteq stranded'
  PROVE  JobStepOK(m)
<1>1. /\ MoversOK' /\ \A k \in Movers \ {m} : mover'[k] = mover[k]
      /\ \A s \in Servers : MoverHolds(m, s)' <=> MoverHolds(m, s)
  BY JobEnds, JobFacts DEF ClaimTypes
<1>2. RegistryTypeOK' /\ SameRows /\ WorkersOK'
  BY SameTable, SameTableRows DEF ClaimTypes, WorkersOK
<1>. QED BY <1>1, <1>2 DEF JobStepOK, JobMove, JobGoes, ClaimTypes

LEMMA PrepareMove ==
  ASSUME ClaimTypes, NEW m \in Movers,
         CheckAccess(m) \/ ChoosePort(m) \/ ListDatabases(m)
  PROVE  JobStepOK(m)
<1>1. /\ mover[m] # None /\ mover[m].stage \in {"access", "port", "list"}
      /\ UNCHANGED <<servers, proc, stranded>>
  BY DEF CheckAccess, ChoosePort, ListDatabases, Stage, requests, claims
<1>2. mover[m] \in Job /\ JobOK(mover[m])
  BY <1>1, JobFacts DEF ClaimTypes
<1>3. CASE CheckAccess(m)
  BY <1>1, <1>3, JobEnters, JobStops DEF CheckAccess, Stage, ClaimedStages, OtherStages
<1>4. ASSUME Stage(m, "port"), NEW q \in Ports,
             mover' = [mover EXCEPT ![m] = [@ EXCEPT !.stage = "claim", !.port = q]]
      PROVE  JobStepOK(m)
  <2>. DEFINE r == [[mover[m] EXCEPT !.stage = "claim"] EXCEPT !.port = q]
  <2>1. r \in Job /\ r.stage = "claim" /\ r.s = mover[m].s /\ r.port \in Ports
    BY <1>2 DEF Job, OtherStages
  <2>2. JobOK(r)
    BY <2>1 DEF JobOK, ClaimedStages
  <2>3. mover' = [mover EXCEPT ![m] = r]
    BY <1>2, <1>4 DEF Job
  <2>4. r.stage \in ClaimedStages <=> mover[m].stage \in ClaimedStages
    BY <1>4, <2>1 DEF Stage, ClaimedStages
  <2>. HIDE DEF r
  <2>. QED BY <1>1, <2>1, <2>2, <2>3, <2>4, JobStays
<1>5. CASE ChoosePort(m)
  BY <1>1, <1>4, <1>5, JobStops DEF ChoosePort, Stage, ClaimedStages
<1>6. CASE ListDatabases(m)
  <2>1. PICK found \in BOOLEAN :
          mover' = [mover EXCEPT ![m] = [@ EXCEPT !.stage = "serverData", !.databases = found]]
    BY <1>6 DEF ListDatabases
  <2>. DEFINE r == [[mover[m] EXCEPT !.stage = "serverData"] EXCEPT !.databases = found]
  <2>2. /\ r \in Job /\ r.stage = "serverData" /\ r.s = mover[m].s /\ r.port = mover[m].port
        /\ r.prev = mover[m].prev
    BY <1>2 DEF Job, ClaimedStages
  <2>3. mover[m].stage \in ClaimedStages /\ r.stage \in ClaimedStages
    BY <1>6, <2>2 DEF ListDatabases, Stage, ClaimedStages
  <2>4. JobOK(r)
    BY <1>2, <2>2, <2>3 DEF JobOK
  <2>5. mover' = [mover EXCEPT ![m] = r]
    BY <1>2, <2>1 DEF Job
  <2>. HIDE DEF r
  <2>. QED BY <1>1, <2>2, <2>3, <2>4, <2>5, JobStays
<1>. QED BY <1>3, <1>5, <1>6

\* Whoever claims the row holds its lock from then on.
LEMMA ClaimTransferMove ==
  ASSUME ClaimTypes, NEW m \in Movers, ClaimTransfer(m)
  PROVE  JobStepOK(m)
<1>1. /\ mover[m] # None /\ mover[m].stage = "claim" /\ UNCHANGED <<proc, stranded>>
      /\ mover[m] \in Job /\ JobOK(mover[m]) /\ mover[m].s \in Servers
      /\ \A t \in Servers : ~MoverHolds(m, t)
  <2>1. mover[m] # None /\ mover[m].stage = "claim" /\ UNCHANGED <<proc, stranded>>
    BY DEF ClaimTransfer, Stage, requests, claims
  <2>2. mover[m].stage \notin ClaimedStages
    BY <2>1 DEF ClaimedStages
  <2>. QED BY <2>1, <2>2, JobFacts DEF ClaimTypes
<1>2. PICK s \in Servers : s = mover[m].s
  BY <1>1
<1>3. CASE EndJob(m) /\ UNCHANGED servers
  BY <1>1, <1>3, JobStops DEF ClaimedStages
<1>4. CASE /\ ClaimTransition(s, "transferring")
           /\ mover' = [mover EXCEPT ![m] = [@ EXCEPT !.stage = "list", !.prev = servers[s].status]]
  <2>1. /\ RegistryTypeOK' /\ SameLocksExcept(s) /\ Lock(s) = "none" /\ Lock(s)' = "transferring"
        /\ servers[s].status \in Stable
    BY <1>4, ClaimTransitionLocks DEF ClaimTypes, Transitional
  <2>. DEFINE r == [[mover[m] EXCEPT !.stage = "list"] EXCEPT !.prev = servers[s].status]
  <2>2. /\ r \in Job /\ r.stage = "list" /\ r.s = s /\ r.port = mover[m].port /\ r.prev \in Stable
    BY <1>1, <1>2, <2>1 DEF Job, ClaimedStages, Statuses
  <2>3. JobOK(r)
    BY <1>1, <2>2 DEF JobOK
  <2>4. mover' = [mover EXCEPT ![m] = r]
    BY <1>1, <1>4 DEF Job
  <2>. HIDE DEF r
  <2>5. /\ MoversOK' /\ \A k \in Movers \ {m} : mover'[k] = mover[k]
        /\ \A t \in Servers : MoverHolds(m, t)' <=> t = s
    <3>1. r.stage \in ClaimedStages
      BY <2>2 DEF ClaimedStages
    <3>. QED BY <2>2, <2>3, <2>4, <3>1, JobBecomes DEF ClaimTypes
  <2>6. Exists(s) /\ \A t \in Servers : Exists(t)' <=> Exists(t)
    BY <1>4, NoneAssumption DEF ClaimTransition, WriteStatus, HasStatus, Exists, ClaimTypes,
       RegistryTypeOK, Row, Statuses, Transitional
  <2>7. JobTakes(m, s)
    BY <1>1, <2>1, <2>5, <2>6 DEF JobTakes, SameRowsExcept, SameRow, SameLocksExcept
  <2>8. WorkersOK'
    BY <1>1 DEF ClaimTypes, WorkersOK
  <2>. QED BY <1>1, <2>1, <2>5, <2>7, <2>8 DEF JobStepOK, JobMove, ClaimTypes
<1>. QED BY <1>2, <1>3, <1>4 DEF ClaimTransfer

\* A job in the middle of its work.
LEMMA JobOnward ==
  ASSUME ClaimTypes, NEW m \in Movers, mover[m] # None, UNCHANGED <<servers, proc, stranded>>,
         mover[m].stage \in ClaimedStages, Fail(m) \/ \E stage \in ClaimedStages : Enter(m, stage)
  PROVE  JobStepOK(m)
<1>1. \E stage \in ClaimedStages : Enter(m, stage)
  BY DEF Fail, ClaimedStages
<1>2. "claim" \notin ClaimedStages
  BY DEF ClaimedStages
<1>. QED BY <1>1, <1>2, JobEnters

LEMMA ImportMove ==
  ASSUME ClaimTypes, NEW m \in Movers, TransferDatabaseData(m) \/ TransferBackups(m)
  PROVE  JobStepOK(m)
<1>1. PICK tried \in SUBSET Attachments, stage \in ClaimedStages :
        mover' = [mover EXCEPT ![m] = [@ EXCEPT !.tried = tried, !.stage = stage]]
  <2>1. mover[m] # None
    BY DEF TransferDatabaseData, TransferBackups, Import, Stage
  <2>2. mover[m].tried \cup {"databases"} \in SUBSET Attachments
        /\ mover[m].tried \cup {"backups"} \in SUBSET Attachments
    BY <2>1, JobFacts DEF ClaimTypes, Job, Attachments
  <2>. QED BY <2>2 DEF TransferDatabaseData, TransferBackups, Import, ClaimedStages
<1>2. /\ mover[m] # None /\ mover[m].stage \in ClaimedStages /\ UNCHANGED <<servers, proc, stranded>>
      /\ mover[m] \in Job /\ JobOK(mover[m])
  <2>1. /\ mover[m] # None /\ mover[m].stage \in ClaimedStages /\ UNCHANGED <<servers, proc, stranded>>
    BY DEF TransferDatabaseData, TransferBackups, Import, Stage, ClaimedStages, requests, claims
  <2>. QED BY <2>1, JobFacts DEF ClaimTypes
<1>. DEFINE r == [[mover[m] EXCEPT !.tried = tried] EXCEPT !.stage = stage]
<1>3. /\ r \in Job /\ r.stage = stage /\ r.s = mover[m].s /\ r.port = mover[m].port
      /\ r.prev = mover[m].prev
  BY <1>2 DEF Job
<1>4. JobOK(r)
  BY <1>2, <1>3 DEF JobOK
<1>5. mover' = [mover EXCEPT ![m] = r]
  BY <1>1, <1>2 DEF Job
<1>. HIDE DEF r
<1>. QED BY <1>2, <1>3, <1>4, <1>5, JobStays

LEMMA CopyMove ==
  ASSUME ClaimTypes, NEW m \in Movers,
         \/ TransferServerData(m) \/ CreateOnTarget(m) \/ CreateDatabases(m) \/ RestorePower(m)
         \/ FinalizeDatabases(m) \/ RestoreDatabases(m) \/ RollDatabases(m) \/ RollServer(m)
         \/ RollBackups(m) \/ RestartSource(m)
  PROVE  JobStepOK(m)
<1>1. /\ mover[m] # None /\ mover[m].stage \in ClaimedStages /\ UNCHANGED <<servers, proc, stranded>>
  BY DEF TransferServerData, CreateOnTarget, CreateDatabases, RestorePower, FinalizeDatabases,
     RestoreDatabases, RollDatabases, RollServer, RollBackups, RestartSource, Stage, ClaimedStages,
     requests, claims
<1>2. Fail(m) \/ \E stage \in ClaimedStages : Enter(m, stage)
  BY DEF TransferServerData, CreateOnTarget, CreateDatabases, RestorePower, FinalizeDatabases,
     RestoreDatabases, RollDatabases, RollServer, RollBackups, RestartSource, AfterRollServer,
     ClaimedStages
<1>. QED BY <1>1, <1>2, JobOnward

LEMMA CleanMove ==
  ASSUME ClaimTypes, NEW m \in Movers, CleanDatabases(m) \/ CleanServer(m) \/ CleanBackups(m)
  PROVE  JobStepOK(m)
<1>1. /\ mover[m] # None /\ mover[m].stage \in {"cleanDatabases", "cleanServer", "cleanBackups"}
      /\ UNCHANGED <<servers, proc, stranded>>
  BY DEF CleanDatabases, CleanServer, CleanBackups, Stage, requests, claims
<1>2. mover[m].stage \notin ClaimedStages /\ {"cleanServer", "cleanBackups"} \cap ClaimedStages = {}
  BY <1>1 DEF ClaimedStages
<1>3. EndJob(m) \/ \E stage \in {"cleanServer", "cleanBackups"} : Enter(m, stage)
  BY DEF CleanDatabases, CleanServer, CleanBackups
<1>. QED BY <1>1, <1>2, <1>3, JobEnters, JobStops DEF OtherStages

\* A job that lets go of its row, and goes on to clean or ends.
LEMMA JobLetsGo ==
  ASSUME ClaimTypes, NEW m \in Movers, NEW s \in Servers, MoverHolds(m, s), MoversOK', RegistryTypeOK',
         UNCHANGED proc, stranded \subseteq stranded', \A k \in Movers \ {m} : mover'[k] = mover[k],
         \A t \in Servers : ~MoverHolds(m, t)',
         SameRowsExcept(s),
         \/ Lock(s) = "transferring" /\ Lock(s)' = "none"
         \/ SameRow(s) /\ (Lock(s) # "transferring" \/ s \in stranded')
  PROVE  JobStepOK(m)
<1>1. \A t \in Servers : MoverHolds(m, t) <=> t = s
  BY DEF MoverHolds
<1>2. WorkersOK'
  BY DEF ClaimTypes, WorkersOK
<1>. QED BY <1>1, <1>2 DEF JobStepOK, JobMove, JobLeavesLocks, ClaimTypes

LEMMA FinalizeTransferLocks ==
  ASSUME RegistryTypeOK, NEW s \in Servers, NEW n \in Nodes, NEW q \in Ports, NEW status \in Stable,
         FinalizeTransfer(s, n, q, status)
  PROVE  /\ RegistryTypeOK' /\ SameRowsExcept(s)
         /\ Lock(s) = "transferring" /\ Lock(s)' = "none"
<1>. DEFINE row == [[[servers[s] EXCEPT !.node = n] EXCEPT !.port = q] EXCEPT !.status = status]
<1>1. servers[s] \in Row /\ servers[s].status = "transferring" /\ Exists(s)
  BY DEF RegistryTypeOK, FinalizeTransfer, HasStatus, Exists
<1>2. row \in Row /\ row.status = status
  BY <1>1 DEF Row, Statuses
<1>3. servers' = [servers EXCEPT ![s] = row]
  BY <1>1 DEF FinalizeTransfer, RegistryTypeOK, Row
<1>. HIDE DEF row
<1>4. RegistryTypeOK' /\ servers'[s] = row /\ \A t \in Servers \ {s} : servers'[t] = servers[t]
  BY <1>2, <1>3 DEF RegistryTypeOK
<1>5. SameRowsExcept(s)
  BY <1>4 DEF SameRowsExcept, SameRow, Lock, HasStatus, Exists
<1>6. Lock(s) = "transferring" /\ Lock(s)' = "none"
  BY <1>1, <1>2, <1>4 DEF Lock, HasStatus, Transitional, Stable
<1>. QED BY <1>4, <1>5, <1>6

LEMMA CommitMove ==
  ASSUME ClaimTypes, NEW m \in Movers, Commit(m)
  PROVE  JobStepOK(m)
<1>1. /\ mover[m] # None /\ mover[m].stage = "commit" /\ UNCHANGED <<proc, stranded>>
  BY DEF Commit, Stage, requests, claims
<1>2. mover[m].stage \in ClaimedStages
  BY <1>1 DEF ClaimedStages
<1>3. PICK s \in Servers : s = mover[m].s
  BY <1>1, JobFacts DEF ClaimTypes
<1>4. /\ mover[m] \in Job /\ JobOK(mover[m]) /\ mover[m].to \in Nodes /\ MoverHolds(m, s)
      /\ mover[m].port \in Ports /\ mover[m].prev \in Stable
  BY <1>1, <1>2, <1>3, JobFacts DEF ClaimTypes, JobOK
<1>5. CASE FinalizeTransfer(s, mover[m].to, mover[m].port, mover[m].prev) /\ Enter(m, "cleanDatabases")
  <2>1. RegistryTypeOK' /\ SameRowsExcept(s) /\ Lock(s) = "transferring" /\ Lock(s)' = "none"
    BY <1>4, <1>5, FinalizeTransferLocks DEF ClaimTypes
  <2>. DEFINE r == [mover[m] EXCEPT !.stage = "cleanDatabases"]
  <2>2. r \in Job /\ r.stage = "cleanDatabases"
    BY <1>4 DEF Job, OtherStages
  <2>3. JobOK(r) /\ r.stage \notin ClaimedStages
    BY <2>2 DEF JobOK, ClaimedStages
  <2>4. mover' = [mover EXCEPT ![m] = r]
    BY <1>5 DEF Enter
  <2>. HIDE DEF r
  <2>5. /\ MoversOK' /\ \A k \in Movers \ {m} : mover'[k] = mover[k]
        /\ \A t \in Servers : ~MoverHolds(m, t)'
    BY <2>2, <2>3, <2>4, JobBecomes DEF ClaimTypes
  <2>. QED BY <1>1, <1>4, <2>1, <2>5, JobLetsGo
<1>6. CASE Enter(m, "databaseRowsBack") /\ UNCHANGED servers
  <2>1. "databaseRowsBack" \in ClaimedStages
    BY DEF ClaimedStages
  <2>. QED BY <1>1, <1>2, <1>6, <2>1, JobOnward
<1>. QED BY <1>3, <1>5, <1>6 DEF Commit

LEMMA RestoreServerMove ==
  ASSUME ClaimTypes, NEW m \in Movers, RestoreServer(m)
  PROVE  JobStepOK(m)
<1>1. mover[m] # None /\ mover[m].stage = "restore" /\ UNCHANGED <<proc, stranded>> /\ EndJob(m)
  BY DEF RestoreServer, Stage, requests, claims
<1>2. mover[m].stage \in ClaimedStages
  BY <1>1 DEF ClaimedStages
<1>3. PICK s \in Servers : s = mover[m].s
  BY <1>1, JobFacts DEF ClaimTypes
<1>4. MoverHolds(m, s) /\ mover[m].prev \in Stable
  BY <1>1, <1>2, <1>3, JobFacts DEF ClaimTypes, JobOK
<1>5. RestoreTransition(s, "transferring", mover[m].prev)
  BY <1>3 DEF RestoreServer
<1>6. /\ RegistryTypeOK' /\ SameLocksExcept(s)
      /\ Lock(s)' = IF Lock(s) = "transferring" THEN "none" ELSE Lock(s)
  BY <1>4, <1>5, RestoreTransitionLocks DEF ClaimTypes, Transitional
<1>7. \A t \in Servers : Exists(t)' <=> Exists(t)
  BY <1>4, <1>5, NoneAssumption DEF RestoreTransition, HasStatus, Exists, ClaimTypes,
     RegistryTypeOK, Row, Statuses
<1>8. /\ SameRowsExcept(s)
      /\ \/ Lock(s) = "transferring" /\ Lock(s)' = "none"
         \/ SameRow(s) /\ Lock(s) # "transferring"
  BY <1>6, <1>7 DEF SameRowsExcept, SameRow, SameLocksExcept
<1>9. /\ MoversOK' /\ \A k \in Movers \ {m} : mover'[k] = mover[k]
      /\ \A t \in Servers : ~MoverHolds(m, t)'
  BY <1>1, JobEnds DEF ClaimTypes
<1>. QED BY <1>1, <1>4, <1>6, <1>8, <1>9, JobLetsGo

LEMMA CrashTransferMove ==
  ASSUME ClaimTypes, NEW m \in Movers, CrashTransfer(m)
  PROVE  JobStepOK(m)
<1>1. mover[m] # None /\ UNCHANGED <<servers, proc>> /\ EndJob(m) /\ stranded \subseteq stranded'
  BY DEF CrashTransfer, requests
<1>2. CASE mover[m].stage \notin ClaimedStages
  BY <1>1, <1>2, JobStops
<1>3. CASE mover[m].stage \in ClaimedStages
  <2>1. PICK s \in Servers : s = mover[m].s
    BY <1>1, JobFacts DEF ClaimTypes
  <2>2. MoverHolds(m, s) /\ s \in stranded'
    BY <1>1, <1>3, <2>1 DEF MoverHolds, CrashTransfer
  <2>3. RegistryTypeOK' /\ SameRowsExcept(s) /\ SameRow(s)
    BY <1>1, SameTable, SameTableRows DEF ClaimTypes, SameRows, SameRowsExcept
  <2>4. /\ MoversOK' /\ \A k \in Movers \ {m} : mover'[k] = mover[k]
        /\ \A t \in Servers : ~MoverHolds(m, t)'
    BY <1>1, JobEnds DEF ClaimTypes
  <2>. QED BY <1>1, <2>2, <2>3, <2>4, JobLetsGo
<1>. QED BY <1>2, <1>3

LEMMA StartTransferMove ==
  ASSUME ClaimTypes, NEW m \in Movers, NEW s \in Servers, NEW from \in Nodes, NEW to \in Nodes,
         StartTransfer(m, s, from, to)
  PROVE  JobStepOK(m)
<1>. DEFINE r == [stage |-> "access", s |-> s, from |-> from, to |-> to, port |-> None,
                  prev |-> "none", databases |-> FALSE, tried |-> {}]
<1>1. mover[m] = None /\ mover' = [mover EXCEPT ![m] = r] /\ UNCHANGED <<servers, proc, stranded>>
  BY DEF StartTransfer, requests, claims
<1>2. r \in Job /\ r.stage = "access"
  BY DEF Job, OtherStages, Attachments
<1>3. JobOK(r) /\ r.stage \notin ClaimedStages
  BY <1>2 DEF JobOK, ClaimedStages
<1>. HIDE DEF r
<1>4. /\ MoversOK' /\ \A k \in Movers \ {m} : mover'[k] = mover[k]
      /\ \A t \in Servers : ~MoverHolds(m, t)'
  BY <1>1, <1>2, <1>3, JobBecomes DEF ClaimTypes
<1>5. \A t \in Servers : ~MoverHolds(m, t)
  BY <1>1 DEF MoverHolds
<1>6. RegistryTypeOK' /\ SameRows /\ WorkersOK'
  BY <1>1, SameTable, SameTableRows DEF ClaimTypes, WorkersOK
<1>. QED BY <1>1, <1>4, <1>5, <1>6 DEF JobStepOK, JobMove, JobGoes, ClaimTypes

LEMMA JobMovesLocks ==
  ASSUME ClaimTypes, NEW m \in Movers, Forward(m) \/ Rollback(m) \/ CrashTransfer(m)
  PROVE  JobStepOK(m)
BY PrepareMove, ClaimTransferMove, ImportMove, CopyMove, CleanMove, CommitMove, RestoreServerMove,
   CrashTransferMove DEF Forward, Rollback

-----------------------------------------------------------------------------
(* The theorem.                                                            *)

LEMMA ClaimsInit == TransferInit => ClaimTypes /\ Exclusive
<1>. SUFFICES ASSUME TransferInit PROVE ClaimTypes /\ Exclusive
  OBVIOUS
<1>1. servers \in [Servers -> Row] /\ \A s \in Servers : servers[s].status \in Stable
  <2>1. {ft[1] : ft \in Routes} \subseteq Nodes
    BY RoutesAssumption
  <2>2. servers \in [Servers -> [node : {ft[1] : ft \in Routes}, port : Ports,
                               status : {"stopped", "running"}, frozen : {FALSE}]]
    BY DEF TransferInit
  <2>. QED BY <2>1, <2>2 DEF Row, Statuses, Stable
<1>2. ClaimTypes
  BY <1>1 DEF TransferInit, ClaimTypes, RegistryTypeOK, WorkersOK, MoversOK
<1>3. (\A p \in Procs, s \in Servers : ~Holds(p, s)) /\ \A m \in Movers, s \in Servers : ~MoverHolds(m, s)
  BY DEF TransferInit, Holds, Claim, MoverHolds
<1>4. \A s \in Servers : Lock(s) = "none"
  BY <1>1 DEF Lock, HasStatus, Stable, Transitional
<1>. QED BY <1>2, <1>3, <1>4 DEF Exclusive, Backed, ClaimsExclude, JobsBacked, JobsExclude,
       TakenFromJob, JobsOwned

LEMMA ClaimsStep ==
  ASSUME Orderly, ClaimTypes, Exclusive, [TransferNext]_allVars
  PROVE  ClaimTypes' /\ Exclusive'
<1>1. CASE UNCHANGED allVars
  <2>1. ClaimTypes' /\ SameRows
    BY <1>1, SameTable, SameTableRows DEF allVars, vars, ClaimTypes, WorkersOK, MoversOK
  <2>2. /\ UNCHANGED <<proc, stranded>> /\ \A p \in Procs : Claim(p)' = Claim(p)
        /\ \A p \in Procs, s \in Servers : Holds(p, s)' <=> Holds(p, s)
        /\ \A m \in Movers, s \in Servers : MoverHolds(m, s)' <=> MoverHolds(m, s)
    BY <1>1 DEF allVars, vars, Holds, Claim, MoverHolds
  <2>3. Backed' /\ ClaimsExclude' /\ TakenFromJob'
    BY <2>1, <2>2 DEF Exclusive, Backed, ClaimsExclude, TakenFromJob, SameRows, SameRow
  <2>4. JobsBacked' /\ JobsExclude' /\ JobsOwned'
    BY <2>1, <2>2 DEF Exclusive, JobsBacked, JobsExclude, JobsOwned, SameRows, SameRow
  <2>. QED BY <2>1, <2>3, <2>4 DEF Exclusive
<1>2. ASSUME NEW p \in Procs, Handler(p)
      PROVE  ClaimTypes' /\ Exclusive'
  <2>1. RegistryTypeOK' /\ WorkersOK' /\ HandlerMove(p)
    BY <1>2, HandlerMoves DEF WorkerOK
  <2>2. MoversOK'
    BY <2>1 DEF HandlerMove, ClaimTypes, MoversOK
  <2>. QED BY <2>1, <2>2, HandlerMoveKeeps DEF ClaimTypes
<1>3. ASSUME NEW m \in Movers, JobStepOK(m)
      PROVE  ClaimTypes' /\ Exclusive'
  BY <1>3, JobMoveKeeps DEF JobStepOK
<1>. QED BY <1>1, <1>2, <1>3, JobMovesLocks, StartTransferMove DEF TransferNext

\* A server has one transfer at a time, beside which only a delete may work,
\* and a row says `transferring` only while a transfer holds it or has left
\* it behind (claimTransition before executeTransfer, and every way out of
\* that function, against the requests that run meanwhile).
THEOREM TransfersSoundAlways == ASSUME Orderly PROVE TransferSpec => []TransfersSound
<1>1. ClaimTypes /\ Exclusive /\ [TransferNext]_allVars => (ClaimTypes /\ Exclusive)'
  BY ClaimsStep
<1>2. Exclusive => TransfersSound
  BY ExclusiveSays DEF TransfersSound
<1>. QED BY <1>1, <1>2, ClaimsInit, PTL DEF TransferSpec

=============================================================================
