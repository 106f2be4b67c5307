# Formal models of the Agapornis API

The Agapornis API is the backend of a game-server panel: one or more replicas of a
NestJS process that share a PostgreSQL database and, optionally, Redis, and that
command agents (one per node) over gRPC. The agents run the containers of the game
servers; they live in another repository and are modelled only as this code uses them.

This directory holds TLA+ modules of the parts whose correctness depends on the order
in which requests, agents, timers, saves and crashes happen, the TLC configurations that
check small instances, and TLAPS proofs for every size of the system.

Paths below are relative to `src/` (the repository root); `servers/` stands for
`src/modules/servers/`, and a service without a path is in the module of its name.

    tlc -workers 2 -config MCServerLifecycle_claims.cfg MCServerLifecycle
    tlapm ServerLifecycleProofs.tla

## 1. Inventory

| Component | State it keeps | Operations | Interacts with | Right when |
|---|---|---|---|---|
| Server registry (`server-registry.service.ts`) | table `servers`: node, port, status, variables, limits; collaborators | reserve, finalize, release, claim, restore, set status, update, allocate ports, remove | every handler; serializable transactions with advisory locks | one workflow per claim, no port twice, collaborators belong to their server |
| Lifecycle handlers (controllers of `servers/`, `server-route-support.service.ts`) | locals that survive awaits | create (4 routes), delete (3 routes, 2 recovery flags), egg change, power, freeze, settings, observed status | registry, agents, eggs, databases, webhooks | every claim ends; containers match rows; panel and agent agree |
| Server transfer (`server-transfer.controller.ts`) | locals of one long request | transfer, roll-back | registry, two agents, databases, backups | the server is kept on one node, nothing is left on the other |
| Server databases (`server-databases.service.ts`) | table `server_databases` | reserve, create, power, delete | agents, registry | ports and quota hold, rows and containers match |
| Schedules (`server-schedules.service.ts`) | table, map, timers, runs | create, update, remove, run, timer | agents, database | an enabled schedule has exactly one timer or run |
| Provisioning jobs (`provisioning-jobs.service.ts`) | map, snapshots in Redis | start, report, stream, heartbeat | Redis, creation | listeners hear of the end |
| Cron jobs (`cronjobs.service.ts`) | table, timers, Redis lease | create, remove, run, timer | Redis, agents | good leases exclude, contention stops nobody |
| Backups (`backup-catalog.service.ts`, `server-backup-operations.service.ts`) | table `server_backups` | create, list, delete | agents | the catalogue repairs itself |
| Agents and certificates (`agents/`) | table, one copy per replica, certificates | register, heartbeat, rotate, revoke, poll | agents | a rotation does not lock the node out; what is shown of a node is true |
| Agent client (`agent-client/`, `grpc/`) | connections | calls with deadlines | agents | (environment of the others) |
| Placement and plans (`server-placement.service.ts`, `server-plans`, billing orders) | plans, reports of nodes | rank nodes, order | node statistics, registry | no node is promised more than it may give |
| Realtime feeds (`server-realtime.service.ts`, its controllers) | feeds, timers, listeners, queues | subscribe, poll, reconnect, write, leave | agents, browsers | feeds follow listeners; browsers see all, in order |
| Versions, files, mods | caches in memory and in a table | list, install | third parties, agents | the variables name the JAR that is there |
| Webhooks (`webhooks.service.ts`) | targets, event log | create, dispatch | every handler | a dispatch tries every target once |
| Authentication, sessions, users (`auth/`, `users/`) | accounts, links, codes, invitations | register, sign in, reset, revoke | database, Redis, mail | factors are passed, codes and links let in once, changes of accounts stand |
| Cluster security material (`security-material.service.ts`) | row, document, four files | load | database, disk | one set of keys, whoever starts |
| Settings, rate limits (`panel-settings.service.ts`, `redis.service.ts`) | settings, counters | update, load, count | disk, Redis | a start finds the settings as they were left |
| System updates (`system-update.service.ts`, `deploy/apply-native-update.sh`) | state, job and result files | check, deploy, reconcile, roll back | supervisor, services | what is reported completed was applied |
| Bootstrap tokens (`bootstrap-token.service.ts`) | tokens | generate, consume | agents, database | a token admits one agent |
| Eggs, tickets, notifications, activity log | maps, tables, saves | import, answer, prune | users, settings | tables follow memory; requesters are told; logs are pruned |

What is hard in it:

* **Interleaving.** A handler is a chain of awaits. Between two of them any other request
  runs, on the same replica or on another one, and several routes act on the row they
  read at the start. A transitional *status* (`provisioning`, `deleting`,
  `transferring`) is the only lock that spans a workflow.
* **Partial failure.** Nearly every workflow alternates between a row and an agent:
  reserve - create - finalize; claim - destroy - remove; claim - destroy - create - write.
  Each has a compensation, and the compensation may fail too.
* **Unreliable calls.** An agent call can be rejected, fail before it ran, or run and lose
  its answer. The last two look alike to the caller.
* **Crashes.** A claim is a value in a table and its workflow a stack in a process. When
  the process dies the claim stays; no start-up code looks for it.
* **Timers and replicas.** Schedules, jobs, feeds and caches live in memory on each
  replica; only some of them use a Redis lock.
* **Saves that nobody waits for.** Users, eggs, schedules and tokens are kept in memory and
  saved as whole tables, in a queue; requests, restarts and failures come between.
* **Browsers.** A response may be slow or disappear between any two writes, and its close
  event may be over before anybody listens for it.

Each point where the code is exposed to one of these is listed under `hazards` in
PROJECT.json, with its line and the properties about it.

## 2. Modules and their code

| Module | What it is | Code |
|---|---|---|
| `ServerRegistry` | the transactions on the table `servers`, one operator each | `servers/services/server-registry.service.ts` |
| `ServerLifecycle` (extends it) | the handlers, one action per stretch between two awaits | controllers of `servers/`, `server-route-support.service.ts` |
| `ExclusiveRuntime` | what the claims promise: a lock with one holder per server | abstract specification |
| `ServerTransfer` (extends `ServerLifecycle`) | transfer jobs, composed with every handler | `server-transfer.controller.ts`, `pipeTransfer`, `finalizeTransfer` |
| `ServerDatabases`, `ServerSchedules`, `ServerBackups` | what else belongs to a server | the services of those names |
| `ServerSettings`, `ServerAccess`, `VersionInstall` | a server's settings, collaborators and log, versions | `server-settings.controller.ts`, registry, `activity-log`, `game-version-catalog.service.ts` |
| `StatsFeeds`, `ConsoleFeeds`, `BrowserStreams`, `ConsoleInventory` | feeds, from the agent to the browser | `server-realtime.service.ts`, `server-runtime.controller.ts`, `server-stats.websocket.ts`, `console-server-inventory.service.ts` |
| `NodeTelemetry`, `AgentCertificates`, `BootstrapTokens` | nodes and their agents | `agents/`, `bootstrap-token.service.ts` |
| `ProvisioningJobs`, `CronJobs` | jobs over Redis | the services of those names, `redis.service.ts` |
| `PlanOrders` | plans, placement and orders | `billing-provisioning.controller.ts`, `server-placement.service.ts`, plans |
| `Accounts`, `SignIn`, `Sessions`, `SecurityMaterial` | users and their entry, the keys | `users/`, `auth/`, `database` |
| `WebhookDispatch`, `Support`, `EggCatalog`, `PanelSettings`, `SystemUpdates` | the rest of the panel | the services of those names |
| `MCServerLifecycle`, `MCServerTransfer`, `MCServerDatabases`, `MCServerSchedules` | instances for TLC: sets, routes, symmetries | |
| `ServerServices` (extends `ServerSchedules`), `PanelServices` (extends `SecurityMaterial`) | panels: what stands around one server, and the services of the panel as a whole | |
| `MCWorkflows`, `MCServerServices`, `MCPanelServices` | instances for TLC; the last extends its panel by the parts nothing is proved about | |
| `ServerLifecycleTypes`, `ServerLifecycleProofs`, `ServerTransferProofs`, `ServerDatabasesProofs`, `ServerSchedulesProofs`, `CronJobsProofs`, `ServerServicesProofs`, `PanelServicesProofs` | lemmas, theorems, proofs | |

Operators named `X_Something` with the comment "Seeded fault" are variants of `X` with a
plausible bug. No specification uses them; replacing `X` by one must break a property, and
PROJECT.json pairs every checked property with one.

Several modules keep a set `excused` (or `overlaid`, `mishap`, `stranded`, `lost` ...): a
history variable that names the cases in which the code is known not to keep a promise. The
property then says that these are all. Each such set is filled only in the actions in which
the code leaves that gap, with a comment that says which.

### Servers

**ServerRegistry.** `servers[s]` is a row or `None`; a row has the columns that other
requests can race for: node, port, status and the AGAPORNIS_FROZEN variable. Each operator
is one serializable transaction of the PostgreSQL mode (the only mode in which several
replicas run). `ReserveRandomPort` may use an existing row only as a replay, as the code
does; `MayClaimDeletion` refuses `provisioning` and `deleting` and lets `transferring`
pass, as the code does.

**ServerLifecycle.** `proc[p]` is a request slot on some replica: its operation, its
program point `pc`, the copy of the row it read (`snap`) and the status its claim replaced
(`prev`). An action is the code between two awaits that other requests can see, so a stale
`snap` is used exactly where the code uses it. `container[<<n, s>>]` is what the agent of
node n runs for s. An agent call has four outcomes (`Outcomes`): done, rejected
(`success: false`), failed before it ran, done with the answer lost. The last two look
alike to the handler. `Crash(p)` ends a request anywhere. `stranded` has the claims whose
workflow ended without resolving them (a crash; an egg change whose creation failed; a
billing order whose egg does not resolve, outside its `try`; a failed delete that restored
a stale transitional status); `skipped` the ids whose row went without asking the agent
(`forceProvisioningCleanup`) or whose claim was ended by another request.

**ServerTransfer.** `mover[m]` is a transfer job: its stage and the locals of
`executeTransfer`. `dbNode[s]` is the node in the rows of the server's databases, and
`attached[<<n, s>>]` what an agent keeps for the server besides the container: database
volumes and local backups. Imported files without a container count as a container. The
stages of the catch block are entered with what was tried so far, as the code's sets and
flags are. `Handler(p)` lets every action of `ServerLifecycle` run between two stages and
adds what `deleteAllForServer` and `ON DELETE CASCADE` do to the databases.

**ServerDatabases.** `rows[d]` is a row of `server_databases` or `None`, `container[d]` whether
the agent has its container, `proc[p]` a request: creation, deletion, power command, or one of
the two loops over a server's databases, which work on a listing made at their start
(`ListServerDatabases`, `NextDatabase`). `ReserveSql` and `ClaimForDelete` are transactions;
`PersistStatus` writes by id, as the code does, so it may write over a deletion. The history
variables name how the hidden state of a row comes to nothing: `undone` (a failed deletion),
`overwritten` (another request's status), `stranded` (the deleting request died), and where
containers and rows may part: `untracked`, `emptied`. Game ports are taken out of `Ports`.

**ServerSchedules.** Each replica has a map, a timer and at most one execution per
schedule, and a queue of copies of its map on their way to the table. An edit replaces the
record object, and `runScheduled` compares objects, so timers, executions and ended runs
carry "current" or "old". `saves` and `stored` model `replaceCollection`: the whole table is
replaced, in the order of the queue, and a failed save is only logged.

**ServerBackups.** The table, what the agent has (`stored`, `made`) and the calls under way.
Every creation and every listing copies the agent's list into the table (`Sync`), a pending
row is the reservation of a creation, and times decide which rows a listing may delete.

**ServerSettings.** `rows` and `agents` are the two copies of a server's limits, ports and
variables; a request reads the row, asks the registry for ports (`Allocated`), tells the
agent one thing after the other and writes, and on failure puts back what it read first.
Installing a JAR writes the same variables.

**ServerAccess.** Grants, changes and revocations are checked on one read and written
later, while accounts and servers are deleted and ids come back with another owner; the log
is written by inserts nobody waits for. `accessFor` (what a client is told) and `canPerform`,
`canWrite`, `canManageAccess` (what the guards enforce) are separate operators, as in the code.

**VersionInstall.** Documents of upstream (`edition`) are cached in every replica and in a
table with their own times; `job[r]` goes from the lists over the stop, the upload and the
save to the start, with the recovery of each step.

### Feeds, nodes and jobs

**StatsFeeds.** One poll for all listeners of a feed; a poll is two awaits long and may outlive
its feed, so polls carry the generation of theirs. Browsers may leave before they are
authorised. **ConsoleFeeds.** One stream to the agent for all viewers: lines are
batched (`pending`, `flush`), kept (`history`) and replayed; streams end and are opened
again. **BrowserStreams.** The response that carries either to one browser: frames that do not fit
wait in `queue`, and "drain", the flush timer, the heartbeat and the close event arrive in
any order. **ConsoleInventory.** Which agents were given the list of their servers, told from
the statistics of the nodes; one reconciliation at a time, over the rows that came last.

**NodeTelemetry.** The shared poll of statistics (`flight`), the window of samples of each node,
the alerts that are polled only while somebody watches, and agents that update and restart.

**AgentCertificates.** `table` is the node's row, `registry` its copy on each replica, which
upserts whole rows; `rotation[r]` goes through pre-flight, staging, installation, reload,
activation or roll-back, while heartbeats, refreshes, revocations and activations by hand write
the same row.

**BootstrapTokens.** Tokens in memory, saves of the whole list that nobody waits for, and the
two awaits between the consumption of a token and the node's active certificate.

**ProvisioningJobs.** One job: the map of each replica, the SETs and PUBLISHes on their way, the
messages on their way to each stream. A snapshot is its phase. An owner receives its own
snapshots back, and heartbeats publish whatever the map then says.

**CronJobs.** A chain of timer and callback per job and replica around the lease `lock[j]`, which
may end before the execution it guards (`lapsed`).

### The panel

**Accounts.** `UsersService`'s map, the queue of whole-table saves whose list is taken early and
whose records are read late (`Same`), and the row that admits a request and takes the record's
place under another request's feet. **SignIn.** Registration, invitations, providers, and links
that verify an address, with the awaits for hashes and for the invitation's transaction.
**Sessions.** Passwords, the second factor, recovery codes, reset links, bans and the guard, for
one account; what is compared at an await is used after it. **SecurityMaterial.** `load()` step by
step on each replica: the row, the advisory lock asked for after the snapshot was taken, the
unique violation, four files written one at a time.

**PlanOrders.** Plans with their defaults and checks, the ranking of nodes by what they have
promised, and orders from there to the reservation, with nothing held in between.

**WebhookDispatch.** A dispatch lists targets once and goes through them one by one; a record that
the table refuses ends it. **Support.** Tickets and the pruned lists of notifications; the history
`seen` keeps what each requester last saw. **EggCatalog.** Two maps, two queues of saves, and
downloads between which eggs and nests go. **PanelSettings.** Merging what is sent (`update`) and
merging what was saved (`Load`), two copies of one code; counters of attempts in memory or Redis.
**SystemUpdates.** The state in memory and in its row, `deploy()`, the supervisor's script with its
roll-back, and what three kinds of evidence say of its end.

### Panels

`MCWorkflows`, `ServerServices` and `PanelServices` instantiate several modules, rename their
variables and let one of them, the `part`, move in a behaviour. The parts share no variable and
no action, so a behaviour of all together is an interleaving of theirs, each property speaks of
one part, and nothing is lost by letting the others rest; TLC explores the union instead of
the product. A part that rests has no state (its variables are `None`), except where the panel
EXTENDS the module. The properties of the runs *services* and *panel* that a theorem states are
defined in the last two modules, for every value of the constants. `MCServerServices` gives the
constants of `ServerServices` their values, and its run checks `PanelSpec` itself.
`MCPanelServices` also adds parts that stay with TLC. An added part leaves the variables of the
others alone, so every behaviour of that run is, in the variables of the panel, one of `PanelSpec`.

## 3. Runs

| Run (cfg) | Question | Instance | Result |
|---|---|---|---|
| claims (MCServerLifecycle_claims) | do claims keep every ordinary workflow alone, backed by its row, ended by its holder, and do the handlers implement `ExclusiveRuntime`? | 1 server, 1 node, 1 port, 2 requests, all operations but the recovery deletes, 2 faults, 1 crash | holds, 488,942 states |
| recovery (MCServerLifecycle_recovery) | with recovery deletes and failing notifications, are containers tracked, and ports unique when agents report others than were reserved? | 2 servers, 2 ports, 2 requests (create, egg change, both recovery deletes), 1 fault | holds, 1,480,176 |
| saga (MCServerTransfer_saga) | are server, databases and backups kept on the row's node, and roll-backs complete, also when a port is taken at the commit? | 2 servers, 2 nodes, 2 ports, 2 jobs both ways, 1 fault | holds, 630,052 |
| transfers (MCServerTransfer_transfers) | is a transfer alone with its server, is `transferring` always owned, and is nothing left elsewhere, also when the server is deleted meanwhile? | 2 jobs at once, 1 request (delete, egg change), 1 fault, 1 crash | holds, 1,098,538 |
| databases (MCServerDatabases_rows) | do ports, quotas, claims and containers of databases match their rows? | 2 databases, 2 servers, 2 ports, limit 1, 2 requests, 1 failed call or crash | holds, 697,282 |
| workflows (MCWorkflows) | what must eventually happen: claims, schedules, provisioning streams, cron jobs, inventories | 5 parts, weak fairness | holds, 95,848 |
| services (MCServerServices) | around one server: schedules, backups, feeds, responses, telemetry, versions, certificates, updates | 9 parts | holds, 1,175,163 |
| panel (MCPanelServices) | accounts, entry, keys, orders, settings, access, support, eggs, webhooks | 12 parts | holds, 1,483,694 |
| telemetry (MCServerLifecycle_telemetry) | can an observed status overwrite a freeze? | 2 requests | violated |
| twice (MCServerTransfer_twice) | does the roll-back of a second transfer leave a running server? | 2 jobs at once, one direction | violated |
| replicas (MCServerSchedules_replicas) | does a stored schedule survive another replica's save? | 2 replicas, 2 schedules | violated |
| leavers (BrowserStreams_leavers) | is a browser that has left off its feed? | 1 console, 1 frame | violated |

What the properties of the passing runs say:

* *claims*: `ClaimsSound` (no two requests under one claim; a workflow finds its row as it claimed
  it; a transitional row has a workflow or is in `stranded`), `ServersHaveContainers`,
  `ClaimsEndedByHolder`, `ImplementsExclusiveRuntime`.
* *recovery*: `NoUntrackedContainer`; `UniquePorts` (also of the ports that agents report, which
  the unique index compares).
* *saga*: `ServerKept`, `AttachmentsKept`, `DatabasesFollow`, `RollbackRestoresServer`. No job dies
  in it: what a crash leaves of a server and its attachments is in the theorems only. *transfers*:
  `NothingLeftBehind` (a transfer that ended leaves nothing on another node, and one whose server was
  deleted meanwhile nothing at all), `TransfersSound` (`MoversExclude` and `TransfersOwned`).
* *databases*: `RowsSound` (one deleter, unique ports, the quota, no hidden row without an owner),
  `ContainersMatch` (`NoOrphanContainer` and `SettledHaveContainers`).
* *workflows*: `ClaimsResolve` (every claim ends or is stranded), `EnabledRuns` (an enabled
  schedule runs again and again), `EndReached` (a listening stream gets the end of its job,
  and a stored end is never overwritten), `JobKeepsRunning` and `LeasesExclude` (cron jobs),
  `InventoryArrives` (every agent that can take it gets its list).
* *services*: `TimersRight`, `ExactWhenDeciding` (a creation that nothing overtook decides on
  exactly the backups there are), `FeedFollowsListeners`, `ConsoleSound` (viewers see the stream
  without gap or repetition, and a watched feed never falls asleep), `StreamsSound` (a response
  skips nothing, is never stuck, and keeps nothing once closed), `TelemetryTrue`,
  `InstallsSound` (lists are fresh, the variables name the JAR, power is kept),
  `NodeNotLockedOut`, `CompletedWasApplied`.
* *panel*: `AccountsSound` (answered changes reach the table; an owner remains), `SignInsSound` (an
  address is verified only if vouched for; an invitation admits one), `EntriesSound` (a
  token that is accepted was issued after the last reset, or to somebody who knew the password set by it;
  a link lets in once, a token too unless its save was lost, and a recovery code unless two requests compared
  it together),
  `OneMaterial`, `PromisesKept` (no node is promised more than it has, but by orders whose body
  names more than the plan), `SettingsSound` (panel and
  agent agree at rest; no host port twice), `AccessSound` (collaborators belong; what is told is
  what is enforced; logs are pruned), `TriedExactly`, `StatusReachesRequester` (of every
  change of status that an update completed), `TablesFollow`, `LoadedAsSaved` (a start reads back each
  field that was saved in form, whatever its environment says; only an environment puts a field
  out of form, or a minimum raised above its maximum).

**Why these bounds.** The claims are per row, so one server with two requests shows every
race between two workflows; that no third changes the picture is what the theorems of section
5 say, for every number of requests. A second server matters for ports only (`recovery`,
`saga`). In `recovery` each server has a port and the agent may report the
other's; in `saga` two
ports and two servers that start on either node let a port be free when it is chosen and taken
at the commit. In `claims` two faults let an operation and its compensation both fail, which
is the deepest failure the code handles; `NoUntrackedContainer` says itself that two faults
are too many for it, and a transfer promises to survive one failed step, so the transfer runs
have one. One crash is enough because a crash only removes a request; `recovery` has none, so that two
ports fit in, and leaves crashes under the recovery flags unchecked. In `databases`
two servers with a limit of one reach the quota and share the ports, and two requests race
for one row; failed calls and crashes share one bound (`MaxFaults`), because the code promises nothing
about a compensation that fails too.

In the panels two requests of a kind are under way at once, which is enough for
one to use what the other has changed; `MaxFaults` is one except for tokens (two: a lost save and a
restart), `MaxEdits`, `MaxOps` and `MaxChanges` bound what people do, and numbers are the smallest at which the limit in question is met
from both sides: a console history of two batches of two lines with three lines printed, a
queue of four bytes for frames of one and two, one notification kept of several, two attempts
of a second factor and two recovery codes, a window of two samples, a node with room for two
servers, a cached list that lasts one tick of one. `Sessions` starts seven requests
(`MaxStarts`): a second factor switched on, used and reset takes that many. `ServerSchedules`
has two edits and a restart: a manual run and an edit between two firings reach every combination of
current and old objects, two queued saves let one overtake the other, and three failures, the limit,
happen in every instance. `PlanOrders` has no order that names an egg and no product
(`Legacy = None`); `BootstrapTokens`, `EggCatalog`, `SignIn` and `SystemUpdates` have one API
process, as their headers say, and the instances of `Accounts` and `AgentCertificates` have one replica.

**States that are checked and not followed.** Three configurations have a CONSTRAINT, `Watched` or `Followed`: where
a history variable excuses everything (every database in `databases`, a node after a mishap in
`services`, any account in `panel`), the properties forbid little more. TLC checks such a state and
does not explore what comes after it.

**SerialTransfers.** `saga` assumes that nobody requests a transfer of a
server before the last one ended (`SerialTransfers = TRUE`). The code does not enforce it;
`twice` drops the assumption and shows what happens then, and so does `transfers`, whose
properties survive.

**Deadlock.** The lifecycle runs check deadlock: some request may always arrive. The others
set `CHECK_DEADLOCK FALSE` because their systems may really come to rest, when
every id is used up and the bounds on edits, faults and restarts are spent.

**Fairness.** All of it is weak, and only of what the program does by itself:

* `Step(p)` of `ServerLifecycle`: a request that is being served goes on. Node runs the next
  continuation, and every unary agent call carries a gRPC deadline
  (`agent-client.service.ts`, `unary`; the lowest default is 3 s and the highest an hour).
* `ServerSchedules`: `Finish`, `Settle`, the firing of armed timers, queued saves.
* `ProvisioningJobs`: the task reports and ends (`Report`, `Finish`), Redis applies what it was
  sent (`SetApplies`, `PublishApplies`), a stream is answered, registered and subscribed,
  messages are delivered, and the timer that closes an ended stream fires.
* `CronJobs`: callbacks go on, leases run out, deletions reach the table.
* `ConsoleInventory`: observations are repeated (they are a timer's), a reconciliation goes on,
  and its calls arrive and are answered.

New requests are never assumed to arrive, clients need not leave, and a crash ends the obligation
of its request. `pipeTransfer` opens two streams without a deadline, so no liveness is claimed for
transfers.

## 4. Divergences

Each of the first four is a violation that TLC finds and that follows the code step by step;
PROJECT.json quotes the sentences they contradict.

1. *telemetry*: `recordObservedStatus` checks the freeze on a copy and writes later; a
   freeze in between is overwritten in the status column (the variable survives).
2. *twice*: the node check of a transfer precedes its claim. A second transfer of the same
   server to the same node, requested while the first runs, rolls back on the node where the
   server now lives, and deletes it.
3. *replicas*: a replica saves its own map as the whole table of schedules and so deletes
   those created on another replica.
4. *leavers*: a browser that leaves while its permission is looked up emits its close event
   before anybody listens for it, and its subscription stays.

Others are stated in their modules as properties that do not hold, without a run of their own. Each
is a sentence of the code or its documentation, and the properties that are checked carry the
matching exception:

| Property (module) | The sentence | What happens |
|---|---|---|
| `RolledBackIsNotCompleted` (`SystemUpdates`) | `system-update.service.ts:533` | the new API reports completion from its own version; the supervisor rolls back afterwards |
| `TokenUsedOnce` (`BootstrapTokens`) | `bootstrap-token.service.ts:51` | the process dies before the deletion is saved |
| `HostPortsDistinct` (`ServerSettings`) | `server-settings.controller.ts:284` | ports are put back that another server has reserved meanwhile |
| `ReconnectedStreamsEnd` (`ProvisioningJobs`) | `README.md:69` | a stream reads the job before its end is stored and subscribes after it was published |
| `RevocationKept` (`AgentCertificates`) | `README.md:205` | a replica writes the whole row from an older copy |
| `WithinLimit` (`ServerBackups`) | `server-backup-operations.service.ts:32` | the older listing of one creation deletes the row of the backup another has just made |
| `NoWorkForNobody` (`StatsFeeds`) | `server-realtime.service.ts:557` | a socket that closed while it was authorised is subscribed |
| `OneStream` (`ConsoleFeeds`) | `scripts/realtime-fanout-test.cjs:186` | a timer that was written over, not cleared, opens a second stream |
| `VersionsStand` (`Accounts`) | `README.md:146` | a record read from the table takes the place of a newer one |
| `IdentitiesDistinct`, `EmailsDistinct` (`SignIn`) | `users.service.ts:290`, the table's UNIQUE | two sign-ins wait for their hashes together |
| `NoUntrackedContainer` (`ServerLifecycle`), on two nodes | - | an egg change reads the row, the id is released and reserved on another node, and the change then claims the new row and works on the old node |
| `EggsHaveNests` (`EggCatalog`) | - | a nest is removed during a download, or between two saves |
| `PolicyUsable` (`PanelSettings`) | `panel-settings.service.ts:562` | the minimum alone is raised above the maximum |
| `LimitsLift` (`PanelSettings`) | `redis.service.ts:61` | a process dies between INCR and EXPIRE |

Others are behind the exceptions that the properties name, or follow from what the models leave out:

* Two requests that compare one recovery code at the same await both get in (`users.service.ts:385`):
  the first takes the code off the list and the second the code that now has its index (388). `CodesSpent` says "once" of codes that nobody compared meanwhile.
* An order may name its memory and disk in bytes: the helpers prefer them to the plan's megabytes
  (`server-controller.helpers.ts:39`, 90), so `provision` reserves what `nodeId` did not check
  (`billing-provisioning.controller.ts:248`, 410). `Taken` models it.
* A PATCH of a ticket with an assignee who is no staff is refused after the status was written
  (`tickets.service.ts:156`): the status stays, `closedAt` is stale and nobody is told (`UpdateRefused`).
* The environment is brought into no range and no form (`config.service.ts:16`,
  `panel-settings.defaults.ts:27`): PANEL_PASSWORD_MIN_LENGTH=6 is in force and saved as 6 and loaded as 8,
  and PANEL_PUBLIC_URL with a path is saved as it is and loaded as its origin.
* A port that the agent reports and another row has is refused by the unique index
  (`server-registry.service.ts:398`). The creation then cleans up, and if that call fails too the container stays
  without a row.
* An egg change whose copy of the row a transfer has outdated writes the old node back
  (`servers.controller.ts:518`).
* The agents' delete route reads the node before its claim (`servers.controller.ts:542`), so beside a
  transfer it may ask the node that the server has left and drop the row all the same. The run
  *transfers* deletes by the registry's route only.

## 5. Proofs

| Theorem | Module | Hypothesis |
|---|---|---|
| `TypeCorrect`, `UniquePortsAlways` | ServerLifecycleTypes | none |
| `ClaimsExcludeAlways`, `ClaimsBackedAlways`, `ClaimsOwnedAlways`, `ClaimsSoundAlways`, `ClaimsEndedByHolderAlways` | ServerLifecycleProofs | `Ordinary` |
| `HandlersImplementLock` (refinement of ExclusiveRuntime) | ServerLifecycleProofs | `Ordinary` |
| `ServersHaveContainersAlways` | ServerLifecycleProofs | `Ordinary` |
| `NoUntrackedContainerAlways` | ServerLifecycleProofs | `Ordinary`, and `IdsKeepTheirNode` throughout the behaviour |
| `OneNodeTracksItsContainers` | ServerLifecycleProofs | `Ordinary`, one node |
| `TransferTypes`, `ServerKeptAlways`, `AttachmentsKeptAlways`, `DatabasesFollowAlways`, `NothingLeftBehindAlways` | ServerTransferProofs | `Calm` |
| `RollbackRestores` | ServerTransferProofs | `Undisturbed` |
| `TransfersSoundAlways` | ServerTransferProofs | `Orderly` |
| `DatabasesTypeCorrect`, `UniquePortsAlways`, `QuotaKeptAlways` | ServerDatabasesProofs | none |
| `DeletersExcludeAlways`, `DeletionsOwnedAlways`, `RowsSoundAlways`, `ContainersMatchAlways` | ServerDatabasesProofs | none |
| `SchedulesTypeCorrect`, `ArmedOrRunningAlways`, `NoStrayTimerAlways`, `TimersRightAlways`, `SavesUpToDateAlways` | ServerSchedulesProofs | none |
| `StoredUntilEndedAlone` | ServerSchedulesProofs | exactly one replica |
| `LeasesExcludeAlways` | CronJobsProofs | `CronAssumption` |
| `RemovedStaysRemovedAlways` | CronJobsProofs | none |
| `OneMaterialAlways` | PanelServicesProofs | `MaterialAssumption` |
| `NodeNotLockedOutAlways` (`AgentCertificates`) | ServerServicesProofs | one replica (`Alone`) |
| `FeedFollowsListenersAlways` (`StatsFeeds`), `StreamsSoundAlways` (`BrowserStreams`) | ServerServicesProofs | none |
| `ExactWhenDecidingAlways`, `ReservationsOwnedAlways` (`ServerBackups`) | ServerServicesProofs | none |
| `CompletedWasAppliedAlways` (`SystemUpdates`) | ServerServicesProofs | none |
| `TelemetryTrueAlways` (`NodeTelemetry`), `InstallsSoundAlways` (`VersionInstall`) | ServerServicesProofs | none |
| `TokensSoundAlways` (`BootstrapTokens`) | PanelServicesProofs | none |
| `TablesFollowAlways` (`EggCatalog`), `TriedExactlyAlways` (`WebhookDispatch`) | PanelServicesProofs | none |
| `LoadedAsSavedAlways` (`PanelSettings`) | PanelServicesProofs | none |
| `AccessSoundAlways` (`ServerAccess`), `StatusReachesRequesterAlways` (`Support`) | PanelServicesProofs | none |
| `SignInsSoundAlways` (`SignIn`) | PanelServicesProofs | none |
| `AccountsSoundAlways` (`Accounts`) | PanelServicesProofs | one replica (`OneProcess`) |

They hold for every number of servers, nodes, ports, requests, replicas, schedules, jobs and
files, and for every value of the bounds. The named assumptions on constants (`OpsAssumption`,
`BoundsAssumption`, `NoJobAssumption`, `DatabasesAssumption`, `SchedulesAssumption`, those of
ServerRegistry, and those named in the table) are evaluated in the runs. The panels repeat as assumptions of their own
(`EggsFit`, `BackupsFit` ...) what the modules they instantiate assume of their constants; "none" in the table
means nothing beyond these.

**Lifecycle.** `TypeOK` is not inductive: a handler writes back parts of what it read, so
`TypeInv` adds what a request knows of its own record at each program point (`WellFormed`).
The table is seen only through the lemmas at the head of `ServerLifecycleTypes`, one per transaction.
`Ordinary` excludes the two recovery flags of the delete route and notifications that fail
inside a workflow: those end other requests' claims on purpose, and the run `recovery`
checks what is left. Under `Ordinary` each action is one of four moves on a server's lock:
it leaves it (`Quiet`), takes a free one (`Takes`), gives back its own (`Frees`), or lets go of
it unresolved (`Drops`). There is one lemma per action for that. The invariant is `LockInv`:
no request is at a point that only a failed notification reaches, every holder's claim is
the lock of its server (`Backed`), two holders of a server are one (`ClaimsExclude`), and a
closed lock has a holder or is stranded (`Owned`). It is preserved by the four
moves, whatever the action behind them, and each move is a step or a stutter of
`ExclusiveRuntime`.

`UniquePorts` needs none of this, and holds with the recovery flags too: an action leaves node and
port of every row as they are (`StaysPut`), or gives one row a port that no other row of its node
has, be it reserved or reported by the agent. It rests on the checks of the transactions alone, never on what a handler remembers.

`ServersHaveContainers` is about two things that no transaction writes together. Its invariant
`RowsBacked` says at which points of a workflow the container must be there (`Knows`): after the
agent's answer, until the row is given up or written. Another request cannot take the container away
in between, because the claims exclude; so the proof stands on `LockInv`. `NoUntrackedContainer` looks
from the agent's side. `ContainersTracked` says of each container that a row of its node
accounts for it, or a workflow does that will still remove it, or a call has failed. A handler
destroys on the node of the row it read *before* its claim. If that id is deleted and created again
on another node in between, it asks the wrong agent. With more than one node the theorem therefore
speaks of the behaviours in which that does not happen (`IdsKeepTheirNode`); with one node it
always holds. The run `recovery` has one node as well.

**Transfers.** Two proofs, from two hypotheses, because the code promises different things.
`Calm` says that a server is transferred once at a time (`SerialTransfers`) and that the
handlers beside it start, stop, freeze, configure or observe servers; jobs fail and die as they like.
It is wider than `saga`, which has no handlers and no crash, and narrower than *transfers*, where servers are deleted. The invariant `Sound` is a conjunction
over servers: of a server that nobody moves, everything is on the row's node and nothing on another;
of one that a job moves, `JobKnows` gives the state of both nodes at each stage, and `JobLeaves` what
was left elsewhere and will be cleaned. Each stage of `executeTransfer` and of its catch block
has one lemma for its own server; for the others only that nothing of theirs was touched
(`RowKept`). `RollbackRestores` adds what the job remembers of the container it stopped; a stop
or a freeze by somebody else in between is not undone by a roll-back, so `Undisturbed` leaves those two out.
Without `SerialTransfers` the theorems are false: *twice* (section 4) shows how.

`Orderly` allows any number of transfers of one server at once and every handler except creations (an
id that comes back is another server) and the deletion by the agents' route, which may write back
the `transferring` it read before its claim. A transfer then holds its server as a lock that a deletion may take
from it, since `claimDeletion` refuses only `provisioning` and `deleting`. The invariant `Exclusive` says who
may hold the lock together: two jobs never, a request and a job only if the request took it from
the job (`TakenFromJob`), and what is locked by a job has one or is stranded (`JobsOwned`). Handlers and
jobs move the locks in three ways each (`Goes`, `Takes`, `Leaves`), one lemma per action.

**Databases.** Each action moves the rows in one of few ways (`RowsMove`: one row is reserved,
claimed or written, or any are dropped), and `UniquePorts` and `QuotaKept` follow from these moves
alone: a database that becomes visible without having been revived was reserved in this step
(`VisibleBefore`), and nothing else changed then (`ReservedAlone`). For the claims each action is one
`ClaimsMove`: a request gets a claim only by hiding the row, and a row becomes visible only
through its claimant or by a status written over it. `DeletersExclude` needs `ClaimsInv` beside it:
what a request deletes is hidden or overwritten, so that nobody can claim it again.
`ContainersMatch` has the invariant `Matched`, one database at a time: an id is created once, by one request
(`NeverReused`, `CreatesAlone`), a row that a creation has not settled is its own (`RowMade`), and
a container is tracked by a row or by one of the sets that name why not (`Tracked`, `Made`).

**Schedules.** The invariant is per cell (replica, schedule): `Cell` adds to
`ArmedOrRunning` and `NoStrayTimer` that a run that will re-arm (an execution or an ended run
that is "current") belongs to an enabled schedule in the map, and that there is at
most one. Without that, `Settle` could arm a second timer or bring back a removed schedule.
`Known` says that copies anywhere are of created schedules; creation needs it, because a new
id must not meet an old run. For the queue each step is reduced to one of three shapes
(`Saved`, `Dropped`, `Reloaded`). `StoredUntilEndedAlone` rests on `Versions`: table, queued copies and map are
versions of one collection, oldest first, and what an older one has and a younger
one lacks has ended. That is what a second replica breaks.

**Cron jobs.** The invariant is `GoodHoldsKey`: who executes on a lease that has not run out has the
key. A key has one holder, so two such executions of a job are one. Releasing compares the token;
a release without comparison takes a successor's key away, and the invariant with it. Lemmas
reduce each action to one of two shapes (nobody starts; one ends and gives its key back), besides
taking the key and losing it.

**Security material.** `Source` is what this configuration loads, the row or the document. The
invariant says that keys are settled before anybody serves with them: whoever has keys has those
of the source (`ReplicaOK`), so once somebody serves they never change. The step that
could break it is the INSERT of `Seed`. It goes through only while there is no row, and then
nobody has keys. The proof does not use the advisory lock: the primary key alone decides,
because a replica whose INSERT fails reads the row again.

**Certificates and tokens.** For one process, `RotationOK` says at each point of a rotation how far the
memory is ahead of the row and which certificate the agent presents: the active or the pending
one of the row, never a third. `AdminOK` is about a revocation that has not been written: it carries the
whole entry as it was read, and must be too old to change anything but the flag. With two
processes the theorem is false: the second stages a certificate over the first one's and no mishap
is recorded; `Alone` says so. For the tokens, a save replaces the whole table and waits for the ones before it,
so `Settled` says that the last one that waits, or the table, has what the memory has, and
`Spent` that a used token is gone from there, unless its save was lost.

**Parts of the panels.** These theorems are about the specifications of the panels, and state the properties
of the runs *services* and *panel* as they are checked. `PartMoves` says that a step moves one part, so that each
needs the invariant of its own part only, and none needs a hypothesis beyond the shape of its constants. *Feeds*: `FeedSound` ties the timer, the poll and the listeners of the feed in the map
together, and says that the polls of earlier feeds were cancelled. *Backups*: everything that changes the
agent or the catalogue takes a tick of the clock (`Dated`), so `Sync` with a list that nothing overtook leaves
exactly that list (`SyncKeeps`), although it spares rows younger than the list. *Updates*: every copy of a
state that says "completed" is borne out by what was switched to - in memory, in the row, in what a request has
read, in the result file and in the script - because a request may write any of these copies back.
*Eggs*: the last save that waits is what the memory has (`Settles`); a start must re-establish this, which takes
that the tables of nests never lose the default one. *Webhooks*: a target that was there from the beginning of a
dispatch is tried or still to be tried (`Sending`), which holds because ids are given out once and
a dispatch never throws. *Streams*: what waits continues what was written, number by number, and
whoever is taken for full has its "drain" still to come. Only a console has a queue or frames that
the runtime may hold back (`Released`); for statistics a later "drain" could not be told from an earlier one.

Five more take a longer way. *Settings*: the proof goes field by field.
The file is what some settings were saved as, and the settings in force are those or what a start made of the file
under some environment (`FileOK`), so a field that `Load` gives back under every environment (`LoadsSaved`) is in
force. `MergeKeepsForm` says that a merge leaves a field in form or as it was; where the two merges treat "absent"
and "empty" differently, the saved document never has the one that would tell. *Access*: `RowsStand`
ties a row to the account and to the very server under which it was granted, or to a request that was under way
(`ToDrop`); what is told and what is enforced are compared role by role. *Sign-in*: an invitation is spent where it
is consumed, so a registration that waits for its hash holds what nobody else can use
(`AdmitOne`); an address becomes verified only with the evidence that the same request carries (`VouchedFor`).
*Accounts*: `Future` is what the table will have when every save that waits has been written. It and the memory
agree with what was answered (`Current`), because a save lists the objects that memory has: `KeptIs` says that a
save which waits goes on listing an object while it stays in memory, and its last state once it was replaced. A
hash takes time, so `Works` says what a request that lost its object works on, an account that is gone or was read again,
and that nobody registers under an id that somebody else holds. `Owned` needs that the guard against
demoting the last owner counts the accounts that were answered for, which `Current` gives. With two processes
the theorem is false, since each writes the whole table from its own memory.
*Support*: notifications are numbered by a clock, and a list that is pruned keeps the youngest. The case that needs
an argument is a list in which the notification of a ticket was pushed out. Among the ones
that came after it, a least counterexample is taken (`WFMin` of WellFoundedInduction), because an induction over the
list itself is beyond the prover.

Two are about what is told of answers that came earlier. *Telemetry*: the window of a node is the
end of all its answers (`Windowed`), so a row computed from the window tells the truth about all
of them (`TrueOf`): at most the number of checks that are told depends on the window's size. The
first answer of the run that goes on lies behind the last one that differs, and that there is a
last one is again a least counterexample (`LastPlace`). A truth about answers outlasts further ones
(`TruthLasts`), which covers the rows of a poll that is under way, the cache and so what observers are
shown: `Shown` says that everybody with a stream has the rows of the cache or of the alerts, and that the timer of the
alerts runs exactly while somebody watches.
*Versions*: a job knows what it chose (`JobOK`), and the document it goes by came within its lifetime,
whichever of the two caches it is from. An installation that is not overtaken by another is the
only one, so it knows what it did to the server: whether the JAR is there and the variables
are still to be written (`Named`), and which of server and databases it has stopped
(`Powered`). Every call of the saga, with its effect, without it, or failing after it, then is one lemma
(`CallKeeps`) with the next job and the one that an error leads to.

**A trap of the prover.** In this version of TLAPS the SMT encoding of an EXCEPT that updates a function
twice at one argument (`[f EXCEPT ![x].a = 1, ![x].b = 2]`) is unsound, and that of an `@` inside an inner EXCEPT is
wrong. The modules therefore write `[f EXCEPT ![x] = [@ EXCEPT !.a = 1, !.b = 2]]` and repeat the
argument instead of an inner `@`, and no obligation of the proofs contains the other form. TLC evaluates both as
they are meant.

**Left to TLC.** Of *services*: `ConsoleSound`. Of *panel*:
`EntriesSound` (of which `TokensSound` is proved), `PromisesKept` and `SettingsSound`. `ConsoleFeeds` joins the
batches of its history with a recursive function and `PlanOrders` sums over the reservations of a node with a fold;
about neither can anything be proved without induction. The others are large rather than out of reach.
`NodeNotLockedOut` with several processes, where it fails; `NoUntrackedContainer` with the recovery flags, and across
nodes where an id moves; transfers beside creations; and liveness, because fairness is beyond the prover.

## 6. Not modelled, and assumptions

* Agents are another program. They are modelled by outcomes of calls; a call whose answer
  is lost takes effect before its caller goes on, so an effect that arrives after a deadline is
  not modelled. Framing, streams and certificates of the connections are I/O.
* The database: transactions are atomic and serializable, and statements outside agent calls
  succeed, except constraint violations, the event store of notifications and the saves of
  whole collections. The JSON mode is modelled where the header of a module says so; elsewhere it
  and the MySQL mode, which serve a single process, are left out. Migrations run once.
* Transfer runs start with existing servers and do not create any: an id that is deleted and
  created again would be a second server for `NothingLeftBehind`. A node migration is a sequence
  of transfers; its report is left out.
* In `ServerTransfer` the databases of a server are one group with one node, and `ServerDatabases` has one
  node and no transfers. A database created during a transfer
  and a backup taken on the source after the import are listed as hazards.
* Backups: restores, downloads, verification and `deleteOldest`'s choice; storage is local.
  Databases: the rebuild for image updates and the import of the old file.
* `ServerAccess` removes a server as PostgreSQL does, in one transaction; the two statements of
  the MySQL mode are left out. `VersionInstall` has no Fabric, whose lists come from addresses of
  their own.
* Operations that forward one call and keep nothing: files, mods, agent and Linux updates, the
  installation of images, diagnostics, locations, mail, `resolveServer` (a pure
  substitution), CSRF tokens (stateless), the seed of cron jobs. Validation, formatting and
  permissions appear where a property speaks of them.
* Cryptography: hashes, tokens, codes, signatures and certificates are numbers or model values;
  equal only if they are the same. What providers and receivers of webhooks answer is a choice.

## 7. Plan

Done: the servers with their registry, lifecycle, transfers, databases, schedules, backups, settings,
access and versions; feeds up to the browser; nodes, certificates and enrolment; jobs over Redis;
orders; accounts, entry and keys; webhooks, support, eggs, settings and updates. Proved for the
lifecycle, transfers, databases, schedules, cron jobs and keys: every invariant that the runs *claims*,
*recovery*, *saga*, *transfers* and *databases* check, under the hypotheses of section 5; and of
*services* and *panel* all but the four named there.

Next, in this order:

1. **Composition** of `ServerDatabases` with `ServerTransfer`: single databases on two nodes, for
   the database that is created during a transfer.
2. **Theorems** about the components of the panels whose modules have neither recursion nor folds:
   `EntriesSound` and `SettingsSound`;
   transfers beside creations, for which an id needs a history of its servers.
3. **Backups**: restores and verification against transfers and deletions of the server.
4. **Several replicas** in `SystemUpdates`, `BootstrapTokens` and `EggCatalog`, which have one.
5. **Abstract specifications** of the feeds (a reliable log per viewer) and of the saves of whole
   collections (one register), refined by `ConsoleFeeds`, `EggCatalog` and `Accounts`.
