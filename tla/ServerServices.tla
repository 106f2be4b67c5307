---------------------------- MODULE ServerServices ----------------------------
(***************************************************************************)
(* What happens around one server: its schedules and backups, the feeds of *)
(* its statistics and console up to the browser, the versions that are     *)
(* installed, the telemetry and the certificates of its node; and the      *)
(* updater of the panel.  They share no variable, so one of them moves in  *)
(* a behaviour ("part") and the others have no state; schedules rest in    *)
(* their initial state.                                                    *)
(***************************************************************************)
EXTENDS ServerSchedules

CONSTANTS
  Parts,      \* the names of what may move
  Creations, Listings, Deletions, Limit,                                    \* ServerBackups
  Clients,                                                                  \* StatsFeeds
  Viewers, MaxLines, MaxVisits, MaxFailures, BatchLimit, HistoryLimit,      \* ConsoleFeeds
  Managed, Automatic, Polls, MaxVersion, MaxDeploys, MaxUpdateFaults,       \* SystemUpdates
  Kinds, Sizes, MaxWaiting, MaxFrames,                                      \* BrowserStreams
  Rotators, MaxCerts, MaxRotatorRestarts,                                   \* AgentCertificates
  Nodes, Observers, Window, Release, MaxAnswers, MaxPolicies,               \* NodeTelemetry
  Installers, Providers, Editions, Wishes, Lifetime, MaxTicks,              \* VersionInstall
  MaxInstallFaults, MaxStarts

VARIABLES
  part,
  backupRows, backupStored, backupMade, backupOp, backupClock, backupOverlaid,
  statsClient, statsGeneration, statsLive, statsListeners, statsTimer, statsPolling,
  statsStopping, statsPolls,
  consoleFeed, consoleStreams, consoleForgotten, consoleShown, consoleReady,
  consoleReceived, consolePrinted, consoleVisits, consoleFailures, consoleOpened,
  updateLatest, updateMemory, updateRow, updatePoll, updateDeploy, updateJob, updateResult,
  updateScript, updateRelease, updateRunning, updateApplied, updateDeploys, updateFaults,
  responseKind, responsePc, responseRes, responseCloseEvent, responseDraining,
  responseClosed, responseBackpressured, responseQueue, responseKick, responseHeartbeat,
  responseSubscribed, responseUnsubscribe, responseEmitted, responseLast, responseRetained,
  certificateTable, certificateRegistry, certificateRefresh, certificateBeat,
  certificateAdmin, certificateRotation, certificateAgent, certificateIssued,
  certificateMishap, certificateRestarts,
  nodeRegistered, nodeFlight, nodeCache, nodeSamples, nodeSeen, nodeAlerts, nodeTimer,
  nodeWatching, nodeAgent, nodeLog, nodeEdits,
  installProvider, installEdition, installNow, installMemory, installRow, installJob,
  installServer, installUsed, installExcused, installFaults, installStarts

backupVars == <<backupRows, backupStored, backupMade, backupOp, backupClock, backupOverlaid>>
statsVars == <<statsClient, statsGeneration, statsLive, statsListeners, statsTimer,
               statsPolling, statsStopping, statsPolls>>
consoleVars == <<consoleFeed, consoleStreams, consoleForgotten, consoleShown, consoleReady,
                 consoleReceived, consolePrinted, consoleVisits, consoleFailures,
                 consoleOpened>>
updateVars == <<updateLatest, updateMemory, updateRow, updatePoll, updateDeploy, updateJob,
                updateResult, updateScript, updateRelease, updateRunning, updateApplied,
                updateDeploys, updateFaults>>
responseVars == <<responseKind, responsePc, responseRes, responseCloseEvent,
                  responseDraining, responseClosed, responseBackpressured, responseQueue,
                  responseKick, responseHeartbeat, responseSubscribed, responseUnsubscribe,
                  responseEmitted, responseLast, responseRetained>>
certificateVars == <<certificateTable, certificateRegistry, certificateRefresh,
                     certificateBeat, certificateAdmin, certificateRotation,
                     certificateAgent, certificateIssued, certificateMishap,
                     certificateRestarts>>

nodeVars == <<nodeRegistered, nodeFlight, nodeCache, nodeSamples, nodeSeen, nodeAlerts,
              nodeTimer, nodeWatching, nodeAgent, nodeLog, nodeEdits>>
installVars == <<installProvider, installEdition, installNow, installMemory, installRow,
                 installJob, installServer, installUsed, installExcused, installFaults,
                 installStarts>>

Backups == INSTANCE ServerBackups WITH
  rows <- backupRows, stored <- backupStored, made <- backupMade, op <- backupOp,
  clock <- backupClock, overlaid <- backupOverlaid

Stats == INSTANCE StatsFeeds WITH
  client <- statsClient, generation <- statsGeneration, live <- statsLive,
  listeners <- statsListeners, timer <- statsTimer, polling <- statsPolling,
  stopping <- statsStopping, polls <- statsPolls

Console == INSTANCE ConsoleFeeds WITH
  feed <- consoleFeed, streams <- consoleStreams, forgotten <- consoleForgotten,
  shown <- consoleShown, ready <- consoleReady, received <- consoleReceived,
  printed <- consolePrinted, visits <- consoleVisits, failures <- consoleFailures,
  opened <- consoleOpened

Updates == INSTANCE SystemUpdates WITH
  MaxFaults <- MaxUpdateFaults,
  latest <- updateLatest, memory <- updateMemory, row <- updateRow, poll <- updatePoll,
  deploy <- updateDeploy, job <- updateJob, result <- updateResult, script <- updateScript,
  release <- updateRelease, running <- updateRunning, applied <- updateApplied,
  deploys <- updateDeploys, faults <- updateFaults

Responses == INSTANCE BrowserStreams WITH
  MaxQueue <- MaxWaiting,
  kind <- responseKind, pc <- responsePc, res <- responseRes,
  closeEvent <- responseCloseEvent, draining <- responseDraining, closed <- responseClosed,
  backpressured <- responseBackpressured, queue <- responseQueue, kick <- responseKick,
  heartbeat <- responseHeartbeat, subscribed <- responseSubscribed,
  unsubscribe <- responseUnsubscribe, emitted <- responseEmitted, last <- responseLast,
  retained <- responseRetained

Certificates == INSTANCE AgentCertificates WITH
  Replicas <- Rotators, MaxRestarts <- MaxRotatorRestarts,
  table <- certificateTable, registry <- certificateRegistry, refresh <- certificateRefresh,
  beat <- certificateBeat, admin <- certificateAdmin, rotation <- certificateRotation,
  agent <- certificateAgent, issued <- certificateIssued, mishap <- certificateMishap,
  restarts <- certificateRestarts

Telemetry == INSTANCE NodeTelemetry WITH
  Viewers <- Observers, MaxEdits <- MaxPolicies,
  registered <- nodeRegistered, flight <- nodeFlight, cache <- nodeCache,
  samples <- nodeSamples, seen <- nodeSeen, alerts <- nodeAlerts, timer <- nodeTimer,
  watching <- nodeWatching, agent <- nodeAgent, log <- nodeLog, edits <- nodeEdits

Games == INSTANCE VersionInstall WITH
  Replicas <- Installers, MaxFaults <- MaxInstallFaults,
  provider <- installProvider, edition <- installEdition, now <- installNow,
  memory <- installMemory, row <- installRow, job <- installJob, server <- installServer,
  used <- installUsed, excused <- installExcused, faults <- installFaults,
  starts <- installStarts

ASSUME BackupsFit == Backups!BackupsAssumption
ASSUME UpdatesFit == Updates!UpdatesAssumption
ASSUME StreamsFit == Responses!BrowserStreamsAssumption
ASSUME CertificatesFit == Certificates!CertificatesAssumption /\ Certificates!NoCertAssumption
ASSUME VersionsFit == Games!VersionInstallAssumption
ASSUME TelemetryFits ==
  Telemetry!NodeTelemetryAssumption /\ Telemetry!NoAlertsAssumption
ASSUME PartsNamed ==
  {"schedules", "backups", "stats", "console", "updates", "streams", "certificates",
   "telemetry", "versions"} \subseteq Parts

NoBackups ==
  /\ backupRows = None /\ backupStored = None /\ backupMade = None /\ backupOp = None
  /\ backupClock = None /\ backupOverlaid = None
NoStats ==
  /\ statsClient = None /\ statsGeneration = None /\ statsLive = None /\ statsListeners = None
  /\ statsTimer = None /\ statsPolling = None /\ statsStopping = None /\ statsPolls = None
NoConsole ==
  /\ consoleFeed = None /\ consoleStreams = None /\ consoleForgotten = None
  /\ consoleShown = None /\ consoleReady = None /\ consoleReceived = None
  /\ consolePrinted = None /\ consoleVisits = None /\ consoleFailures = None
  /\ consoleOpened = None
NoUpdates ==
  /\ updateLatest = None /\ updateMemory = None /\ updateRow = None /\ updatePoll = None
  /\ updateDeploy = None /\ updateJob = None /\ updateResult = None /\ updateScript = None
  /\ updateRelease = None /\ updateRunning = None /\ updateApplied = None /\ updateDeploys = None
  /\ updateFaults = None
NoResponses ==
  /\ responseKind = None /\ responsePc = None /\ responseRes = None /\ responseCloseEvent = None
  /\ responseDraining = None /\ responseClosed = None /\ responseBackpressured = None
  /\ responseQueue = None /\ responseKick = None /\ responseHeartbeat = None
  /\ responseSubscribed = None /\ responseUnsubscribe = None /\ responseEmitted = None
  /\ responseLast = None /\ responseRetained = None
NoCertificates ==
  /\ certificateTable = None /\ certificateRegistry = None /\ certificateRefresh = None
  /\ certificateBeat = None /\ certificateAdmin = None /\ certificateRotation = None
  /\ certificateAgent = None /\ certificateIssued = None /\ certificateMishap = None
  /\ certificateRestarts = None

NoTelemetry ==
  /\ nodeRegistered = None /\ nodeFlight = None /\ nodeCache = None /\ nodeSamples = None
  /\ nodeSeen = None /\ nodeAlerts = None /\ nodeTimer = None /\ nodeWatching = None
  /\ nodeAgent = None /\ nodeLog = None /\ nodeEdits = None
NoGames ==
  /\ installProvider = None /\ installEdition = None /\ installNow = None /\ installMemory = None
  /\ installRow = None /\ installJob = None /\ installServer = None /\ installUsed = None
  /\ installExcused = None /\ installFaults = None /\ installStarts = None

PanelInit ==
  /\ part \in Parts
  /\ Init
  /\ IF part = "backups" THEN Backups!Init ELSE NoBackups
  /\ IF part = "stats" THEN Stats!Init ELSE NoStats
  /\ IF part = "console" THEN Console!Init ELSE NoConsole
  /\ IF part = "updates" THEN Updates!Init ELSE NoUpdates
  /\ IF part = "streams" THEN Responses!Init ELSE NoResponses
  /\ IF part = "certificates" THEN Certificates!Init ELSE NoCertificates
  /\ IF part = "telemetry" THEN Telemetry!Init ELSE NoTelemetry
  /\ IF part = "versions" THEN Games!Init ELSE NoGames

Scheduling ==
  /\ part = "schedules" /\ Next
  /\ UNCHANGED <<part, backupVars, statsVars, consoleVars, updateVars,
                 responseVars, certificateVars, nodeVars, installVars>>
BackingUp ==
  /\ part = "backups" /\ Backups!Next
  /\ UNCHANGED <<part, vars, statsVars, consoleVars, updateVars,
                 responseVars, certificateVars, nodeVars, installVars>>
Polling ==
  /\ part = "stats" /\ Stats!Next
  /\ UNCHANGED <<part, vars, backupVars, consoleVars, updateVars,
                 responseVars, certificateVars, nodeVars, installVars>>
Streaming ==
  /\ part = "console" /\ Console!Next
  /\ UNCHANGED <<part, vars, backupVars, statsVars, updateVars,
                 responseVars, certificateVars, nodeVars, installVars>>
Updating ==
  /\ part = "updates" /\ Updates!Next
  /\ UNCHANGED <<part, vars, backupVars, statsVars, consoleVars,
                 responseVars, certificateVars, nodeVars, installVars>>
Showing ==
  /\ part = "streams" /\ Responses!Next
  /\ UNCHANGED <<part, vars, backupVars, statsVars, consoleVars,
                 updateVars, certificateVars, nodeVars, installVars>>
Rotating ==
  /\ part = "certificates" /\ Certificates!Next
  /\ UNCHANGED <<part, vars, backupVars, statsVars, consoleVars,
                 updateVars, responseVars, nodeVars, installVars>>
Watching ==
  /\ part = "telemetry" /\ Telemetry!Next
  /\ UNCHANGED <<part, vars, backupVars, statsVars, consoleVars,
                 updateVars, responseVars, certificateVars, installVars>>
Installing ==
  /\ part = "versions" /\ Games!Next
  /\ UNCHANGED <<part, vars, backupVars, statsVars, consoleVars,
                 updateVars, responseVars, certificateVars, nodeVars>>

PanelNext == Scheduling \/ BackingUp \/ Polling \/ Streaming \/ Updating \/
             Showing \/ Rotating \/ Watching \/ Installing
panelVars == <<part, vars, backupVars, statsVars, consoleVars, updateVars, responseVars,
              certificateVars, nodeVars, installVars>>

PanelSpec == PanelInit /\ [][PanelNext]_panelVars

-----------------------------------------------------------------------------
(* Properties: those of the parts, of the one that moves. *)

\* A creation that nothing overtook decides on the exact catalogue
\* (ServerBackups).
ExactWhenDeciding == part = "backups" => Backups!ExactWhenDeciding

\* While somebody listens to the statistics a poll is under way or due
\* (StatsFeeds).
FeedFollowsListeners == part = "stats" => Stats!FeedFollowsListeners

\* A viewer who is up to date has what the stream had, in order, and a watched
\* console has a stream or a timer that opens one (ConsoleFeeds).
ConsoleSound == part = "console" => Console!ViewersSeeTheStream /\ Console!NeverStalls

\* An update reported as completed was switched to (SystemUpdates).
CompletedWasApplied == part = "updates" => Updates!CompletedWasApplied

\* A browser is shown every event that is not overtaken, never waits for
\* nothing, and is released when it goes (BrowserStreams).
StreamsSound == part = "streams" => Responses!StreamsSound

\* An agent is reachable or a rotation will make it so (AgentCertificates).
NodeNotLockedOut == part = "certificates" => Certificates!NodeNotLockedOut

\* What is told of a node follows from its answers, and everybody is told the
\* same (NodeTelemetry).
TelemetryTrue == part = "telemetry" => Telemetry!TelemetryTrue

\* A version is offered, installed and shown as published, and a failed
\* installation leaves server and databases as they were (VersionInstall).
InstallsSound == part = "versions" => Games!InstallsSound
==============================================================================
