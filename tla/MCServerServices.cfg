SPECIFICATION PanelSpec
CONSTANTS
  None = None
  Replicas = {r1}
  Ids = {i1, i2}
  MaxQueue = 2
  MaxEdits = 2
  MaxRestarts = 1
  Parts <- AllParts
  Creations = {"c1", "c2"}
  Listings = {"l1"}
  Deletions = {"d1"}
  Limit = 1
  Clients = {"v1", "v2", "v3"}
  Viewers = {"v1", "v2"}
  MaxLines = 3
  MaxVisits = 2
  MaxFailures = 1
  BatchLimit = 2
  HistoryLimit = 2
  Managed = {"api", "frontend"}
  Automatic = {TRUE, FALSE}
  Polls = {"p1"}
  MaxVersion = 2
  MaxDeploys = 2
  MaxUpdateFaults = 1
  Kinds = {"console", "stats", "socket"}
  Sizes = {1, 2}
  MaxWaiting = 4
  MaxFrames = 8
  Nodes = {"n1", "n2"}
  Observers = {"v1", "v2"}
  Window = 2
  Release = 1
  MaxAnswers = 4
  MaxPolicies = 2
  Installers = {1, 2}
  Providers = {"paper", "mohist", "vanilla"}
  Editions <- Docs
  Wishes <- Asked
  Lifetime = 1
  MaxTicks = 1
  MaxInstallFaults = 1
  MaxStarts = 2
  Rotators = {"r1"}
  MaxCerts = 1
  MaxRotatorRestarts = 1
SYMMETRY IdSymmetry
CONSTRAINT Watched
INVARIANTS
  TimersRight
  ExactWhenDeciding
  FeedFollowsListeners
  ConsoleSound
  CompletedWasApplied
  StreamsSound
  TelemetryTrue
  InstallsSound
  NodeNotLockedOut
CHECK_DEADLOCK FALSE
