SPECIFICATION ServicesSpec
CONSTANTS
  None = None
  Replicas = {"r1", "r2"}
  Single = "r1"
  Files = {"ca", "server"}
  MaxStarts = 3
  Parts <- AllParts
  Same = Same
  Requests = {q1, q2}
  Processes = {"r1"}
  Users = {"u1", "u2"}
  FirstUser = "u1"
  MaxChanges = 2
  MaxQueue = 1
  MaxAccountFaults = 1
  Targets = {"t1", "t2"}
  Filed = {"t1"}
  Watched = {"s1"}
  Dispatches = {"d1"}
  MaxRestarts = 1
  Persons = {"u1", "u2"}
  Emails = {"e1", "e2"}
  Identities = {"g1"}
  Invitations = {"i1"}
  MaxSignInEdits = 4
  People = {"u1", "u2"}
  Tickets = {"t1", "t2"}
  Cap = 1
  Settable = {"resolved", "closed"}
  MaxSupportOps = 4
  Eggs = {"e1", "e2"}
  Nests = {"n0", "n1"}
  DefaultNest = "n0"
  NestNamed <- NestOf
  Category = "n1"
  Partial = {"e1"}
  MaxEggOps = 4
  MaxEggFaults = 1
  Lengths = {6, 20, 200}
  MinLow = 8
  MinHigh = 128
  MaxHigh = 256
  Environments <- Surroundings
  Production = TRUE
  Clients = {"k1"}
  Maximum = 1
  Window = 2
  MaxSettingEdits = 2
  MaxTime = 2
  MaxSettingFaults = 1
  MaxEntries = 7
  MaxCodes = 4
  MaxAttempts = 2
  Batch = 2
  MaxPasswords = 1
  MaxVersions = 1
  MaxLinks = 1
  MaxSessions = 2
  Tokens = {"t1", "t2"}
  MaxTokenFaults = 2
  Plans = {"p1"}
  Nodes = {"n1", "n2"}
  Places = {"east"}
  Ordered = {"s1", "s2"}
  Asks <- SomeAsks
  Offers <- SomeOffers
  Blank <- BlankPlan
  Physical = 2
  PortCount = 2
  Policies <- SomePolicies
  MaxOrderEdits = 2
  MaxOrderFaults = 1
  Servers = {"s1", "s2"}
  Bodies <- SomeBodies
  Versions = {1}
  Low = 3
  High = 4
  PrimaryOf <- PrimaryPorts
  MaxSetupEdits = 3
  MaxSetupFaults = 1
  Members = {"a", "o"}
  Roles <- RoleOf
  Grants <- SomeGrants
  Scopes = {"console.view", "files.view", "settings"}
  MaxAccessOps = 4
  MaxAccessFaults = 1
SYMMETRY RequestSymmetry
CONSTRAINT Followed
INVARIANTS
  AccountsSound
  TriedExactly
  OneMaterial
  SignInsSound
  EntriesSound
  PromisesKept
  SettingsSound
  AccessSound
  StatusReachesRequester
  TablesFollow
  LoadedAsSaved
CHECK_DEADLOCK FALSE
