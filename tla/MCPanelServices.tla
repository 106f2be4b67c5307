--------------------------- MODULE MCPanelServices ---------------------------
(***************************************************************************)
(* The instance of PanelServices that TLC checks, with three more parts:   *)
(* sessions, orders for servers, and the settings of servers.              *)
(***************************************************************************)
EXTENDS PanelServices, TLC

CONSTANTS
  MaxEntries, MaxCodes, MaxAttempts, Batch, MaxPasswords, MaxVersions, MaxLinks, MaxSessions,  \* Sessions
  Plans, Nodes, Places, Ordered, Asks, Offers, Blank, Physical, PortCount, Policies,
  MaxOrderEdits, MaxOrderFaults,                                            \* PlanOrders
  Servers, Bodies, Versions, Low, High, PrimaryOf, MaxSetupEdits, MaxSetupFaults  \* ServerSettings

VARIABLES
  sessionAccount, sessionBanned, sessionAttempts, sessionLinks, sessionChallenges,
  sessionSetups, sessionRequest, sessionSessions, sessionMade, sessionRenewed, sessionSpent,
  sessionRaced, sessionStarts,
  orderPlans, orderNode, orderReport, orderRows, orderRequest, orderExcused, orderEdits,
  orderFaults,
  setupRows, setupAgents, setupRequest, setupExcused, setupReturned, setupEdits, setupFaults

sessionVars == <<sessionAccount, sessionBanned, sessionAttempts, sessionLinks,
                 sessionChallenges, sessionSetups, sessionRequest, sessionSessions,
                 sessionMade, sessionRenewed, sessionSpent, sessionRaced, sessionStarts>>
orderVars == <<orderPlans, orderNode, orderReport, orderRows, orderRequest, orderExcused,
               orderEdits, orderFaults>>
setupVars == <<setupRows, setupAgents, setupRequest, setupExcused, setupReturned,
               setupEdits, setupFaults>>

Doors == INSTANCE Sessions WITH
  MaxStarts <- MaxEntries,
  account <- sessionAccount, banned <- sessionBanned, attempts <- sessionAttempts,
  links <- sessionLinks, challenges <- sessionChallenges, setups <- sessionSetups,
  request <- sessionRequest, sessions <- sessionSessions, made <- sessionMade,
  renewed <- sessionRenewed, spent <- sessionSpent, raced <- sessionRaced,
  starts <- sessionStarts

Orders == INSTANCE PlanOrders WITH
  Servers <- Ordered, Legacy <- None, Edits <- Policies, MaxEdits <- MaxOrderEdits, MaxFaults <- MaxOrderFaults,
  plans <- orderPlans, node <- orderNode, report <- orderReport, rows <- orderRows,
  request <- orderRequest, excused <- orderExcused, edits <- orderEdits,
  faults <- orderFaults

Setup == INSTANCE ServerSettings WITH
  MaxEdits <- MaxSetupEdits, MaxFaults <- MaxSetupFaults,
  rows <- setupRows, agents <- setupAgents, request <- setupRequest,
  excused <- setupExcused, returned <- setupReturned, edits <- setupEdits,
  faults <- setupFaults

ASSUME EntriesFit == Doors!SessionsAssumption
ASSUME OrdersFit == Orders!PlanOrdersAssumption
ASSUME SetupFits == Setup!ServerSettingsAssumption

NoDoors ==
  /\ sessionAccount = None /\ sessionBanned = None /\ sessionAttempts = None
  /\ sessionLinks = None /\ sessionChallenges = None /\ sessionSetups = None
  /\ sessionRequest = None /\ sessionSessions = None /\ sessionMade = None /\ sessionRenewed = None
  /\ sessionSpent = None /\ sessionRaced = None /\ sessionStarts = None
NoOrders ==
  /\ orderPlans = None /\ orderNode = None /\ orderReport = None /\ orderRows = None
  /\ orderRequest = None /\ orderExcused = None /\ orderEdits = None /\ orderFaults = None
NoSetup ==
  /\ setupRows = None /\ setupAgents = None /\ setupRequest = None /\ setupExcused = None
  /\ setupReturned = None /\ setupEdits = None /\ setupFaults = None

ServicesInit ==
  /\ PanelInit
  /\ IF part = "sessions" THEN Doors!Init ELSE NoDoors
  /\ IF part = "orders" THEN Orders!Init ELSE NoOrders
  /\ IF part = "setup" THEN Setup!Init ELSE NoSetup

Others == PanelNext /\ UNCHANGED <<sessionVars, orderVars, setupVars>>
Entering == part = "sessions" /\ Doors!Next /\ UNCHANGED <<panelVars, orderVars, setupVars>>
Ordering == part = "orders" /\ Orders!Next /\ UNCHANGED <<panelVars, sessionVars, setupVars>>
SettingUp == part = "setup" /\ Setup!Next /\ UNCHANGED <<panelVars, sessionVars, orderVars>>

ServicesNext == Others \/ Entering \/ Ordering \/ SettingUp
ServicesSpec == ServicesInit /\ [][ServicesNext]_<<panelVars, sessionVars, orderVars, setupVars>>

\* The sessions that the guard admits are those of people who know a password
\* that counts, and a recovery code, a reset link or a bootstrap token lets in
\* once, unless requests compared the code together, and unless the save of the
\* token was lost (Sessions, BootstrapTokens).
EntriesSound ==
  /\ part = "sessions" => Doors!SessionsSound /\ Doors!CodesSpent
  /\ part = "tokens" => Enrolment!TokensSound

\* No node is promised more than it may give away, but for the excuses that
\* PlanOrders names.
PromisesKept == part = "orders" => Orders!PromisesKept

\* Panel and agent say the same of a server at rest, and no two servers have a
\* host port (ServerSettings).
SettingsSound == part = "setup" => Setup!CopiesAgree /\ Setup!PortsReserved

-----------------------------------------------------------------------------
(* The values. *)

AllParts ==
  {"material", "accounts", "webhooks", "signin", "support", "eggs", "settings", "tokens",
   "access", "sessions", "orders", "setup"}

\* What the environment of a start says: all in form, or little of it.
Surroundings ==
  {[min |-> 12, max |-> 128, url |-> "empty", name |-> "a", secret |-> "k",
    verify |-> FALSE, smtp |-> FALSE, port |-> 587, security |-> "starttls", s3 |-> FALSE],
   [min |-> 6, max |-> 300, url |-> "https/path", name |-> "padded-a", secret |-> "padded-k",
    verify |-> TRUE, smtp |-> FALSE, port |-> 587, security |-> "starttls", s3 |-> TRUE]}

\* What is sent for the settings of a server.
SomeBodies ==
  {[role |-> "user", vars |-> [word |-> 1, ports |-> <<>>], template |-> None, memory |-> None],
   [role |-> "admin", vars |-> [word |-> 1, ports |-> <<3>>], template |-> None, memory |-> 1],
   [role |-> "admin", vars |-> [word |-> 0, ports |-> <<4, 3>>], template |-> None, memory |-> None],
   [role |-> "admin", vars |-> None, template |-> 1, memory |-> 2]}

\* A grant with a scope that there is not.
SomeGrants == {[permission |-> "custom", scopes |-> {"settings", "x"}]}

\* What administrators send for a plan and for a node, field by field.
BlankPlan ==
  [key |-> "k", enabled |-> TRUE, egg |-> "g1", allowed |-> {}, place |-> None, node |-> None,
   memory |-> 1, disk |-> 1, swap |-> 0, general |-> TRUE]
SomeOffers ==
  {[swap |-> 1], [swap |-> 2], [swap |-> 1, general |-> FALSE, disk |-> 2],
   [node |-> "n1", place |-> "east"]}
\* An order may name a server bigger than its plan's, in one or both ways.
SomeAsks == {[memory |-> 0, disk |-> 0], [memory |-> 2, disk |-> 2]}
SomePolicies == {[limit |-> 1, maintenance |-> TRUE], [over |-> 1, place |-> "west"]}

\* The nest that an egg names, the primary port of a server, the role of an account.
NestOf == [e1 |-> "n1", e2 |-> None]
PrimaryPorts == [s1 |-> 1, s2 |-> 2]
RoleOf == [a |-> "admin", o |-> "user"]

\* Requests are interchangeable, and once a change of an account may have been
\* lost with an excuse, what becomes of the others is not followed.
RequestSymmetry == Permutations(Requests)
Followed == accountExcused \in {None, {}}
==============================================================================
