---------------------------- MODULE PanelServices ----------------------------
(***************************************************************************)
(* The services of the panel as a whole: the keys of the cluster, the      *)
(* enrolment of agents, accounts and sign-in, webhooks, the access to      *)
(* servers, support, eggs, settings.  They share no variable, so one of    *)
(* them moves in a behaviour ("part") and the others have no state, except *)
(* that the keys rest in one of their initial states.  A module that       *)
(* extends this one may name more parts.                                   *)
(***************************************************************************)
EXTENDS SecurityMaterial

CONSTANTS
  Parts,      \* the names of what may move
  Same,       \* the records as they are when they are written
  Requests,   \* requests of one kind under way at the same time
  Processes, Users, FirstUser, MaxChanges, MaxQueue, MaxAccountFaults,      \* Accounts
  Targets, Filed, Watched, Dispatches, MaxRestarts,                         \* WebhookDispatch
  Persons, Emails, Identities, Invitations, MaxSignInEdits,                 \* SignIn
  People, Tickets, Cap, Settable, MaxSupportOps,                            \* Support
  Eggs, Nests, DefaultNest, NestNamed, Category, Partial, MaxEggOps, MaxEggFaults,  \* EggCatalog
  Lengths, MinLow, MinHigh, MaxHigh, Environments, Production, Clients, Maximum, Window,
  MaxSettingEdits, MaxTime, MaxSettingFaults,                               \* PanelSettings
  Tokens, MaxTokenFaults,                                                   \* BootstrapTokens
  Members, Roles, Grants, Scopes, MaxAccessOps, MaxAccessFaults             \* ServerAccess

VARIABLES
  part,
  accountTable, accountMemory, accountQueue, accountWriting, accountRequest,
  accountAnswered, accountExcused, accountUsed, accountChanges, accountFaults,
  webhookFile, webhookTargets, webhookLog, webhookDispatch, webhookRefused, webhookGone,
  webhookLasting, webhookUsed, webhookRestarts,
  signInAccount, signInInvite, signInSettings, signInLinks, signInRequest, signInVouched,
  signInAdmitted, signInEdits,
  supportRole, supportTicket, supportList, supportNotifying, supportClock, supportSeen,
  eggUp, eggEggs, eggNests, eggEggRows, eggNestRows, eggEggSaves, eggNestSaves, eggStale,
  eggDownload, eggOps, eggFaults,
  settingUsesRedis, settingSettings, settingFile, settingAttempts, settingCounter,
  settingHit, settingNow, settingEdits, settingFaults,
  tokenMemory, tokenTable, tokenSaves, tokenExpired, tokenIssued, tokenRequest, tokenActive,
  tokenGiven, tokenExcused, tokenFaults,
  accessAccounts, accessServer, accessRows, accessLog, accessInserts, accessRequest,
  accessBorn, accessExcused, accessOps, accessFaults

accountVars == <<accountTable, accountMemory, accountQueue, accountWriting, accountRequest,
                 accountAnswered, accountExcused, accountUsed, accountChanges, accountFaults>>
webhookVars == <<webhookFile, webhookTargets, webhookLog, webhookDispatch, webhookRefused,
                 webhookGone, webhookLasting, webhookUsed, webhookRestarts>>
signInVars == <<signInAccount, signInInvite, signInSettings, signInLinks, signInRequest,
                signInVouched, signInAdmitted, signInEdits>>
supportVars == <<supportRole, supportTicket, supportList, supportNotifying, supportClock,
                 supportSeen>>
eggVars == <<eggUp, eggEggs, eggNests, eggEggRows, eggNestRows, eggEggSaves, eggNestSaves,
             eggStale, eggDownload, eggOps, eggFaults>>
settingVars == <<settingUsesRedis, settingSettings, settingFile, settingAttempts,
                 settingCounter, settingHit, settingNow, settingEdits, settingFaults>>
tokenVars == <<tokenMemory, tokenTable, tokenSaves, tokenExpired, tokenIssued, tokenRequest,
               tokenActive, tokenGiven, tokenExcused, tokenFaults>>
accessVars == <<accessAccounts, accessServer, accessRows, accessLog, accessInserts,
                accessRequest, accessBorn, accessExcused, accessOps, accessFaults>>

Directory == INSTANCE Accounts WITH
  Replicas <- Processes, First <- FirstUser, MaxFaults <- MaxAccountFaults,
  table <- accountTable, memory <- accountMemory, queue <- accountQueue,
  writing <- accountWriting, request <- accountRequest, answered <- accountAnswered,
  excused <- accountExcused, used <- accountUsed, changes <- accountChanges,
  faults <- accountFaults

Webhooks == INSTANCE WebhookDispatch WITH
  Servers <- Watched,
  file <- webhookFile, targets <- webhookTargets, log <- webhookLog,
  dispatch <- webhookDispatch, refused <- webhookRefused, gone <- webhookGone,
  lasting <- webhookLasting, used <- webhookUsed, restarts <- webhookRestarts

SignIns == INSTANCE SignIn WITH
  Ids <- Persons, Absent <- None, MaxEdits <- MaxSignInEdits,
  account <- signInAccount, invite <- signInInvite, settings <- signInSettings,
  links <- signInLinks, request <- signInRequest, vouched <- signInVouched,
  admitted <- signInAdmitted, edits <- signInEdits

Desk == INSTANCE Support WITH
  MaxOps <- MaxSupportOps,
  role <- supportRole, ticket <- supportTicket, list <- supportList,
  notifying <- supportNotifying, clock <- supportClock, seen <- supportSeen

Catalog == INSTANCE EggCatalog WITH
  Default <- DefaultNest, Named <- NestNamed, MaxOps <- MaxEggOps, MaxFaults <- MaxEggFaults,
  up <- eggUp, eggs <- eggEggs, nests <- eggNests, eggRows <- eggEggRows,
  nestRows <- eggNestRows, eggSaves <- eggEggSaves, nestSaves <- eggNestSaves,
  stale <- eggStale, download <- eggDownload, ops <- eggOps, faults <- eggFaults

Site == INSTANCE PanelSettings WITH
  MaxEdits <- MaxSettingEdits, MaxFaults <- MaxSettingFaults,
  usesRedis <- settingUsesRedis, settings <- settingSettings, file <- settingFile,
  attempts <- settingAttempts, counter <- settingCounter, hit <- settingHit,
  now <- settingNow, edits <- settingEdits, faults <- settingFaults

Enrolment == INSTANCE BootstrapTokens WITH
  MaxFaults <- MaxTokenFaults,
  memory <- tokenMemory, table <- tokenTable, saves <- tokenSaves, expired <- tokenExpired,
  issued <- tokenIssued, request <- tokenRequest, active <- tokenActive,
  given <- tokenGiven, excused <- tokenExcused, faults <- tokenFaults

Access == INSTANCE ServerAccess WITH
  Users <- Members, MaxOps <- MaxAccessOps, MaxFaults <- MaxAccessFaults,
  accounts <- accessAccounts, server <- accessServer, rows <- accessRows, log <- accessLog,
  inserts <- accessInserts, request <- accessRequest, born <- accessBorn,
  excused <- accessExcused, ops <- accessOps, faults <- accessFaults

\* One of the initial states of SecurityMaterial.
Resting == shared /\ \A r \in Replicas : Present(r) = {}

ASSUME PartsNamed ==
  {"material", "accounts", "webhooks", "signin", "support", "eggs", "settings", "tokens",
   "access"} \subseteq Parts
ASSUME AccountsFit == Directory!AccountsAssumption
ASSUME WebhooksFit == Webhooks!WebhooksAssumption
ASSUME SupportFits == SignIns!SignInAssumption /\ Desk!SupportAssumption
ASSUME EggsFit == Catalog!EggCatalogAssumption
ASSUME SettingsFit == Site!PanelSettingsAssumption
ASSUME EnrolmentFits == Enrolment!BootstrapTokensAssumption
ASSUME AccessFits == Access!ServerAccessAssumption

NoDirectory ==
  /\ accountTable = None /\ accountMemory = None /\ accountQueue = None /\ accountWriting = None
  /\ accountRequest = None /\ accountAnswered = None /\ accountExcused = None
  /\ accountUsed = None /\ accountChanges = None /\ accountFaults = None
NoWebhooks ==
  /\ webhookFile = None /\ webhookTargets = None /\ webhookLog = None /\ webhookDispatch = None
  /\ webhookRefused = None /\ webhookGone = None /\ webhookLasting = None /\ webhookUsed = None
  /\ webhookRestarts = None
NoSignIns ==
  /\ signInAccount = None /\ signInInvite = None /\ signInSettings = None /\ signInLinks = None
  /\ signInRequest = None /\ signInVouched = None /\ signInAdmitted = None /\ signInEdits = None
NoDesk ==
  /\ supportRole = None /\ supportTicket = None /\ supportList = None /\ supportNotifying = None
  /\ supportClock = None /\ supportSeen = None
NoCatalog ==
  /\ eggUp = None /\ eggEggs = None /\ eggNests = None /\ eggEggRows = None /\ eggNestRows = None
  /\ eggEggSaves = None /\ eggNestSaves = None /\ eggStale = None /\ eggDownload = None
  /\ eggOps = None /\ eggFaults = None
NoSite ==
  /\ settingUsesRedis = None /\ settingSettings = None /\ settingFile = None
  /\ settingAttempts = None /\ settingCounter = None /\ settingHit = None /\ settingNow = None
  /\ settingEdits = None /\ settingFaults = None
NoEnrolment ==
  /\ tokenMemory = None /\ tokenTable = None /\ tokenSaves = None /\ tokenExpired = None
  /\ tokenIssued = None /\ tokenRequest = None /\ tokenActive = None /\ tokenGiven = None
  /\ tokenExcused = None /\ tokenFaults = None
NoAccess ==
  /\ accessAccounts = None /\ accessServer = None /\ accessRows = None /\ accessLog = None
  /\ accessInserts = None /\ accessRequest = None /\ accessBorn = None /\ accessExcused = None
  /\ accessOps = None /\ accessFaults = None

PanelInit ==
  /\ part \in Parts
  /\ Init /\ (part = "material" \/ Resting)
  /\ IF part = "accounts" THEN Directory!Init ELSE NoDirectory
  /\ IF part = "webhooks" THEN Webhooks!Init ELSE NoWebhooks
  /\ IF part = "signin" THEN SignIns!Init ELSE NoSignIns
  /\ IF part = "support" THEN Desk!Init ELSE NoDesk
  /\ IF part = "eggs" THEN Catalog!Init ELSE NoCatalog
  /\ IF part = "settings" THEN Site!Init ELSE NoSite
  /\ IF part = "tokens" THEN Enrolment!Init ELSE NoEnrolment
  /\ IF part = "access" THEN Access!Init ELSE NoAccess

Seeding ==
  /\ part = "material" /\ Next
  /\ UNCHANGED <<part, accountVars, webhookVars, signInVars, supportVars, eggVars,
                 settingVars, tokenVars, accessVars>>
Administering ==
  /\ part = "accounts" /\ Directory!Next
  /\ UNCHANGED <<part, vars, webhookVars, signInVars, supportVars, eggVars, settingVars,
                 tokenVars, accessVars>>
Dispatching ==
  /\ part = "webhooks" /\ Webhooks!Next
  /\ UNCHANGED <<part, vars, accountVars, signInVars, supportVars, eggVars, settingVars,
                 tokenVars, accessVars>>
SigningIn ==
  /\ part = "signin" /\ SignIns!Next
  /\ UNCHANGED <<part, vars, accountVars, webhookVars, supportVars, eggVars,
                 settingVars, tokenVars, accessVars>>
Supporting ==
  /\ part = "support" /\ Desk!Next
  /\ UNCHANGED <<part, vars, accountVars, webhookVars, signInVars, eggVars, settingVars,
                 tokenVars, accessVars>>
Cataloguing ==
  /\ part = "eggs" /\ Catalog!Next
  /\ UNCHANGED <<part, vars, accountVars, webhookVars, signInVars, supportVars,
                 settingVars, tokenVars, accessVars>>
Configuring ==
  /\ part = "settings" /\ Site!Next
  /\ UNCHANGED <<part, vars, accountVars, webhookVars, signInVars, supportVars, eggVars,
                 tokenVars, accessVars>>
Enrolling ==
  /\ part = "tokens" /\ Enrolment!Next
  /\ UNCHANGED <<part, vars, accountVars, webhookVars, signInVars, supportVars, eggVars,
                 settingVars, accessVars>>
Sharing ==
  /\ part = "access" /\ Access!Next
  /\ UNCHANGED <<part, vars, accountVars, webhookVars, signInVars, supportVars, eggVars,
                 settingVars, tokenVars>>

PanelNext == Seeding \/ Administering \/ Dispatching \/ SigningIn \/ Supporting \/
             Cataloguing \/ Configuring \/ Enrolling \/ Sharing
panelVars == <<part, vars, accountVars, webhookVars, signInVars, supportVars, eggVars,
              settingVars, tokenVars, accessVars>>

PanelSpec == PanelInit /\ [][PanelNext]_panelVars

-----------------------------------------------------------------------------
(* Properties: those of the parts, of the one that moves. *)

\* A change of an account that was answered is in the table or queued, and
\* some account is an owner (Accounts).
AccountsSound == part = "accounts" => Directory!ChangesStand /\ Directory!OwnerRemains

\* A dispatch tries exactly the targets that waited for its event
\* (WebhookDispatch).
TriedExactly == part = "webhooks" => Webhooks!TriedExactly

\* An address is verified only if somebody vouched for it, and an invitation
\* lets no more registrations in than it allows (SignIn).
SignInsSound == part = "signin" => SignIns!VerifiedIsVouched /\ SignIns!InvitesAdmitOne

\* Collaborators belong to their server and account, and are told what the
\* guards let them do (ServerAccess).
AccessSound == part = "access" => Access!AccessSound

\* Whoever asked for support can tell how the ticket stands (Support).
StatusReachesRequester == part = "support" => Desk!StatusReachesRequester

\* Saves that nobody waits for leave the tables as the memory is (EggCatalog).
TablesFollow == part = "eggs" => Catalog!TablesFollow

\* A start finds the settings as they were left (PanelSettings).
LoadedAsSaved == part = "settings" => Site!LoadedAsSaved
==============================================================================
