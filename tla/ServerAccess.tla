----------------------------- MODULE ServerAccess -----------------------------
(***************************************************************************)
(* Who may do what with a server, and what the activity log keeps of it.   *)
(* The table of collaborators names a server and an account by their ids   *)
(* and refers to neither; ids of servers are given by whoever orders one,  *)
(* so that an id may come back with another owner.  Requests read the      *)
(* server, check, and write later; accounts and servers go meanwhile.      *)
(***************************************************************************)
EXTENDS Integers, FiniteSets

CONSTANTS
  None,
  Users, Roles,   \* accounts, and the roles they start with
  Requests,
  Scopes,         \* SERVER_PERMISSION_SCOPES
  Grants,         \* what a collaborator is given: permission and scopes
  MaxOps, MaxFaults

ServerAccessAssumption ==
  /\ Roles \in [Users -> {"owner", "admin", "support", "user"}]
  /\ None \notin {"owner", "admin", "support", "user", "grant", "revoke", "delete", "remove"}
  /\ None \notin [owner : Users, frozen : BOOLEAN, born : Nat]
  /\ {"console.view", "files.view"} \subseteq Scopes
  /\ {MaxOps, MaxFaults} \subseteq Nat

VARIABLES
  accounts,  \* UsersService.users: the role of every account there is
  server,    \* the row of the id: its owner and whether it is frozen
  rows,      \* server_collaborators of the id
  log,       \* activity_log, by actor and server
  inserts,   \* entries on their way there, that nobody waits for
  request,
  born,      \* history: how many servers have had the id
  excused, ops, faults

vars == <<accounts, server, rows, log, inserts, request, born, excused, ops, faults>>

Free == [kind |-> None]
At(q, kind, pc) == request[q].kind = kind /\ request[q].pc = pc
Under(kind) == {q \in Requests : request[q].kind = kind}
Goes(q, pc) == request' = [request EXCEPT ![q].pc = pc]
Ends(q) == request' = [request EXCEPT ![q] = Free]
Op == ops < MaxOps /\ ops' = ops + 1
Fault == faults < MaxFaults /\ faults' = faults + 1

-----------------------------------------------------------------------------
(* Rules. *)

isStaff(role) == role \in {"owner", "admin", "support"}
Manages(role) == role \in {"owner", "admin"}

\* scopes()
ScopesOf(permission, values) ==
  CASE permission = "operator" -> Scopes
    [] permission = "read_only" -> {"console.view", "files.view"}
    [] OTHER -> values \cap Scopes

\* collaboratorRow(): a permission that is not known is an operator's.
Collaborator(u) ==
  IF rows[u] = None THEN None
  ELSE LET p == IF rows[u].permission \in {"read_only", "custom"} THEN rows[u].permission ELSE "operator"
       IN  [permission |-> p, scopes |-> ScopesOf(p, rows[u].scopes)]

canAccess(u, role) == isStaff(role) \/ server.owner = u \/ Collaborator(u) # None

canWrite(u, role) ==
  \/ Manages(role)
  \/ role # "support" /\ (server.owner = u \/ (Collaborator(u) # None /\ Collaborator(u).permission = "operator"))

canManageAccess(u, role) == Manages(role) \/ server.owner = u

canPerform(u, role, scope) ==
  \/ server.owner = u \/ Manages(role)
  \/ role # "support" /\ Collaborator(u) # None
     /\ scope \in ScopesOf(Collaborator(u).permission, Collaborator(u).scopes)

\* accessFor(), which is what a client is told.
accessFor(u, role) ==
  LET c == Collaborator(u)
      permission == IF c = None THEN "read_only" ELSE c.permission IN
  CASE server.owner = u \/ Manages(role) -> [canWrite |-> TRUE, manages |-> TRUE, scopes |-> Scopes]
    [] role = "support" /\ server.owner # u -> [canWrite |-> FALSE, manages |-> FALSE, scopes |-> {}]
    [] OTHER -> [canWrite |-> permission = "operator", manages |-> FALSE,
                 scopes |-> ScopesOf(permission, IF c = None THEN {} ELSE c.scopes)]

relationship(u, role) ==
  IF server.owner = u THEN "owner" ELSE IF isStaff(role) THEN "staff" ELSE "collaborator"

\* forUser(): the parts of the row that not everybody is sent.
Sections == {"settings", "databases", "backups"} \cap Scopes
forUser(u, role) ==
  {s \in Sections : canPerform(u, role, s)} \cup (IF Manages(role) THEN {"limits"} ELSE {})

\* clientVariables(), by kind: those that the egg opens to users, the others of
\* the egg, the port mappings.  Resources and internal ones are never sent.
clientVariables(u, role) ==
  IF ~canPerform(u, role, "settings") THEN {}
  ELSE {"open"} \cup (IF relationship(u, role) = "collaborator" THEN {}
                      ELSE {"plain"} \cup IF Manages(role) THEN {"ports"} ELSE {})

-----------------------------------------------------------------------------
(* The log. *)

\* log(): what is logged of an account or a server that is gone stays.
Logs(u, b) ==
  /\ inserts' = inserts \cup {[user |-> u, born |-> b]}
  /\ excused' = excused \cup (IF accounts[u] = None \/ server = None \/ born # b THEN {"log"} ELSE {})

\* insertDb(), or its error, which is only logged elsewhere.
Insert(e) ==
  /\ e \in inserts /\ inserts' = inserts \ {e}
  /\ \/ log' = log \cup {e} /\ UNCHANGED faults
     \/ Fault /\ UNCHANGED log
  /\ UNCHANGED <<accounts, server, rows, request, born, excused, ops>>

\* pruneByServerId(), pruneByUserId(): what is not inserted yet escapes.
Prune(entries) ==
  /\ log' = log \ entries
  /\ excused' = excused \cup (IF inserts \cap entries # {} THEN {"log"} ELSE {})

-----------------------------------------------------------------------------
(* Collaborators (ServerCollaboratorsController). *)

\* requireManager(); a grant is for somebody who has an account.
Ask(q, a, u, kind, grant) ==
  /\ request[q] = Free /\ Op
  /\ accounts[a] # None /\ server # None /\ ~server.frozen /\ canManageAccess(a, accounts[a])
  /\ kind = "grant" => accounts[u] # None
  /\ request' = [request EXCEPT ![q] =
       [kind |-> kind, pc |-> "again", actor |-> a, user |-> u, grant |-> grant, born |-> server.born]]
  /\ UNCHANGED <<accounts, server, rows, log, inserts, born, excused, faults>>

\* addCollaborator(), removeCollaborator(): the server is read again.
Again(q) ==
  /\ request[q].kind \in {"grant", "revoke"} /\ request[q].pc = "again"
  /\ IF server = None \/ (request[q].kind = "grant" /\ server.owner = request[q].user)
     THEN Ends(q) ELSE Goes(q, "write")
  /\ UNCHANGED <<accounts, server, rows, log, inserts, born, excused, ops, faults>>

Write(q) ==
  /\ request[q].kind \in {"grant", "revoke"} /\ request[q].pc = "write"
  /\ LET r == request[q] IN
     /\ rows' = [rows EXCEPT ![r.user] =
          IF r.kind = "revoke" THEN None
          ELSE [permission |-> r.grant.permission, born |-> r.born,
                scopes |-> ScopesOf(r.grant.permission, r.grant.scopes)]]
     /\ Logs(r.actor, r.born)
  /\ Ends(q) /\ UNCHANGED <<accounts, server, log, born, ops, faults>>

-----------------------------------------------------------------------------
(* Accounts (AdminUsersService).  The transaction around the work binds none *)
(* of its statements, which go to other connections.                         *)

AskDelete(q, a, u) ==
  /\ request[q] = Free /\ Op
  /\ accounts[a] # None /\ Manages(accounts[a]) /\ a # u
  /\ accounts[u] \notin {None, "owner"} /\ (server # None => server.owner # u)
  /\ request' = [request EXCEPT ![q] = [kind |-> "delete", pc |-> "drop", actor |-> a, user |-> u]]
  /\ UNCHANGED <<accounts, server, rows, log, inserts, born, excused, faults>>

GrantsTo(u) == {q \in Under("grant") : request[q].user = u}

Drop(q) ==
  /\ At(q, "delete", "drop")
  /\ LET u == request[q].user IN
     IF accounts[u] = None THEN Ends(q) /\ UNCHANGED <<accounts, excused>>
     ELSE /\ accounts' = [accounts EXCEPT ![u] = None] /\ Goes(q, "rows")
          /\ excused' = excused \cup (IF GrantsTo(u) # {} THEN {"account"} ELSE {})
  /\ UNCHANGED <<server, rows, log, inserts, born, ops, faults>>

\* removeUserCollaborations().  After an error nothing is done again: the
\* account is not found any more.
DropRows(q) ==
  /\ At(q, "delete", "rows")
  /\ LET u == request[q].user IN
     \/ rows' = [rows EXCEPT ![u] = None] /\ Goes(q, "prune") /\ UNCHANGED <<faults, excused>>
     \/ Fault /\ excused' = excused \cup {"account", "log"} /\ Ends(q) /\ UNCHANGED rows
  /\ UNCHANGED <<accounts, server, log, inserts, born, ops>>

PruneUser(q) ==
  /\ At(q, "delete", "prune") /\ Prune([user : {request[q].user}, born : 1..born]) /\ Ends(q)
  /\ UNCHANGED <<accounts, server, rows, inserts, born, ops, faults>>

SetRole(u, role) ==
  /\ Op /\ accounts[u] \notin {None, "owner"} /\ role # accounts[u]
  /\ accounts' = [accounts EXCEPT ![u] = role]
  /\ UNCHANGED <<server, rows, log, inserts, request, born, excused, faults>>

-----------------------------------------------------------------------------
(* Servers. *)

\* insertReserved(): whoever is named is the owner.
Create(u) ==
  /\ server = None /\ Op
  /\ born' = born + 1 /\ server' = [owner |-> u, frozen |-> FALSE, born |-> born + 1]
  /\ UNCHANGED <<accounts, rows, log, inserts, request, excused, faults>>

\* Seeded fault: the collaborators stay, as no reference removes them.
Left_Row(u) == rows[u]
\* remove(), in one transaction.
Left(u) == None
Gone(excuse) ==
  /\ server' = None /\ rows' = [u \in Users |-> Left(u)]
  /\ excused' = excused \cup excuse \cup (IF Under("grant") # {} THEN {"server"} ELSE {})

\* deleteServer(): "server.deleted" is logged, and all there is pruned.
Remove(q, a) ==
  /\ request[q] = Free /\ Op /\ accounts[a] # None
  /\ server # None /\ canManageAccess(a, accounts[a]) /\ Gone({})
  /\ inserts' = inserts \cup {[user |-> a, born |-> born]}
  /\ request' = [request EXCEPT ![q] = [kind |-> "remove", pc |-> "prune"]]
  /\ UNCHANGED <<accounts, log, born, faults>>

\* The pruning is by the id, whosever it is by now.
PruneServer(q) ==
  /\ At(q, "remove", "prune") /\ Prune([user : Users, born : 1..born]) /\ Ends(q)
  /\ UNCHANGED <<accounts, server, rows, inserts, born, ops, faults>>

\* Other routes remove the row and leave the log.
RemoveQuietly ==
  /\ server # None /\ Op /\ Gone({"log"})
  /\ UNCHANGED <<accounts, log, inserts, request, born, faults>>

Freeze(on) ==
  /\ server # None /\ Op /\ server.frozen # on /\ server' = [server EXCEPT !.frozen = on]
  /\ UNCHANGED <<accounts, rows, log, inserts, request, born, excused, faults>>

\* A row may be older than its permissions.
Init ==
  /\ accounts = Roles /\ born = 1
  /\ \E u \in Users : server = [owner |-> u, frozen |-> FALSE, born |-> 1]
  /\ \E u \in Users, p \in {"old", "custom"} :
       /\ u # server.owner
       /\ rows = [v \in Users |-> IF v = u THEN [permission |-> p, scopes |-> {"files.view"}, born |-> 1] ELSE None]
  /\ log = {} /\ inserts = {} /\ request = [q \in Requests |-> Free]
  /\ excused = {} /\ ops = 0 /\ faults = 0

Next ==
  \/ \E q \in Requests :
       \/ \E a, u \in Users, g \in Grants : Ask(q, a, u, "grant", g)
       \/ \E a, u \in Users : Ask(q, a, u, "revoke", None) \/ AskDelete(q, a, u)
       \/ \E a \in Users : Remove(q, a)
       \/ Again(q) \/ Write(q) \/ Drop(q) \/ DropRows(q) \/ PruneUser(q) \/ PruneServer(q)
  \/ \E e \in inserts : Insert(e)
  \/ \E u \in Users : Create(u) \/ \E role \in {"admin", "support", "user"} : SetRole(u, role)
  \/ \E on \in BOOLEAN : Freeze(on)
  \/ RemoveQuietly

Spec == Init /\ [][Next]_vars

-----------------------------------------------------------------------------
(* Properties. *)

TypeOK ==
  /\ accounts \in [Users -> {None, "owner", "admin", "support", "user"}]
  /\ server # None => server.owner \in Users /\ server.frozen \in BOOLEAN /\ server.born = born
  /\ \A u \in Users : rows[u] # None => rows[u].scopes \subseteq Scopes /\ rows[u].born \in 1..born
  /\ excused \subseteq {"account", "server", "log"}

\* A collaborator has an account, and was let in by somebody who managed this
\* very server - not one that had its id before - unless a grant was under way
\* while the account or the server went, or the account's rows could not be
\* deleted (addCollaborator, removeUserCollaborations, remove).
RowsBelong ==
  \A u \in Users : rows[u] # None =>
    /\ accounts[u] # None \/ "account" \in excused \/ \E q \in Under("delete") : request[q].user = u
    /\ (server # None /\ rows[u].born = server.born) \/ "server" \in excused

\* A client is told exactly what the guards let its user do, whatever roles,
\* ownership and rows have become, and is sent the parts of the row that go with
\* that: only managers are sent variables that the egg keeps from users.  A
\* supporter who owns a server is told of writes that canWrite refuses
\* (accessFor, forUser, canPerform, canWrite).
ToldIsEnforced ==
  server # None => \A u \in Users :
    LET role == accounts[u] told == accessFor(u, role) IN
    role # None /\ canAccess(u, role) =>
      /\ told.scopes = {scope \in Scopes : canPerform(u, role, scope)}
      /\ told.manages = canManageAccess(u, role)
      /\ told.canWrite = canWrite(u, role) \/ (role = "support" /\ server.owner = u)
      /\ forUser(u, role) \cap Sections = told.scopes \cap Sections
      /\ clientVariables(u, role) \subseteq {"open"} \/ told.manages

\* Nothing is left in the log of an account or a server that is gone, unless it
\* was written or made when all there was had been pruned, or nobody pruned
\* (log, pruneByUserId, pruneByServerId).
LogIsPruned ==
  "log" \notin excused /\ Under("delete") \cup Under("remove") = {} =>
    \A e \in log : accounts[e.user] # None /\ server # None /\ server.born = e.born

AccessSound == RowsBelong /\ ToldIsEnforced /\ LogIsPruned
===============================================================================
