---------------------------- MODULE ServerDatabases ----------------------------
(***************************************************************************)
(* The databases of game servers on one node: rows of server_databases and *)
(* containers of the agent (ServerDatabasesService, in PostgreSQL mode).   *)
(*                                                                         *)
(* A row in status "deleting" is hidden from every listing, gives up its   *)
(* port and its place in the quota, and yet can come back: by a failed     *)
(* deletion, or because persistStatus writes by id alone.                  *)
(***************************************************************************)
EXTENDS Naturals, FiniteSets

CONSTANTS
  Databases,    \* ids, none of them ever used twice
  Servers,      \* game servers of the node
  Ports,        \* the ports of the range that no game server has
  Limit,        \* database_limit of every server
  Procs,        \* requests in progress at a time
  None,         \* "no such row", "no such request"
  PowerStatuses,\* the statuses that power commands write
  MaxFaults     \* bound on failed agent calls and requests that die

VARIABLES
  rows,         \* the table server_databases
  server,       \* is the server there, being deleted, or gone?
  container,    \* does the agent run a container of the database?
  proc,         \* the request in each slot
  used,         \* history: ids given out
  undone,       \* history: rows that a failed deletion brought back
  overwritten,  \* history: rows brought back by somebody else's status
  untracked,    \* history: databases whose container the code may forget
  emptied,      \* history: databases whose container a lost answer removed
  stranded,     \* history: what a crashed request left in status "deleting"
  faults

table == <<rows, used>>
agent == <<container, faults>>
revived == undone \cup overwritten
history == <<undone, overwritten, untracked, emptied, stranded>>
vars == <<table, server, agent, proc, history>>

Settled == {"created", "running", "stopped"}
Statuses == Settled \cup {"provisioning", "deleting"}
Row == [owner : Servers, port : Ports, status : Statuses]

\* "d" is the database a request works on, "todo" what is left of its loop.
Ops == {"create", "delete", "power", "deleteAll", "powerAll", "dropAll"}
CreatePoints == {"create", "persist", "release"}
DeletePoints == {"agentDelete", "deleteRow", "undo"}
Points == CreatePoints \cup DeletePoints
          \cup {"power", "list", "next", "dropRows", "removeServer", "restoreServer"}
Request ==
  [op : Ops, pc : Points, s : Servers, d : Databases \cup {None},
   todo : SUBSET Databases,
   status : Settled]              \* what persistStatus will write

ASSUME DatabasesAssumption ==
  /\ PowerStatuses \subseteq {"running", "stopped"}
  /\ None \notin Row /\ None \notin Request /\ None \notin Databases
  /\ IsFiniteSet(Databases)
  /\ Limit \in Nat /\ MaxFaults \in Nat

-----------------------------------------------------------------------------
(* The table. *)

Exists(d) == rows[d] # None
Has(d, statuses) == Exists(d) /\ rows[d].status \in statuses
Live(d) == Has(d, Statuses \ {"deleting"})
Listed(s) == {d \in Databases : Live(d) /\ rows[d].owner = s}
UsedPorts == {rows[d].port : d \in {e \in Databases : Live(e)}}

\* Seeded faults: the port, the quota or the claim is not checked.
ChoosePort_Any(port) == port \in Ports
WithinLimit_OneMore(s) == Cardinality(Listed(s)) <= Limit
ClaimForDelete_Unguarded(d) == Exists(d) /\ rows' = [rows EXCEPT ![d].status = "deleting"]

ChoosePort(port) == port \in Ports \ UsedPorts
WithinLimit(s) == Cardinality(Listed(s)) < Limit

\* reserveSql: one transaction under the lock of the server's quota and of
\* the node's row.
ReserveSql(d, s) ==
  /\ server[s] # "gone" /\ d \notin used /\ WithinLimit(s)
  /\ \E port \in Ports :
       /\ ChoosePort(port)
       /\ rows' = [rows EXCEPT ![d] = [owner |-> s, port |-> port,
                                       status |-> "provisioning"]]
  /\ used' = used \cup {d}

ClaimForDelete(d) == Live(d) /\ rows' = [rows EXCEPT ![d].status = "deleting"]

\* UPDATE ... SET status WHERE id: whatever the status was.
PersistStatus(d, status) ==
  rows' = IF Exists(d) THEN [rows EXCEPT ![d].status = status] ELSE rows

DeleteRows(ds) == rows' = [d \in Databases |-> IF d \in ds THEN None ELSE rows[d]]

-----------------------------------------------------------------------------
(* Requests and agent calls. *)

At(p, point) == proc[p] # None /\ proc[p].pc = point
Become(p, request) == proc' = [proc EXCEPT ![p] = request]
Goto(p, point) == Become(p, [proc[p] EXCEPT !.pc = point])
Done(p) == proc' = [proc EXCEPT ![p] = None]

\* A loop goes on with its next database; a single request returns.
Loops == {"deleteAll", "powerAll"}
Back(p, point) == Become(p, [proc[p] EXCEPT !.pc = point, !.d = None])
Continue(p) == IF proc[p].op \in Loops THEN Back(p, "next") ELSE Done(p)

\* An error ends the loop too, and a server deletion restores the server.
Throw(p) == IF proc[p].op = "deleteAll" THEN Back(p, "restoreServer") ELSE Done(p)

Outcomes == {"ok", "rejected", "unreachable", "lost"}

\* A call that would leave the container there or not there.
AgentCall(d, outcome, there) ==
  /\ outcome # "ok" => faults < MaxFaults
  /\ faults' = IF outcome = "ok" THEN faults ELSE faults + 1
  /\ container' = IF outcome \in {"ok", "lost"}
                  THEN [container EXCEPT ![d] = there] ELSE container

\* The agent answers a call about a container that it does not have.
Refused(d) == ~container[d] /\ UNCHANGED agent

-----------------------------------------------------------------------------
(* Creating one database. *)

CreateServerDatabase(p, d, s) ==
  /\ proc[p] = None
  /\ ReserveSql(d, s)
  /\ Become(p, [op |-> "create", pc |-> "create", s |-> s, d |-> d, todo |-> {},
                status |-> "created"])
  /\ UNCHANGED <<server, agent, history>>

\* Nothing is deleted on the agent when the answer is lost.
AgentCreate(p) ==
  LET d == proc[p].d IN
  /\ At(p, "create")
  /\ \E outcome \in Outcomes :
       /\ AgentCall(d, outcome, TRUE)
       /\ Goto(p, IF outcome = "ok" THEN "persist" ELSE "release")
       /\ untracked' = IF outcome = "lost" THEN untracked \cup {d} ELSE untracked
  /\ UNCHANGED <<table, server, undone, overwritten, emptied, stranded>>

\* Seeded fault: the name of the operation is written as the status.
Persist_Operation(p) ==
  /\ At(p, "persist")
  /\ PersistStatus(proc[p].d, proc[p].op)
  /\ Continue(p)
  /\ UNCHANGED <<used, server, agent, history>>

\* The end of a creation and of a power command.
Persist(p) ==
  LET r == proc[p] IN
  /\ At(p, "persist")
  /\ PersistStatus(r.d, r.status)
  /\ overwritten' = IF Has(r.d, {"deleting"}) THEN overwritten \cup {r.d}
                    ELSE overwritten
  /\ Continue(p)
  /\ UNCHANGED <<used, server, agent, undone, untracked, emptied, stranded>>

ReleaseReservation(p) ==
  LET d == proc[p].d IN
  /\ At(p, "release")
  /\ DeleteRows(IF Has(d, {"provisioning"}) THEN {d} ELSE {})
  /\ Done(p)
  /\ UNCHANGED <<used, server, agent, history>>

-----------------------------------------------------------------------------
(* Deleting one database, alone or in the loop of a server deletion. *)

\* Whoever claims a creation in progress may find no container yet.
Claimed(p, request, d) ==
  /\ ClaimForDelete(d)
  /\ Become(p, [request EXCEPT !.pc = "agentDelete", !.d = d])
  /\ untracked' = IF Has(d, {"provisioning"}) THEN untracked \cup {d} ELSE untracked
  /\ UNCHANGED <<used, server, agent, undone, overwritten, emptied, stranded>>

DeleteServerDatabase(p, d) ==
  /\ proc[p] = None /\ Exists(d)
  /\ Claimed(p, [op |-> "delete", pc |-> "agentDelete", s |-> rows[d].owner,
                 d |-> d, todo |-> {}, status |-> "created"], d)

\* Seeded fault: the row goes whatever the agent answered.
AgentDelete_IgnoresFailure(p) ==
  LET d == proc[p].d IN
  /\ At(p, "agentDelete")
  /\ \E outcome \in Outcomes : AgentCall(d, outcome, FALSE)
  /\ Goto(p, "deleteRow")
  /\ UNCHANGED <<table, server, history>>

AgentDelete(p) ==
  LET d == proc[p].d IN
  /\ At(p, "agentDelete")
  /\ \/ \E outcome \in Outcomes :
          /\ AgentCall(d, outcome, FALSE)
          /\ Goto(p, IF outcome = "ok" THEN "deleteRow" ELSE "undo")
          /\ emptied' = IF outcome = "lost" THEN emptied \cup {d} ELSE emptied
     \/ Refused(d) /\ Goto(p, "undo") /\ UNCHANGED emptied
  /\ UNCHANGED <<table, server, undone, overwritten, untracked, stranded>>

DeleteRow(p) ==
  /\ At(p, "deleteRow")
  /\ DeleteRows({proc[p].d})
  /\ Continue(p)
  /\ UNCHANGED <<used, server, agent, history>>

\* Seeded fault: a failed deletion leaves its claim behind.
UndoDelete_Forgotten(p) ==
  At(p, "undo") /\ Throw(p) /\ UNCHANGED <<table, server, agent, history>>

\* The catch block of deleteServerDatabase.
UndoDelete(p) ==
  LET d == proc[p].d IN
  /\ At(p, "undo")
  /\ PersistStatus(d, "created")
  /\ undone' = IF Has(d, {"deleting"}) THEN undone \cup {d} ELSE undone
  /\ Throw(p)
  /\ UNCHANGED <<used, server, agent, overwritten, untracked, emptied, stranded>>

-----------------------------------------------------------------------------
(* Power, for one database and for all of a server. *)

PowerServerDatabase(p, d, status) ==
  /\ proc[p] = None /\ Live(d)
  /\ Become(p, [op |-> "power", pc |-> "power", s |-> rows[d].owner, d |-> d,
                todo |-> {}, status |-> status])
  /\ UNCHANGED <<table, server, agent, history>>

\* A power command changes no container's existence.
AgentPower(p) ==
  LET d == proc[p].d IN
  /\ At(p, "power")
  /\ \/ container[d] /\ Goto(p, "persist") /\ UNCHANGED faults
     \/ /\ container[d] => faults < MaxFaults
        /\ faults' = IF container[d] THEN faults + 1 ELSE faults
        /\ Throw(p)
  /\ UNCHANGED <<table, server, container, history>>

PowerAllForServer(p, s, status) ==
  /\ proc[p] = None /\ server[s] # "gone"
  /\ Become(p, [op |-> "powerAll", pc |-> "list", s |-> s, d |-> None, todo |-> {},
                status |-> status])
  /\ UNCHANGED <<table, server, agent, history>>

\* listServerDatabases, which the loop does not repeat.
ListServerDatabases(p) ==
  LET r == proc[p] IN
  /\ At(p, "list")
  /\ Become(p, [r EXCEPT !.pc = "next", !.todo = Listed(r.s)])
  /\ UNCHANGED <<table, server, agent, history>>

\* The next turn of a loop; a database that is gone or claimed throws.
NextDatabase(p) ==
  LET r == proc[p]
      rest(d) == [r EXCEPT !.d = d, !.todo = @ \ {d}]
      same == UNCHANGED <<table, server, agent, history>> IN
  /\ At(p, "next")
  /\ \/ /\ r.todo = {}
        /\ IF r.op = "deleteAll" THEN Goto(p, "removeServer") ELSE Done(p)
        /\ same
     \/ \E d \in r.todo :
          \/ Live(d) /\ r.op = "deleteAll" /\ Claimed(p, rest(d), d)
          \/ Live(d) /\ r.op = "powerAll"
             /\ Become(p, [rest(d) EXCEPT !.pc = "power"]) /\ same
          \/ ~Live(d) /\ Throw(p) /\ same

-----------------------------------------------------------------------------
(* Deleting a server takes its databases along. *)

DeleteServer(p, s) ==
  /\ proc[p] = None /\ server[s] = "present"
  /\ server' = [server EXCEPT ![s] = "deleting"]
  /\ Become(p, [op |-> "deleteAll", pc |-> "list", s |-> s, d |-> None, todo |-> {},
                status |-> "created"])
  /\ UNCHANGED <<table, agent, history>>

\* forceDatabaseCleanup joins a deletion in progress.
ForgetServer(p, s) ==
  /\ proc[p] = None /\ server[s] # "gone"
  /\ server' = [server EXCEPT ![s] = "deleting"]
  /\ Become(p, [op |-> "dropAll", pc |-> "dropRows", s |-> s, d |-> None, todo |-> {},
                status |-> "created"])
  /\ UNCHANGED <<table, agent, history>>

Owned(s) == {d \in Databases : Exists(d) /\ rows[d].owner = s}

\* deleteAllForServer with skipAgent.
DropRows(p) ==
  LET ds == Owned(proc[p].s) IN
  /\ At(p, "dropRows")
  /\ DeleteRows(ds)
  /\ untracked' = untracked \cup ds
  /\ Goto(p, "removeServer")
  /\ UNCHANGED <<used, server, agent, undone, overwritten, emptied, stranded>>

\* The container of the server itself, then the row: ON DELETE CASCADE
\* takes the databases that the listing did not show.
RemoveServer(p) ==
  LET r == proc[p]
      ds == Owned(r.s) IN
  /\ At(p, "removeServer")
  /\ \/ /\ DeleteRows(ds)
        /\ server' = [server EXCEPT ![r.s] = "gone"]
        /\ untracked' = untracked \cup ds
        /\ Done(p)
        /\ UNCHANGED faults
     \/ /\ r.op = "deleteAll" /\ faults < MaxFaults
        /\ Goto(p, "restoreServer")
        /\ faults' = faults + 1
        /\ UNCHANGED <<rows, server, untracked>>
  /\ UNCHANGED <<used, container, undone, overwritten, emptied, stranded>>

RestoreServer(p) ==
  LET s == proc[p].s IN
  /\ At(p, "restoreServer")
  /\ server' = IF server[s] = "deleting" THEN [server EXCEPT ![s] = "present"] ELSE server
  /\ Done(p)
  /\ UNCHANGED <<table, agent, history>>

-----------------------------------------------------------------------------

\* The replica running the request dies; nobody resumes what it had claimed.
Crash(p) ==
  /\ proc[p] # None /\ faults < MaxFaults
  /\ Done(p)
  /\ stranded' = IF proc[p].pc \in DeletePoints
                 THEN stranded \cup {proc[p].d} ELSE stranded
  /\ faults' = faults + 1
  /\ UNCHANGED <<table, server, container, undone, overwritten, untracked, emptied>>

Init ==
  /\ rows = [d \in Databases |-> None] /\ used = {}
  /\ server = [s \in Servers |-> "present"]
  /\ container = [d \in Databases |-> FALSE] /\ faults = 0
  /\ proc = [p \in Procs |-> None]
  /\ undone = {} /\ overwritten = {} /\ untracked = {} /\ emptied = {} /\ stranded = {}

Arrive(p) ==
  \/ \E d \in Databases, s \in Servers : CreateServerDatabase(p, d, s)
  \/ \E d \in Databases : DeleteServerDatabase(p, d)
  \/ \E d \in Databases, status \in PowerStatuses : PowerServerDatabase(p, d, status)
  \/ \E s \in Servers, status \in PowerStatuses : PowerAllForServer(p, s, status)
  \/ \E s \in Servers : DeleteServer(p, s) \/ ForgetServer(p, s)

Step(p) ==
  \/ AgentCreate(p) \/ Persist(p) \/ ReleaseReservation(p)
  \/ AgentDelete(p) \/ DeleteRow(p) \/ UndoDelete(p)
  \/ AgentPower(p) \/ ListServerDatabases(p) \/ NextDatabase(p)
  \/ DropRows(p) \/ RemoveServer(p) \/ RestoreServer(p)

Next == \E p \in Procs : Arrive(p) \/ Step(p) \/ Crash(p)
Spec == Init /\ [][Next]_vars

-----------------------------------------------------------------------------
(* Properties. *)

\* Every variable has its type.
TypeOK ==
  /\ rows \in [Databases -> Row \cup {None}]
  /\ server \in [Servers -> {"present", "deleting", "gone"}]
  /\ container \in [Databases -> BOOLEAN]
  /\ proc \in [Procs -> Request \cup {None}]
  /\ used \subseteq Databases /\ undone \subseteq Databases
  /\ overwritten \subseteq Databases /\ untracked \subseteq Databases
  /\ emptied \subseteq Databases /\ stranded \subseteq Databases
  /\ faults \in 0 .. MaxFaults

Deletes(p, d) == proc[p] # None /\ proc[p].pc \in DeletePoints /\ proc[p].d = d

\* Two requests delete one database at the same time only if a creation or a
\* power command wrote its status over the first claim (claimForDelete,
\* persistStatus).
DeletersExclude ==
  \A p, q \in Procs, d \in Databases :
    Deletes(p, d) /\ Deletes(q, d) => p = q \/ d \in overwritten

\* Two visible databases of the node share a port only if a deletion of one of
\* them came to nothing after its port had been given away (reserveSql).
UniquePorts ==
  \A d, e \in Databases :
    Live(d) /\ Live(e) /\ rows[d].port = rows[e].port
      => d = e \/ {d, e} \cap revived # {}

\* A server has more visible databases than its limit only through deletions
\* that came to nothing (reserveSql counts under the quota's lock).
QuotaKept ==
  \A s \in Servers : Cardinality(Listed(s) \ revived) <= Limit

\* A container without a row comes from a lost answer to its creation, from a
\* deletion that began before the creation ended, or from a server that went
\* without its agent being asked; never from a deletion that failed
\* (deleteServerDatabase keeps the row until the agent has agreed).
NoOrphanContainer ==
  \A d \in Databases :
    container[d] => Exists(d) \/ d \in untracked

Creates(p, d) == proc[p] # None /\ proc[p].op = "create" /\ proc[p].d = d

\* A database in a settled status that nobody is creating or deleting has its
\* container, unless an answer was lost or a request died on the way.
SettledHaveContainers ==
  \A d \in Databases :
    Has(d, Settled) /\ ~(\E p \in Procs : Creates(p, d) \/ Deletes(p, d))
      => container[d] \/ d \in untracked \cup emptied \cup stranded

\* A database is hidden in status "deleting" only while a request deletes it,
\* or because that request died (the catch block of deleteServerDatabase).
DeletionsOwned ==
  \A d \in Databases :
    Has(d, {"deleting"}) => d \in stranded \/ \E p \in Procs : Deletes(p, d)

\* The rows of the databases obey their four rules, whichever requests overlap
\* (reserveSql, claimForDelete, persistStatus, deleteServerDatabase).
RowsSound == DeletersExclude /\ UniquePorts /\ QuotaKept /\ DeletionsOwned

\* Containers and rows of databases agree, both ways: a container without a row is
\* one the panel knows it may have left, and a settled row has its container
\* (createServerDatabase, deleteServerDatabase and the loops over a server's
\* databases, each of which changes the two in separate awaits).
ContainersMatch == NoOrphanContainer /\ SettledHaveContainers
=============================================================================
