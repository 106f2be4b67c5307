------------------------ MODULE ServerDatabasesProofs ------------------------
(***************************************************************************)
(* Theorems about ServerDatabases, for every number of databases, servers, *)
(* ports and requests and for every limit: types, ports and quotas, who    *)
(* deletes a database, and containers that match the rows.                 *)
(***************************************************************************)
EXTENDS ServerDatabases, FiniteSetTheorems, TLAPS

-----------------------------------------------------------------------------
(* Types. *)

RowsOK ==
  /\ rows \in [Databases -> Row \cup {None}] /\ used \subseteq Databases
  /\ \A d \in Databases : Exists(d) => d \in used
ServersOK == server \in [Servers -> {"present", "deleting", "gone"}]
AgentOK == container \in [Databases -> BOOLEAN] /\ faults \in 0 .. MaxFaults
ProcOK == proc \in [Procs -> Request \cup {None}]
HistoryOK ==
  /\ undone \subseteq Databases /\ overwritten \subseteq Databases
  /\ untracked \subseteq Databases /\ emptied \subseteq Databases
  /\ stranded \subseteq Databases

\* Only the points of a loop may have no database at hand.
LoopPoints == {"list", "next", "dropRows", "removeServer", "restoreServer"}
AtHand ==
  \A p \in Procs :
    /\ proc[p] # None /\ proc[p].pc \notin LoopPoints => proc[p].d \in Databases
    /\ proc[p] # None /\ proc[p].op = "create" => proc[p].pc \in CreatePoints

RestOK == ServersOK /\ AgentOK /\ ProcOK /\ HistoryOK /\ AtHand
TypeInv == RowsOK /\ RestOK

\* A slot that takes a request.
LEMMA BecomeOK ==
  ASSUME ProcOK, AtHand, NEW p \in Procs, NEW r \in Request, Become(p, r),
         r.pc \notin LoopPoints => r.d \in Databases,
         r.op = "create" => r.pc \in CreatePoints
  PROVE  ProcOK' /\ AtHand'
BY DatabasesAssumption DEF ProcOK, AtHand, Become

\* A request that moves on, to a point of its loop or with its database.
LEMMA GotoOK ==
  ASSUME ProcOK, AtHand, NEW p \in Procs, proc[p] # None, NEW point \in Points,
         Goto(p, point), point \in LoopPoints \/ proc[p].d \in Databases,
         proc[p].op = "create" => point \in CreatePoints
  PROVE  ProcOK' /\ AtHand'
<1>. DEFINE r == [proc[p] EXCEPT !.pc = point]
<1>1. r \in Request /\ r.d = proc[p].d /\ r.pc = point /\ r.op = proc[p].op
  BY DEF ProcOK, Request
<1>. QED BY <1>1, BecomeOK DEF Goto

\* A request that returns.
LEMMA DoneOK ==
  ASSUME ProcOK, AtHand, NEW p \in Procs, Done(p)
  PROVE  ProcOK' /\ AtHand'
BY DEF ProcOK, AtHand, Done

\* One that goes on with its loop, or ends it with an error.
LEMMA LoopOK ==
  ASSUME ProcOK, AtHand, NEW p \in Procs, proc[p] # None,
         Continue(p) \/ Throw(p)
  PROVE  ProcOK' /\ AtHand'
<1>1. ASSUME NEW point \in {"next", "restoreServer"}, Back(p, point),
             proc[p].op # "create"
      PROVE  ProcOK' /\ AtHand'
  <2>. DEFINE r == [proc[p] EXCEPT !.pc = point, !.d = None]
  <2>1. r \in Request /\ r.pc = point /\ r.op = proc[p].op
    BY DEF ProcOK, Request, Points
  <2>. QED BY <1>1, <2>1, BecomeOK DEF Back, LoopPoints
<1>2. CASE Done(p)
  BY <1>2, DoneOK
<1>. QED BY <1>1, <1>2 DEF Continue, Throw, Loops

-----------------------------------------------------------------------------
(* What a step may do to the row of one database. *)

Reserved(d) ==
  /\ rows[d] = None /\ d \notin used /\ d \in used'
  /\ rows'[d] \in Row /\ rows'[d].status = "provisioning"
  /\ rows'[d].port \notin UsedPorts /\ WithinLimit(rows'[d].owner)
Dropped(d) == rows'[d] = None
Taken(d) == Live(d) /\ rows'[d] = [rows[d] EXCEPT !.status = "deleting"]
Written(d) ==
  /\ Exists(d)
  /\ \E status \in Settled : rows'[d] = [rows[d] EXCEPT !.status = status]
  /\ Has(d, {"deleting"}) => d \in revived'
Same(d) == rows'[d] = rows[d]

\* One row is reserved, claimed or written, or any number are dropped.
RowsMove ==
  /\ rows' \in [Databases -> Row \cup {None}]
  /\ used' \in SUBSET Databases /\ used \subseteq used' /\ revived \subseteq revived'
  /\ \/ \E d \in Databases :
          /\ Reserved(d) \/ Taken(d) \/ Written(d)
          /\ \A e \in Databases \ {d} : Same(e)
     \/ \A d \in Databases : Same(d) \/ Dropped(d)

LEMMA RowsSame ==
  ASSUME RowsOK, UNCHANGED <<table, undone, overwritten>>
  PROVE  RowsMove
BY DEF RowsOK, RowsMove, table, revived, Same

LEMMA RowsReserved ==
  ASSUME RowsOK, NEW d \in Databases, NEW s \in Servers, ReserveSql(d, s),
         UNCHANGED <<undone, overwritten>>
  PROVE  RowsMove
<1>1. PICK port \in Ports :
        /\ ChoosePort(port)
        /\ rows' = [rows EXCEPT ![d] = [owner |-> s, port |-> port,
                                        status |-> "provisioning"]]
  BY DEF ReserveSql
<1>. DEFINE row == [owner |-> s, port |-> port, status |-> "provisioning"]
<1>2. row \in Row /\ row.status = "provisioning" /\ row.owner = s /\ row.port = port
  BY DEF Row, Statuses
<1>3. rows'[d] = row /\ rows' \in [Databases -> Row \cup {None}]
      /\ \A e \in Databases \ {d} : rows'[e] = rows[e]
  BY <1>1, <1>2 DEF RowsOK
<1>4. rows[d] = None /\ d \notin used /\ d \in used' /\ WithinLimit(s)
  BY DEF RowsOK, ReserveSql, Exists
<1>5. Reserved(d)
  BY <1>1, <1>2, <1>3, <1>4 DEF Reserved, ChoosePort
<1>. QED BY <1>3, <1>5 DEF RowsMove, RowsOK, Same, ReserveSql, revived

LEMMA RowsTaken ==
  ASSUME RowsOK, NEW d \in Databases, ClaimForDelete(d),
         UNCHANGED <<used, undone, overwritten>>
  PROVE  RowsMove
<1>1. rows[d] \in Row /\ Exists(d)
  BY DEF RowsOK, ClaimForDelete, Live, Has, Exists
<1>2. [rows[d] EXCEPT !.status = "deleting"] \in Row
  BY <1>1 DEF Row, Statuses
<1>3. Taken(d)
  BY DEF Taken, ClaimForDelete, RowsOK
<1>. QED BY <1>2, <1>3 DEF RowsMove, RowsOK, Same, ClaimForDelete, revived

LEMMA RowsWritten ==
  ASSUME RowsOK, NEW d \in Databases, NEW status \in Settled, PersistStatus(d, status),
         Has(d, {"deleting"}) => d \in revived', UNCHANGED used, revived \subseteq revived'
  PROVE  RowsMove
<1>1. CASE ~Exists(d)
  BY <1>1 DEF RowsMove, RowsOK, Same, PersistStatus
<1>2. CASE Exists(d)
  <2>1. [rows[d] EXCEPT !.status = status] \in Row
    BY <1>2 DEF Row, Statuses, RowsOK, Exists
  <2>2. rows' = [rows EXCEPT ![d] = [rows[d] EXCEPT !.status = status]]
    BY <1>2 DEF PersistStatus
  <2>3. Written(d)
    BY <1>2, <2>1, <2>2 DEF Written, RowsOK
  <2>. QED BY <2>1, <2>2, <2>3 DEF RowsMove, RowsOK, Same
<1>. QED BY <1>1, <1>2

LEMMA RowsDropped ==
  ASSUME RowsOK, NEW ds, DeleteRows(ds), UNCHANGED <<used, undone, overwritten>>
  PROVE  RowsMove
BY DEF RowsOK, RowsMove, DeleteRows, Same, Dropped, revived

\* The rows keep their types.
LEMMA RowsMoveOK ==
  ASSUME RowsOK, RowsMove
  PROVE  RowsOK'
BY DEF RowsOK, RowsMove, Reserved, Taken, Written, Same, Dropped, Live, Has, Exists

-----------------------------------------------------------------------------
(* Every action makes such a move and keeps the types of the rest. *)

LEMMA AgentCallOK ==
  ASSUME AgentOK, NEW d \in Databases, NEW outcome, NEW there \in BOOLEAN,
         AgentCall(d, outcome, there)
  PROVE  AgentOK'
BY DatabasesAssumption DEF AgentOK, AgentCall

LEMMA CreateServerDatabaseOK ==
  ASSUME TypeInv, NEW p \in Procs, NEW d \in Databases, NEW s \in Servers,
         CreateServerDatabase(p, d, s)
  PROVE  RowsMove /\ RestOK'
<1>. DEFINE r == [op |-> "create", pc |-> "create", s |-> s, d |-> d, todo |-> {},
                  status |-> "created"]
<1>1. r \in Request
  BY DEF Request, Ops, Points, CreatePoints, Settled
<1>2. ProcOK' /\ AtHand'
  BY <1>1, BecomeOK DEF CreateServerDatabase, TypeInv, RestOK, CreatePoints
<1>3. RowsMove
  BY RowsReserved DEF CreateServerDatabase, TypeInv, history
<1>. QED BY <1>2, <1>3 DEF CreateServerDatabase, TypeInv, RestOK, ServersOK, AgentOK, HistoryOK,
       agent, history

LEMMA AgentCreateOK ==
  ASSUME TypeInv, NEW p \in Procs, AgentCreate(p)
  PROVE  RowsMove /\ RestOK'
<1>1. /\ proc[p] # None /\ proc[p].d \in Databases
      /\ proc[p].pc = "create"
  BY DEF AgentCreate, At, TypeInv, RestOK, AtHand, LoopPoints
<1>2. PICK outcome \in Outcomes :
        /\ AgentCall(proc[p].d, outcome, TRUE)
        /\ Goto(p, IF outcome = "ok" THEN "persist" ELSE "release")
        /\ untracked' \subseteq untracked \cup {proc[p].d}
  BY DEF AgentCreate
<1>3. ProcOK' /\ AtHand'
  BY <1>1, <1>2, GotoOK DEF TypeInv, RestOK, Points, CreatePoints
<1>4. AgentOK'
  BY <1>1, <1>2, AgentCallOK DEF TypeInv, RestOK
<1>5. RowsMove
  BY RowsSame DEF AgentCreate, TypeInv
<1>. QED BY <1>1, <1>2, <1>3, <1>4, <1>5 DEF AgentCreate, TypeInv, RestOK, ServersOK, HistoryOK

LEMMA PersistOK ==
  ASSUME TypeInv, NEW p \in Procs, Persist(p)
  PROVE  RowsMove /\ RestOK'
<1>1. proc[p] # None /\ proc[p].d \in Databases /\ proc[p].status \in Settled
  BY DatabasesAssumption DEF Persist, At, TypeInv, RestOK, AtHand, LoopPoints, ProcOK, Request
<1>2. ProcOK' /\ AtHand'
  BY <1>1, LoopOK DEF Persist, TypeInv, RestOK
<1>3. RowsMove
  BY <1>1, RowsWritten DEF Persist, TypeInv, revived
<1>. QED BY <1>1, <1>2, <1>3 DEF Persist, TypeInv, RestOK, ServersOK, AgentOK, HistoryOK, agent

LEMMA ReleaseReservationOK ==
  ASSUME TypeInv, NEW p \in Procs, ReleaseReservation(p)
  PROVE  RowsMove /\ RestOK'
<1>1. ProcOK' /\ AtHand'
  BY DoneOK DEF ReleaseReservation, TypeInv, RestOK
<1>2. RowsMove
  BY RowsDropped DEF ReleaseReservation, TypeInv, history
<1>. QED BY <1>1, <1>2 DEF ReleaseReservation, TypeInv, RestOK, ServersOK, AgentOK, HistoryOK,
       agent, history

\* A claim, by a request of its own or in a loop.
LEMMA ClaimedOK ==
  ASSUME TypeInv, NEW p \in Procs, NEW r \in Request, NEW d \in Databases,
         r.op # "create", Claimed(p, r, d)
  PROVE  RowsMove /\ RestOK'
<1>. DEFINE claimed == [r EXCEPT !.pc = "agentDelete", !.d = d]
<1>1. claimed \in Request /\ claimed.d = d /\ claimed.op # "create"
  BY DEF Request, Points, DeletePoints
<1>2. ProcOK' /\ AtHand'
  BY <1>1, BecomeOK DEF Claimed, TypeInv, RestOK
<1>3. RowsMove
  BY RowsTaken DEF Claimed, TypeInv
<1>. QED BY <1>2, <1>3 DEF Claimed, TypeInv, RestOK, ServersOK, AgentOK, HistoryOK, agent

LEMMA DeleteServerDatabaseOK ==
  ASSUME TypeInv, NEW p \in Procs, NEW d \in Databases, DeleteServerDatabase(p, d)
  PROVE  RowsMove /\ RestOK'
<1>. DEFINE r == [op |-> "delete", pc |-> "agentDelete", s |-> rows[d].owner,
                  d |-> d, todo |-> {}, status |-> "created"]
<1>1. rows[d] \in Row
  BY DEF DeleteServerDatabase, TypeInv, RowsOK, Exists
<1>2. r \in Request /\ r.op # "create"
  BY <1>1 DEF Request, Row, Ops, Points, DeletePoints, Settled
<1>. QED BY <1>2, ClaimedOK DEF DeleteServerDatabase

LEMMA AgentDeleteOK ==
  ASSUME TypeInv, NEW p \in Procs, AgentDelete(p)
  PROVE  RowsMove /\ RestOK'
<1>1. /\ proc[p] # None /\ proc[p].d \in Databases
      /\ proc[p].op # "create"
  BY DEF AgentDelete, At, TypeInv, RestOK, AtHand, LoopPoints, CreatePoints
<1>2. /\ Goto(p, "deleteRow") \/ Goto(p, "undo")
      /\ emptied' \subseteq emptied \cup {proc[p].d}
      /\ (\E outcome \in Outcomes : AgentCall(proc[p].d, outcome, FALSE)) \/ UNCHANGED agent
  BY DEF AgentDelete, Refused
<1>3. ProcOK' /\ AtHand'
  BY <1>1, <1>2, GotoOK DEF TypeInv, RestOK, Points, DeletePoints
<1>4. AgentOK'
  BY <1>1, <1>2, AgentCallOK DEF TypeInv, RestOK, AgentOK, agent
<1>5. RowsMove
  BY RowsSame DEF AgentDelete, TypeInv
<1>. QED BY <1>1, <1>2, <1>3, <1>4, <1>5 DEF AgentDelete, TypeInv, RestOK, ServersOK, HistoryOK

LEMMA DeleteRowOK ==
  ASSUME TypeInv, NEW p \in Procs, DeleteRow(p)
  PROVE  RowsMove /\ RestOK'
<1>1. ProcOK' /\ AtHand'
  BY LoopOK DEF DeleteRow, At, TypeInv, RestOK
<1>2. RowsMove
  BY RowsDropped DEF DeleteRow, TypeInv, history
<1>. QED BY <1>1, <1>2 DEF DeleteRow, TypeInv, RestOK, ServersOK, AgentOK, HistoryOK,
       agent, history

LEMMA UndoDeleteOK ==
  ASSUME TypeInv, NEW p \in Procs, UndoDelete(p)
  PROVE  RowsMove /\ RestOK'
<1>1. proc[p] # None /\ proc[p].d \in Databases
  BY DEF UndoDelete, At, TypeInv, RestOK, AtHand, LoopPoints
<1>2. ProcOK' /\ AtHand'
  BY <1>1, LoopOK DEF UndoDelete, TypeInv, RestOK
<1>3. RowsMove
  BY <1>1, RowsWritten DEF UndoDelete, TypeInv, revived, Settled
<1>. QED BY <1>1, <1>2, <1>3 DEF UndoDelete, TypeInv, RestOK, ServersOK, AgentOK, HistoryOK, agent

LEMMA PowerServerDatabaseOK ==
  ASSUME TypeInv, NEW p \in Procs, NEW d \in Databases, NEW status \in PowerStatuses,
         PowerServerDatabase(p, d, status)
  PROVE  RowsMove /\ RestOK'
<1>. DEFINE r == [op |-> "power", pc |-> "power", s |-> rows[d].owner, d |-> d,
                  todo |-> {}, status |-> status]
<1>1. rows[d] \in Row
  BY DEF PowerServerDatabase, TypeInv, RowsOK, Live, Has, Exists
<1>2. r \in Request
  BY <1>1, DatabasesAssumption DEF Request, Row, Ops, Points, Settled
<1>3. ProcOK' /\ AtHand'
  BY <1>2, BecomeOK DEF PowerServerDatabase, TypeInv, RestOK
<1>4. RowsMove
  BY RowsSame DEF PowerServerDatabase, TypeInv, history
<1>. QED BY <1>3, <1>4 DEF PowerServerDatabase, TypeInv, RestOK, ServersOK, AgentOK,
       HistoryOK, agent, history

LEMMA AgentPowerOK ==
  ASSUME TypeInv, NEW p \in Procs, AgentPower(p)
  PROVE  RowsMove /\ RestOK'
<1>1. proc[p] # None /\ proc[p].d \in Databases /\ proc[p].op # "create"
  BY DEF AgentPower, At, TypeInv, RestOK, AtHand, LoopPoints, CreatePoints
<1>2. (Goto(p, "persist") \/ Throw(p)) /\ faults' \in 0 .. MaxFaults
  BY <1>1, DatabasesAssumption DEF AgentPower, TypeInv, RestOK, AgentOK
<1>3. ProcOK' /\ AtHand'
  BY <1>1, <1>2, GotoOK, LoopOK DEF TypeInv, RestOK, Points, CreatePoints
<1>4. RowsMove
  BY RowsSame DEF AgentPower, TypeInv, history
<1>. QED BY <1>2, <1>3, <1>4 DEF AgentPower, TypeInv, RestOK, ServersOK, AgentOK,
       HistoryOK, history

LEMMA PowerAllForServerOK ==
  ASSUME TypeInv, NEW p \in Procs, NEW s \in Servers, NEW status \in PowerStatuses,
         PowerAllForServer(p, s, status)
  PROVE  RowsMove /\ RestOK'
<1>. DEFINE r == [op |-> "powerAll", pc |-> "list", s |-> s, d |-> None, todo |-> {},
                  status |-> status]
<1>1. r \in Request
  BY DatabasesAssumption DEF Request, Ops, Points, Settled
<1>2. ProcOK' /\ AtHand'
  BY <1>1, BecomeOK DEF PowerAllForServer, TypeInv, RestOK, LoopPoints
<1>3. RowsMove
  BY RowsSame DEF PowerAllForServer, TypeInv, history
<1>. QED BY <1>2, <1>3 DEF PowerAllForServer, TypeInv, RestOK, ServersOK, AgentOK,
       HistoryOK, agent, history

LEMMA ListServerDatabasesOK ==
  ASSUME TypeInv, NEW p \in Procs, ListServerDatabases(p)
  PROVE  RowsMove /\ RestOK'
<1>. DEFINE r == [proc[p] EXCEPT !.pc = "next", !.todo = Listed(proc[p].s)]
<1>1. proc[p] \in Request /\ proc[p].op # "create"
  BY DEF ListServerDatabases, At, TypeInv, RestOK, ProcOK, AtHand, CreatePoints
<1>2. Listed(proc[p].s) \in SUBSET Databases
  BY DEF Listed
<1>3. r \in Request /\ r.pc = "next" /\ r.op # "create"
  BY <1>1, <1>2 DEF Request, Points
<1>4. ProcOK' /\ AtHand'
  BY <1>3, BecomeOK DEF ListServerDatabases, TypeInv, RestOK, LoopPoints
<1>5. RowsMove
  BY RowsSame DEF ListServerDatabases, TypeInv, history
<1>. QED BY <1>4, <1>5 DEF ListServerDatabases, TypeInv, RestOK, ServersOK, AgentOK,
       HistoryOK, agent, history

LEMMA NextDatabaseOK ==
  ASSUME TypeInv, NEW p \in Procs, NextDatabase(p)
  PROVE  RowsMove /\ RestOK'
<1>. DEFINE rest(d) == [proc[p] EXCEPT !.d = d, !.todo = @ \ {d}]
            same == UNCHANGED <<table, server, agent, history>>
<1>1. proc[p] \in Request /\ proc[p] # None /\ proc[p].op # "create"
  BY DEF NextDatabase, At, TypeInv, RestOK, ProcOK, AtHand, CreatePoints
<1>2. ASSUME same PROVE RowsMove /\ ServersOK' /\ AgentOK' /\ HistoryOK'
  BY <1>2, RowsSame DEF TypeInv, RestOK, ServersOK, AgentOK, HistoryOK, agent, history
<1>3. CASE same /\ (Goto(p, "removeServer") \/ Done(p) \/ Throw(p))
  <2>1. ProcOK' /\ AtHand'
    BY <1>1, <1>3, GotoOK, DoneOK, LoopOK DEF TypeInv, RestOK, Points, LoopPoints
  <2>. QED BY <1>2, <1>3, <2>1 DEF RestOK
<1>4. ASSUME NEW d \in proc[p].todo, Claimed(p, rest(d), d)
      PROVE  RowsMove /\ RestOK'
  <2>1. d \in Databases /\ rest(d) \in Request /\ rest(d).op # "create"
    BY <1>1 DEF Request
  <2>. QED BY <1>4, <2>1, ClaimedOK
<1>5. ASSUME NEW d \in proc[p].todo, same, Become(p, [rest(d) EXCEPT !.pc = "power"])
      PROVE  RowsMove /\ RestOK'
  <2>. DEFINE r == [rest(d) EXCEPT !.pc = "power"]
  <2>1. d \in Databases /\ r \in Request /\ r.op # "create" /\ r.d = d
    BY <1>1 DEF Request, Points
  <2>2. ProcOK' /\ AtHand'
    BY <1>5, <2>1, BecomeOK DEF TypeInv, RestOK
  <2>. QED BY <1>2, <1>5, <2>2 DEF RestOK
<1>. QED BY <1>3, <1>4, <1>5 DEF NextDatabase

LEMMA ServerStepsOK ==
  ASSUME TypeInv, NEW p \in Procs, NEW s \in Servers, DeleteServer(p, s) \/ ForgetServer(p, s)
  PROVE  RowsMove /\ RestOK'
<1>. DEFINE r(op, pc) == [op |-> op, pc |-> pc, s |-> s, d |-> None, todo |-> {},
                          status |-> "created"]
<1>1. r("deleteAll", "list") \in Request /\ r("dropAll", "dropRows") \in Request
  BY DEF Request, Ops, Points, Settled
<1>2. ProcOK' /\ AtHand'
  BY <1>1, BecomeOK DEF DeleteServer, ForgetServer, TypeInv, RestOK, LoopPoints
<1>3. RowsMove
  BY RowsSame DEF DeleteServer, ForgetServer, TypeInv, history
<1>. QED BY <1>2, <1>3 DEF DeleteServer, ForgetServer, TypeInv, RestOK, ServersOK, AgentOK,
       HistoryOK, agent, history

LEMMA DropRowsOK ==
  ASSUME TypeInv, NEW p \in Procs, DropRows(p)
  PROVE  RowsMove /\ RestOK'
<1>1. Owned(proc[p].s) \subseteq Databases
  BY DEF Owned
<1>2. proc[p] # None /\ proc[p].op # "create" /\ Goto(p, "removeServer")
  BY DEF DropRows, At, TypeInv, RestOK, AtHand, CreatePoints
<1>3. ProcOK' /\ AtHand'
  BY <1>2, GotoOK DEF TypeInv, RestOK, Points, LoopPoints
<1>4. RowsMove
  BY RowsDropped DEF DropRows, TypeInv
<1>. QED BY <1>1, <1>3, <1>4 DEF DropRows, TypeInv, RestOK, ServersOK, AgentOK, HistoryOK, agent

LEMMA RemoveServerOK ==
  ASSUME TypeInv, NEW p \in Procs, RemoveServer(p)
  PROVE  RowsMove /\ RestOK'
<1>1. Owned(proc[p].s) \subseteq Databases
  BY DEF Owned
<1>2. proc[p] # None /\ proc[p].op # "create" /\ (Done(p) \/ Goto(p, "restoreServer"))
  BY DEF RemoveServer, At, TypeInv, RestOK, AtHand, CreatePoints
<1>3. ProcOK' /\ AtHand'
  BY <1>2, DoneOK, GotoOK DEF TypeInv, RestOK, Points, LoopPoints
<1>4. RowsMove
  BY RowsDropped, RowsSame DEF RemoveServer, TypeInv, table
<1>5. AgentOK'
  BY DatabasesAssumption DEF RemoveServer, TypeInv, RestOK, AgentOK
<1>. QED BY <1>1, <1>3, <1>4, <1>5 DEF RemoveServer, TypeInv, RestOK, ServersOK, HistoryOK

LEMMA RestoreServerOK ==
  ASSUME TypeInv, NEW p \in Procs, RestoreServer(p)
  PROVE  RowsMove /\ RestOK'
<1>1. ProcOK' /\ AtHand'
  BY DoneOK DEF RestoreServer, TypeInv, RestOK
<1>2. RowsMove
  BY RowsSame DEF RestoreServer, TypeInv, history
<1>. QED BY <1>1, <1>2 DEF RestoreServer, TypeInv, RestOK, ServersOK, AgentOK, HistoryOK,
       agent, history

LEMMA CrashOK ==
  ASSUME TypeInv, NEW p \in Procs, Crash(p)
  PROVE  RowsMove /\ RestOK'
<1>1. ProcOK' /\ AtHand'
  BY DoneOK DEF Crash, TypeInv, RestOK
<1>2. RowsMove
  BY RowsSame DEF Crash, TypeInv
<1>3. stranded' \subseteq Databases
  BY DEF Crash, TypeInv, RestOK, HistoryOK, AtHand, DeletePoints, LoopPoints
<1>4. AgentOK'
  BY DatabasesAssumption DEF Crash, TypeInv, RestOK, AgentOK
<1>. QED BY <1>1, <1>2, <1>3, <1>4 DEF Crash, TypeInv, RestOK, ServersOK, HistoryOK

\* Every step moves the rows as RowsMove says and keeps all types.
LEMMA StepOK ==
  ASSUME TypeInv, [Next]_vars
  PROVE  RowsMove /\ TypeInv'
<1>1. RowsMove /\ RestOK'
  <2>1. ASSUME NEW p \in Procs, Arrive(p) PROVE RowsMove /\ RestOK'
    BY <2>1, CreateServerDatabaseOK, DeleteServerDatabaseOK, PowerServerDatabaseOK,
       PowerAllForServerOK, ServerStepsOK DEF Arrive
  <2>2. ASSUME NEW p \in Procs, Step(p) PROVE RowsMove /\ RestOK'
    BY <2>2, AgentCreateOK, PersistOK, ReleaseReservationOK, AgentDeleteOK, DeleteRowOK,
       UndoDeleteOK, AgentPowerOK, ListServerDatabasesOK, NextDatabaseOK, DropRowsOK,
       RemoveServerOK, RestoreServerOK DEF Step
  <2>3. CASE UNCHANGED vars
    BY <2>3, RowsSame DEF vars, TypeInv, RestOK, ServersOK, AgentOK, ProcOK, AtHand, HistoryOK,
       agent, history
  <2>. QED BY <2>1, <2>2, <2>3, CrashOK DEF Next
<1>. QED BY <1>1, RowsMoveOK DEF TypeInv

LEMMA InitOK == Init => TypeInv
BY DatabasesAssumption DEF Init, TypeInv, RestOK, RowsOK, ServersOK, AgentOK, ProcOK, AtHand,
   HistoryOK, Exists

\* Every reachable state is well typed.
THEOREM DatabasesTypeCorrect == Spec => []TypeOK
<1>1. TypeInv => TypeOK
  BY DEF TypeInv, RestOK, TypeOK, RowsOK, ServersOK, AgentOK, ProcOK, HistoryOK
<1>. QED BY <1>1, InitOK, StepOK, PTL DEF Spec

-----------------------------------------------------------------------------
(* Ports and quotas follow from the moves of the rows alone. *)

\* A reservation is the only thing that happens to the rows.
LEMMA ReservedAlone ==
  ASSUME RowsMove, NEW d \in Databases, Reserved(d)
  PROVE  \A e \in Databases \ {d} : Same(e)
<1>1. ~Same(d) /\ ~Dropped(d)
  BY DatabasesAssumption DEF Reserved, Same, Dropped
<1>. QED BY <1>1 DEF RowsMove

\* A database that is visible after a move, was not reserved by it and was
\* never revived, was visible before with the same port and server.
LEMMA VisibleBefore ==
  ASSUME RowsOK, RowsMove, NEW d \in Databases, Live(d)', ~Reserved(d), d \notin revived'
  PROVE  Live(d) /\ rows[d].port = rows'[d].port /\ rows[d].owner = rows'[d].owner
<1>1. Taken(d) \/ Written(d) \/ Same(d) \/ Dropped(d)
  BY DEF RowsMove
<1>2. rows'[d] # None /\ rows'[d].status # "deleting"
  BY DEF Live, Has, Exists
<1>3. ~Dropped(d)
  BY <1>2 DEF Dropped
<1>4. Exists(d) => rows[d] \in Row
  BY DEF RowsOK, Exists
<1>5. ~Taken(d)
  BY <1>2, <1>4 DEF Taken, Live, Has, Row
<1>6. CASE Same(d)
  BY <1>6 DEF Same, Live, Has, Exists
<1>7. CASE Written(d)
  <2>1. Exists(d) /\ rows[d] \in Row /\ ~Has(d, {"deleting"})
    BY <1>4, <1>7 DEF Written
  <2>2. PICK status \in Settled : rows'[d] = [rows[d] EXCEPT !.status = status]
    BY <1>7 DEF Written
  <2>3. rows[d].port = rows'[d].port /\ rows[d].owner = rows'[d].owner
    BY <2>1, <2>2 DEF Row
  <2>. QED BY <2>1, <2>3 DEF Live, Has, Row
<1>. QED BY <1>1, <1>3, <1>5, <1>6, <1>7

LEMMA PortsStep ==
  ASSUME RowsOK, RowsMove, UniquePorts
  PROVE  UniquePorts'
<1>. SUFFICES ASSUME NEW d \in Databases, NEW e \in Databases,
                     Live(d)', Live(e)', rows'[d].port = rows'[e].port, d # e,
                     {d, e} \cap revived' = {}
              PROVE  FALSE
  BY DEF UniquePorts
<1>1. {d, e} \cap revived = {}
  BY DEF RowsMove
<1>2. ASSUME NEW x \in {d, e}, ~Reserved(x)
      PROVE  Live(x) /\ rows[x].port = rows'[x].port
  BY <1>2, VisibleBefore
<1>3. ~Reserved(d) /\ ~Reserved(e) => FALSE
  BY <1>1, <1>2 DEF UniquePorts
<1>4. ASSUME NEW x \in {d, e}, NEW y \in {d, e}, x # y, Reserved(x) PROVE FALSE
  <2>1. Same(y)
    BY <1>4, ReservedAlone
  <2>2. Live(y) /\ rows[y].port = rows'[x].port
    BY <2>1, <1>4 DEF Live, Has, Exists, Same
  <2>. QED BY <2>2, <1>4 DEF Reserved, UsedPorts
<1>. QED BY <1>3, <1>4

LEMMA QuotaStep ==
  ASSUME RowsOK, RowsMove, QuotaKept
  PROVE  QuotaKept'
<1>. SUFFICES ASSUME NEW s \in Servers
              PROVE  Cardinality(Listed(s)' \ revived') <= Limit
  BY DEF QuotaKept
<1>. DEFINE counted == Listed(s) \ revived
<1>1. IsFiniteSet(Listed(s)) /\ IsFiniteSet(counted)
  BY DatabasesAssumption, FS_Subset DEF Listed
<1>2. ASSUME NEW d \in Databases, d \in counted', ~Reserved(d) PROVE d \in counted
  <2>1. Live(d)' /\ rows'[d].owner = s /\ d \notin revived'
    BY <1>2 DEF Listed
  <2>2. Live(d) /\ rows[d].owner = s /\ d \notin revived
    BY <1>2, <2>1, VisibleBefore DEF RowsMove
  <2>. QED BY <2>2 DEF Listed
<1>3. CASE counted' \subseteq counted
  <2>1. Cardinality(counted') <= Cardinality(counted) /\ Cardinality(counted') \in Nat
    BY <1>1, <1>3, FS_Subset, FS_CardinalityType
  <2>2. Cardinality(counted) <= Limit /\ Cardinality(counted) \in Nat
    BY <1>1, FS_CardinalityType DEF QuotaKept
  <2>. QED BY <2>1, <2>2, DatabasesAssumption
<1>4. ASSUME NEW d \in Databases, d \in counted', Reserved(d)
      PROVE  Cardinality(counted') <= Limit
  <2>1. \A e \in Databases \ {d} : Same(e)
    BY <1>4, ReservedAlone
  <2>2. counted' \subseteq Listed(s) \cup {d} /\ d \notin Listed(s)
    <3>1. d \notin Listed(s)
      BY <1>4 DEF Reserved, Listed, Live, Has, Exists
    <3>2. ASSUME NEW e \in Databases \ {d}, Live(e)', rows'[e].owner = s PROVE e \in Listed(s)
      BY <2>1, <3>2 DEF Same, Listed, Live, Has, Exists
    <3>. QED BY <3>1, <3>2 DEF Listed
  <2>3. rows'[d].owner = s
    BY <1>4 DEF Listed
  <2>4. Cardinality(Listed(s)) < Limit
    BY <2>3, <1>4 DEF Reserved, WithinLimit
  <2>5. /\ IsFiniteSet(Listed(s) \cup {d})
        /\ Cardinality(Listed(s) \cup {d}) = Cardinality(Listed(s)) + 1
    BY <1>1, <2>2, FS_AddElement
  <2>6. Cardinality(counted') <= Cardinality(Listed(s) \cup {d}) /\ Cardinality(counted') \in Nat
    BY <2>2, <2>5, FS_Subset, FS_CardinalityType
  <2>. QED BY <1>1, <2>4, <2>5, <2>6, FS_CardinalityType, DatabasesAssumption
<1>. QED BY <1>2, <1>3, <1>4 DEF Listed

\* Two visible databases share a port only after a deletion that came to
\* nothing (reserveSql, persistStatus).
THEOREM UniquePortsAlways == Spec => []UniquePorts
<1>1. Init => UniquePorts
  BY DEF Init, UniquePorts, Live, Has, Exists
<1>2. TypeInv /\ UniquePorts /\ [Next]_vars => UniquePorts'
  BY StepOK, PortsStep DEF TypeInv
<1>. QED BY <1>1, <1>2, InitOK, StepOK, PTL DEF Spec

\* The quota is exceeded only by deletions that came to nothing (reserveSql).
THEOREM QuotaKeptAlways == Spec => []QuotaKept
<1>1. Init => QuotaKept
  <2>. SUFFICES ASSUME Init, NEW s \in Servers PROVE Cardinality(Listed(s) \ revived) <= Limit
    BY DEF QuotaKept
  <2>1. Listed(s) \ revived = {}
    BY DEF Init, Listed, Live, Has, Exists
  <2>. QED BY <2>1, FS_EmptySet, DatabasesAssumption
<1>2. TypeInv /\ QuotaKept /\ [Next]_vars => QuotaKept'
  BY StepOK, QuotaStep DEF TypeInv
<1>. QED BY <1>1, <1>2, InitOK, StepOK, PTL DEF Spec

-----------------------------------------------------------------------------
(* Who deletes a database: every claim has one owner, and an owner unless  *)
(* its request died.                                                       *)

\* No database at its deletion is visible, unless its claim was overwritten.
ClaimsInv ==
  \A p \in Procs, d \in Databases :
    Deletes(p, d) => d \in used /\ (Live(d) => d \in overwritten)

-----------------------------------------------------------------------------
(* What a step of request p may do to the claims. *)

Hidden(d) == Has(d, {"deleting"})

\* A claim begins with the row; a row comes back by the request that had
\* claimed it or is marked as overwritten.
ClaimStep(p, d) ==
  /\ Deletes(p, d)' => Deletes(p, d) \/ Taken(d)
  /\ Live(d)' => \/ Live(d) \/ d \notin used \/ d \in overwritten'
                 \/ Deletes(p, d) /\ ~Deletes(p, d)'
  /\ Hidden(d)' => Hidden(d) \/ Deletes(p, d)'
  /\ Deletes(p, d) => Deletes(p, d)' \/ d \in stranded' \/ ~Hidden(d)'
Grows == used \subseteq used' /\ overwritten \subseteq overwritten' /\ stranded \subseteq stranded'
Others(p) == \A q \in Procs \ {p} : proc'[q] = proc[q]
ClaimsMove(p) == Grows /\ Others(p) /\ \A d \in Databases : ClaimStep(p, d)

\* A step of a request that deletes nothing before or after it.
Idle(p) == proc[p] = None \/ proc[p].pc \notin DeletePoints
RowKept(d) ==
  /\ Live(d)' => Live(d) \/ d \notin used \/ d \in overwritten'
  /\ Hidden(d)' => Hidden(d)

LEMMA IdleStep ==
  ASSUME NEW p \in Procs, Idle(p), Idle(p)', Grows, Others(p),
         \A d \in Databases : RowKept(d)
  PROVE  ClaimsMove(p)
<1>1. \A d \in Databases : ~Deletes(p, d) /\ ~Deletes(p, d)'
  BY DEF Idle, Deletes
<1>. QED BY <1>1 DEF ClaimsMove, ClaimStep, RowKept

LEMMA SameRowsKept ==
  ASSUME NEW d \in Databases, Same(d) \/ Dropped(d)
  PROVE  RowKept(d)
BY DEF RowKept, Same, Dropped, Live, Hidden, Has, Exists

LEMMA DeleteRowsKept ==
  ASSUME NEW ds, DeleteRows(ds), NEW d \in Databases
  PROVE  RowKept(d)
BY SameRowsKept DEF DeleteRows, Same, Dropped

LEMMA BecomeMoves ==
  ASSUME ProcOK, NEW p \in Procs, NEW r, Become(p, r)
  PROVE  Others(p) /\ proc'[p] = r
BY DEF ProcOK, Become, Others

LEMMA DoneMoves ==
  ASSUME ProcOK, NEW p \in Procs, Done(p)
  PROVE  Others(p) /\ proc'[p] = None
BY DEF ProcOK, Done, Others

LEMMA GotoMoves ==
  ASSUME ProcOK, NEW p \in Procs, proc[p] # None, NEW point \in Points, Goto(p, point)
  PROVE  Others(p) /\ proc'[p] # None /\ proc'[p].pc = point /\ proc'[p].d = proc[p].d
<1>. DEFINE r == [proc[p] EXCEPT !.pc = point]
<1>1. r \in Request /\ r.pc = point /\ r.d = proc[p].d
  BY DEF ProcOK, Request
<1>. QED BY <1>1, BecomeMoves, DatabasesAssumption DEF Goto

LEMMA LoopMoves ==
  ASSUME ProcOK, NEW p \in Procs, proc[p] # None, Continue(p) \/ Throw(p)
  PROVE  Others(p) /\ Idle(p)'
<1>1. ASSUME NEW point \in {"next", "restoreServer"}, Back(p, point)
      PROVE  Others(p) /\ Idle(p)'
  <2>. DEFINE r == [proc[p] EXCEPT !.pc = point, !.d = None]
  <2>1. r \in Request /\ r.pc = point
    BY DEF ProcOK, Request, Points
  <2>. QED BY <1>1, <2>1, BecomeMoves DEF Back, Idle, DeletePoints
<1>2. CASE Done(p)
  BY <1>2, DoneMoves DEF Idle
<1>. QED BY <1>1, <1>2 DEF Continue, Throw

-----------------------------------------------------------------------------
(* Every action makes such a step. *)

\* Requests that arrive, and steps that touch neither a claim nor the rows.
LEMMA QuietMoves ==
  ASSUME TypeInv, NEW p \in Procs, UNCHANGED <<rows, used, overwritten, stranded>>,
         Idle(p), Idle(p)', Others(p)
  PROVE  ClaimsMove(p)
<1>1. \A d \in Databases : RowKept(d)
  BY SameRowsKept DEF Same
<1>. QED BY <1>1, IdleStep DEF Grows

LEMMA ArriveMoves ==
  ASSUME TypeInv, NEW p \in Procs, proc[p] = None,
         UNCHANGED <<rows, used, overwritten, stranded>>,
         NEW r, r.pc \notin DeletePoints, Become(p, r)
  PROVE  ClaimsMove(p)
BY BecomeMoves, QuietMoves DEF Idle, TypeInv, RestOK

LEMMA CreateMoves ==
  ASSUME TypeInv, NEW p \in Procs, NEW d \in Databases, NEW s \in Servers,
         CreateServerDatabase(p, d, s)
  PROVE  ClaimsMove(p)
<1>1. Others(p) /\ Idle(p) /\ Idle(p)'
  BY BecomeMoves DEF CreateServerDatabase, Idle, DeletePoints, TypeInv, RestOK
<1>2. Grows
  BY DEF Grows, CreateServerDatabase, ReserveSql, history
<1>3. ASSUME NEW e \in Databases PROVE RowKept(e)
  <2>1. PICK port \in Ports :
          rows' = [rows EXCEPT ![d] = [owner |-> s, port |-> port,
                                       status |-> "provisioning"]]
    BY DEF CreateServerDatabase, ReserveSql
  <2>2. CASE e = d
    BY <2>1, <2>2 DEF TypeInv, RowsOK, RowKept, CreateServerDatabase, ReserveSql, Hidden, Has
  <2>3. CASE e # d
    BY <2>1, <2>3, SameRowsKept DEF TypeInv, RowsOK, Same
  <2>. QED BY <2>2, <2>3
<1>. QED BY <1>1, <1>2, <1>3, IdleStep

LEMMA AgentCreateMoves ==
  ASSUME TypeInv, NEW p \in Procs, AgentCreate(p)
  PROVE  ClaimsMove(p)
<1>1. PICK point \in {"persist", "release"} : Goto(p, point)
  BY DEF AgentCreate
<1>2. Others(p) /\ Idle(p) /\ Idle(p)'
  BY <1>1, GotoMoves DEF AgentCreate, At, Idle, Points, CreatePoints, DeletePoints, TypeInv, RestOK
<1>. QED BY <1>2, QuietMoves DEF AgentCreate, table

LEMMA PersistMoves ==
  ASSUME TypeInv, NEW p \in Procs, Persist(p)
  PROVE  ClaimsMove(p)
<1>1. Others(p) /\ Idle(p) /\ Idle(p)'
  BY LoopMoves DEF Persist, At, Idle, DeletePoints, TypeInv, RestOK
<1>2. Grows
  BY DEF Grows, Persist
<1>3. proc[p].d \in Databases /\ proc[p].status \in Settled
  BY DatabasesAssumption DEF Persist, At, TypeInv, RestOK, AtHand, LoopPoints, ProcOK, Request
<1>4. ASSUME NEW e \in Databases PROVE RowKept(e)
  <2>1. CASE e = proc[p].d /\ Exists(e)
    <3>1. rows[e] \in Row /\ rows'[e] = [rows[e] EXCEPT !.status = proc[p].status]
      BY <2>1 DEF TypeInv, RowsOK, Exists, Persist, PersistStatus
    <3>2. rows'[e].status \in Settled
      BY <1>3, <3>1 DEF Row
    <3>3. ~Hidden(e)'
      BY <3>2 DEF Hidden, Has, Settled
    <3>4. Live(e) \/ e \in overwritten'
      BY <2>1, <3>1 DEF Live, Has, Row, Persist
    <3>. QED BY <3>3, <3>4 DEF RowKept
  <2>2. CASE e # proc[p].d \/ ~Exists(e)
    BY <1>3, <2>2, SameRowsKept DEF TypeInv, RowsOK, Same, Persist, PersistStatus
  <2>. QED BY <2>1, <2>2
<1>. QED BY <1>1, <1>2, <1>4, IdleStep

LEMMA ReleaseMoves ==
  ASSUME TypeInv, NEW p \in Procs, ReleaseReservation(p)
  PROVE  ClaimsMove(p)
<1>1. Others(p) /\ Idle(p) /\ Idle(p)'
  BY DoneMoves DEF ReleaseReservation, At, Idle, DeletePoints, TypeInv, RestOK
<1>2. Grows /\ \A d \in Databases : RowKept(d)
  BY DeleteRowsKept DEF Grows, ReleaseReservation, history
<1>. QED BY <1>1, <1>2, IdleStep

\* A claim: the row is hidden in the same step.
LEMMA ClaimedMoves ==
  ASSUME TypeInv, NEW p \in Procs, Idle(p), NEW r \in Request, NEW d \in Databases,
         Claimed(p, r, d)
  PROVE  ClaimsMove(p)
<1>. DEFINE claimed == [r EXCEPT !.pc = "agentDelete", !.d = d]
<1>1. claimed \in Request /\ claimed.d = d /\ claimed.pc \in DeletePoints
  BY DEF Request, Points, DeletePoints
<1>2. Others(p) /\ proc'[p] = claimed /\ claimed # None
  BY <1>1, BecomeMoves, DatabasesAssumption DEF Claimed, TypeInv, RestOK
<1>3. \A e \in Databases : ~Deletes(p, e) /\ (Deletes(p, e)' <=> e = d)
  BY <1>1, <1>2 DEF Idle, Deletes
<1>4. Taken(d) /\ ~Live(d)'
  <2>1. rows[d] \in Row /\ rows'[d] = [rows[d] EXCEPT !.status = "deleting"]
    BY DEF Claimed, ClaimForDelete, Live, Has, Exists, TypeInv, RowsOK
  <2>2. rows'[d].status = "deleting"
    BY <2>1 DEF Row
  <2>. QED BY <2>1, <2>2 DEF Claimed, ClaimForDelete, Taken, Live, Has
<1>5. \A e \in Databases \ {d} : RowKept(e)
  BY SameRowsKept DEF Claimed, ClaimForDelete, Same, TypeInv, RowsOK
<1>6. Grows
  BY DEF Grows, Claimed
<1>. QED BY <1>2, <1>3, <1>4, <1>5, <1>6 DEF ClaimsMove, ClaimStep, RowKept

LEMMA DeleteMoves ==
  ASSUME TypeInv, NEW p \in Procs, NEW d \in Databases, DeleteServerDatabase(p, d)
  PROVE  ClaimsMove(p)
<1>. DEFINE r == [op |-> "delete", pc |-> "agentDelete", s |-> rows[d].owner,
                  d |-> d, todo |-> {}, status |-> "created"]
<1>1. rows[d] \in Row
  BY DEF DeleteServerDatabase, TypeInv, RowsOK, Exists
<1>2. r \in Request
  BY <1>1 DEF Request, Row, Ops, Points, DeletePoints, Settled
<1>. QED BY <1>2, ClaimedMoves DEF DeleteServerDatabase, Idle

LEMMA AgentDeleteMoves ==
  ASSUME TypeInv, NEW p \in Procs, AgentDelete(p)
  PROVE  ClaimsMove(p)
<1>1. PICK point \in {"deleteRow", "undo"} : Goto(p, point)
  BY DEF AgentDelete
<1>2. Others(p) /\ proc'[p] # None /\ proc'[p].pc = point /\ proc'[p].d = proc[p].d
  BY <1>1, GotoMoves DEF AgentDelete, At, Points, DeletePoints, TypeInv, RestOK
<1>3. \A d \in Databases : Deletes(p, d)' <=> Deletes(p, d)
  BY <1>2 DEF AgentDelete, At, Deletes, DeletePoints
<1>4. Grows /\ \A d \in Databases : RowKept(d)
  BY SameRowsKept DEF Grows, AgentDelete, table, Same
<1>. QED BY <1>2, <1>3, <1>4 DEF ClaimsMove, ClaimStep, RowKept

\* A claim ends with its row gone or visible.
LEMMA ClaimEnds ==
  ASSUME NEW p \in Procs, Others(p), Grows, Idle(p)',
         \A d \in Databases : IF Deletes(p, d) THEN ~Hidden(d)' ELSE RowKept(d)
  PROVE  ClaimsMove(p)
<1>1. \A d \in Databases : ~Deletes(p, d)'
  BY DEF Idle, Deletes
<1>. QED BY <1>1 DEF ClaimsMove, ClaimStep, RowKept

LEMMA DeleteRowMoves ==
  ASSUME TypeInv, NEW p \in Procs, DeleteRow(p)
  PROVE  ClaimsMove(p)
<1>1. Others(p) /\ Idle(p)'
  BY LoopMoves DEF DeleteRow, At, TypeInv, RestOK
<1>2. Grows /\ \A d \in Databases : RowKept(d)
  BY DeleteRowsKept DEF Grows, DeleteRow, history
<1>3. \A d \in Databases : Deletes(p, d) => ~Hidden(d)'
  BY DEF Deletes, DeleteRow, DeleteRows, Hidden, Has, Exists
<1>. QED BY <1>1, <1>2, <1>3, ClaimEnds

LEMMA UndoDeleteMoves ==
  ASSUME TypeInv, NEW p \in Procs, UndoDelete(p)
  PROVE  ClaimsMove(p)
<1>1. Others(p) /\ Idle(p)'
  BY LoopMoves DEF UndoDelete, At, TypeInv, RestOK
<1>2. Grows
  BY DEF Grows, UndoDelete
<1>3. proc[p] # None /\ proc[p].pc \in DeletePoints
  BY DEF UndoDelete, At, DeletePoints
<1>4. ASSUME NEW d \in Databases, Deletes(p, d) PROVE ~Hidden(d)'
  <2>1. CASE Exists(d)
    <3>1. rows[d] \in Row /\ rows'[d] = [rows[d] EXCEPT !.status = "created"]
      BY <1>4, <2>1 DEF Deletes, UndoDelete, PersistStatus, TypeInv, RowsOK, Exists
    <3>2. rows'[d].status = "created"
      BY <3>1 DEF Row
    <3>. QED BY <3>2 DEF Hidden, Has
  <2>2. CASE ~Exists(d)
    BY <1>4, <2>2 DEF Deletes, UndoDelete, PersistStatus, Hidden, Has, Exists
  <2>. QED BY <2>1, <2>2
<1>5. ASSUME NEW d \in Databases, ~Deletes(p, d) PROVE RowKept(d)
  BY <1>3, <1>5, SameRowsKept DEF Deletes, UndoDelete, PersistStatus, TypeInv, RowsOK, Same
<1>. QED BY <1>1, <1>2, <1>4, <1>5, ClaimEnds

LEMMA AgentPowerMoves ==
  ASSUME TypeInv, NEW p \in Procs, AgentPower(p)
  PROVE  ClaimsMove(p)
<1>1. Goto(p, "persist") \/ Throw(p)
  BY DEF AgentPower
<1>2. Others(p) /\ Idle(p) /\ Idle(p)'
  BY <1>1, GotoMoves, LoopMoves
     DEF AgentPower, At, Idle, Points, CreatePoints, DeletePoints, TypeInv, RestOK
<1>. QED BY <1>2, QuietMoves DEF AgentPower, table, history

LEMMA ListMoves ==
  ASSUME TypeInv, NEW p \in Procs, ListServerDatabases(p)
  PROVE  ClaimsMove(p)
<1>. DEFINE r == [proc[p] EXCEPT !.pc = "next", !.todo = Listed(proc[p].s)]
<1>1. proc[p] \in Request /\ r.pc = "next"
  BY DEF ListServerDatabases, At, TypeInv, RestOK, ProcOK, Request
<1>2. Others(p) /\ Idle(p) /\ Idle(p)'
  BY <1>1, BecomeMoves DEF ListServerDatabases, At, Idle, DeletePoints, TypeInv, RestOK
<1>. QED BY <1>2, QuietMoves DEF ListServerDatabases, table, history

LEMMA NextMoves ==
  ASSUME TypeInv, NEW p \in Procs, NextDatabase(p)
  PROVE  ClaimsMove(p)
<1>. DEFINE rest(d) == [proc[p] EXCEPT !.d = d, !.todo = @ \ {d}]
            same == UNCHANGED <<table, server, agent, history>>
<1>1. proc[p] \in Request /\ proc[p] # None /\ Idle(p)
  BY DEF NextDatabase, At, TypeInv, RestOK, ProcOK, Idle, DeletePoints
<1>2. ASSUME same, Others(p), Idle(p)' PROVE ClaimsMove(p)
  BY <1>1, <1>2, QuietMoves DEF table, history
<1>3. CASE same /\ (Goto(p, "removeServer") \/ Done(p) \/ Throw(p))
  <2>1. Others(p) /\ Idle(p)'
    BY <1>1, <1>3, GotoMoves, DoneMoves, LoopMoves DEF TypeInv, RestOK, Points, Idle, DeletePoints
  <2>. QED BY <1>2, <1>3, <2>1
<1>4. ASSUME NEW d \in proc[p].todo, Claimed(p, rest(d), d)
      PROVE  ClaimsMove(p)
  <2>1. d \in Databases /\ rest(d) \in Request
    BY <1>1 DEF Request
  <2>. QED BY <1>1, <1>4, <2>1, ClaimedMoves
<1>5. ASSUME NEW d \in proc[p].todo, same, Become(p, [rest(d) EXCEPT !.pc = "power"])
      PROVE  ClaimsMove(p)
  <2>. DEFINE r == [rest(d) EXCEPT !.pc = "power"]
  <2>1. r \in Request /\ r.pc = "power"
    BY <1>1 DEF Request, Points
  <2>2. Others(p) /\ Idle(p)'
    BY <1>5, <2>1, BecomeMoves DEF TypeInv, RestOK, Idle, DeletePoints
  <2>. QED BY <1>2, <1>5, <2>2
<1>. QED BY <1>3, <1>4, <1>5 DEF NextDatabase

LEMMA ServerMoves ==
  ASSUME TypeInv, NEW p \in Procs, DropRows(p) \/ RemoveServer(p) \/ RestoreServer(p)
  PROVE  ClaimsMove(p)
<1>1. proc[p] # None /\ Idle(p)
  BY DEF DropRows, RemoveServer, RestoreServer, At, Idle, DeletePoints
<1>2. Goto(p, "removeServer") \/ Goto(p, "restoreServer") \/ Done(p)
  BY DEF DropRows, RemoveServer, RestoreServer
<1>3. Others(p) /\ Idle(p)'
  BY <1>1, <1>2, GotoMoves, DoneMoves DEF TypeInv, RestOK, Points, Idle, DeletePoints
<1>4. Grows
  BY DEF Grows, DropRows, RemoveServer, RestoreServer, table, history
<1>5. \A d \in Databases : RowKept(d)
  BY DeleteRowsKept, SameRowsKept DEF DropRows, RemoveServer, RestoreServer, table, Same
<1>. QED BY <1>1, <1>3, <1>4, <1>5, IdleStep

LEMMA CrashMoves ==
  ASSUME TypeInv, NEW p \in Procs, Crash(p)
  PROVE  ClaimsMove(p)
<1>1. Others(p) /\ \A d \in Databases : ~Deletes(p, d)'
  BY DoneMoves DEF Crash, Deletes, TypeInv, RestOK
<1>2. Grows /\ \A d \in Databases : Deletes(p, d) => d \in stranded'
  BY DEF Grows, Crash, table, Deletes
<1>3. \A d \in Databases : RowKept(d)
  BY SameRowsKept DEF Crash, table, Same
<1>. QED BY <1>1, <1>2, <1>3 DEF ClaimsMove, ClaimStep, RowKept

LEMMA ClaimsStep ==
  ASSUME TypeInv, [Next]_vars
  PROVE  (\E p \in Procs : ClaimsMove(p)) \/ UNCHANGED vars
<1>1. ASSUME NEW p \in Procs, Arrive(p) PROVE ClaimsMove(p)
  <2>1. ASSUME NEW d \in Databases, NEW status \in PowerStatuses,
               PowerServerDatabase(p, d, status)
        PROVE  ClaimsMove(p)
    BY <2>1, ArriveMoves DEF PowerServerDatabase, table, history, DeletePoints
  <2>2. ASSUME NEW s \in Servers, NEW status \in PowerStatuses,
               PowerAllForServer(p, s, status)
        PROVE  ClaimsMove(p)
    BY <2>2, ArriveMoves DEF PowerAllForServer, table, history, DeletePoints
  <2>3. ASSUME NEW s \in Servers, DeleteServer(p, s) \/ ForgetServer(p, s)
        PROVE  ClaimsMove(p)
    BY <2>3, ArriveMoves DEF DeleteServer, ForgetServer, table, history, DeletePoints
  <2>. QED BY <1>1, <2>1, <2>2, <2>3, CreateMoves, DeleteMoves DEF Arrive
<1>2. ASSUME NEW p \in Procs, Step(p) PROVE ClaimsMove(p)
  BY <1>2, AgentCreateMoves, PersistMoves, ReleaseMoves, AgentDeleteMoves, DeleteRowMoves,
     UndoDeleteMoves, AgentPowerMoves, ListMoves, NextMoves, ServerMoves DEF Step
<1>. QED BY <1>1, <1>2, CrashMoves DEF Next

-----------------------------------------------------------------------------
(* The theorems. *)

LEMMA ClaimsInvStep ==
  ASSUME TypeInv, ClaimsInv, DeletersExclude, NEW m \in Procs, ClaimsMove(m)
  PROVE  ClaimsInv' /\ DeletersExclude'
<1>1. ASSUME NEW q \in Procs, NEW d \in Databases, q # m
      PROVE  Deletes(q, d)' <=> Deletes(q, d)
  BY <1>1 DEF ClaimsMove, Others, Deletes
<1>2. ASSUME NEW d \in Databases, Taken(d)
      PROVE  Live(d) /\ d \in used /\ ~Live(d)'
  <2>1. Exists(d) /\ rows[d] \in Row
    BY <1>2 DEF Taken, Live, Has, TypeInv, RowsOK, Exists
  <2>2. rows'[d].status = "deleting"
    BY <1>2, <2>1 DEF Taken, Row
  <2>. QED BY <1>2, <2>1, <2>2 DEF Taken, Live, Has, TypeInv, RowsOK
<1>3. ASSUME NEW p \in Procs, NEW d \in Databases, Deletes(p, d)'
      PROVE  d \in used' /\ (Live(d)' => d \in overwritten')
  <2>1. CASE Deletes(p, d)
    <3>1. Deletes(m, d) /\ ~Deletes(m, d)' => d \in overwritten
      BY <1>3, <2>1 DEF DeletersExclude
    <3>. QED BY <2>1, <3>1 DEF ClaimsInv, ClaimsMove, ClaimStep, Grows
  <2>2. CASE ~Deletes(p, d)
    BY <1>1, <1>2, <1>3, <2>2 DEF ClaimsMove, ClaimStep, Grows
  <2>. QED BY <2>1, <2>2
<1>4. ASSUME NEW p \in Procs, NEW q \in Procs \ {m}, NEW d \in Databases,
             Deletes(p, d)', Deletes(q, d)', p # q
      PROVE  d \in overwritten'
  <2>1. Deletes(q, d)
    BY <1>1, <1>4
  <2>2. CASE Deletes(p, d)
    BY <1>4, <2>1, <2>2 DEF DeletersExclude, ClaimsMove, Grows
  <2>3. CASE ~Deletes(p, d)
    <3>1. Taken(d)
      BY <1>1, <1>4, <2>3 DEF ClaimsMove, ClaimStep
    <3>. QED BY <1>2, <2>1, <3>1 DEF ClaimsInv, ClaimsMove, Grows
  <2>. QED BY <2>2, <2>3
<1>. QED BY <1>3, <1>4 DEF ClaimsInv, DeletersExclude

LEMMA OwnedStep ==
  ASSUME TypeInv, DeletionsOwned, NEW m \in Procs, ClaimsMove(m)
  PROVE  DeletionsOwned'
<1>. SUFFICES ASSUME NEW d \in Databases, Hidden(d)'
              PROVE  d \in stranded' \/ \E p \in Procs : Deletes(p, d)'
  BY DEF DeletionsOwned, Hidden
<1>1. CASE Deletes(m, d)'
  BY <1>1
<1>2. CASE ~Deletes(m, d)'
  <2>1. Hidden(d) /\ (Deletes(m, d) => d \in stranded')
    BY <1>2 DEF ClaimsMove, ClaimStep
  <2>2. CASE d \in stranded
    BY <2>2 DEF ClaimsMove, Grows
  <2>3. ASSUME NEW p \in Procs, Deletes(p, d), p # m PROVE Deletes(p, d)'
    BY <2>3 DEF ClaimsMove, Others, Deletes
  <2>. QED BY <2>1, <2>2, <2>3 DEF DeletionsOwned, Hidden
<1>. QED BY <1>1, <1>2

LEMMA ClaimsInit == Init => ClaimsInv /\ DeletersExclude /\ DeletionsOwned
BY DEF Init, ClaimsInv, DeletersExclude, DeletionsOwned, Deletes, Has, Exists

\* Two requests delete one database at the same time only if a status was
\* written over the first claim (claimForDelete, persistStatus).
THEOREM DeletersExcludeAlways == Spec => []DeletersExclude
<1>1. TypeInv /\ ClaimsInv /\ DeletersExclude /\ [Next]_vars => ClaimsInv' /\ DeletersExclude'
  <2>1. ASSUME ClaimsInv, DeletersExclude, UNCHANGED vars PROVE ClaimsInv' /\ DeletersExclude'
    BY <2>1 DEF vars, table, history, ClaimsInv, DeletersExclude, Deletes, Live, Has, Exists
  <2>. QED BY <2>1, ClaimsStep, ClaimsInvStep
<1>. QED BY <1>1, ClaimsInit, InitOK, StepOK, PTL DEF Spec

\* A database stays hidden only while a request deletes it, or because that
\* request died (the catch block of deleteServerDatabase).
THEOREM DeletionsOwnedAlways == Spec => []DeletionsOwned
<1>1. TypeInv /\ DeletionsOwned /\ [Next]_vars => DeletionsOwned'
  <2>1. ASSUME DeletionsOwned, UNCHANGED vars PROVE DeletionsOwned'
    BY <2>1 DEF vars, table, history, DeletionsOwned, Deletes, Has, Exists
  <2>. QED BY <2>1, ClaimsStep, OwnedStep
<1>. QED BY <1>1, ClaimsInit, InitOK, StepOK, PTL DEF Spec

\* The four rules of the rows hold for any number of databases, servers, ports
\* and requests (reserveSql, claimForDelete, persistStatus).
THEOREM RowsSoundAlways == Spec => []RowsSound
<1>1. DeletersExclude /\ UniquePorts /\ QuotaKept /\ DeletionsOwned => RowsSound
  BY DEF RowsSound
<1>. QED BY <1>1, DeletersExcludeAlways, UniquePortsAlways, QuotaKeptAlways, DeletionsOwnedAlways, PTL

-----------------------------------------------------------------------------
(* Containers and rows.  A row and its container change in separate        *)
(* awaits, so between the two the request at work answers for the          *)
(* difference: a creation for a row without a container, a deletion that   *)
(* the agent has confirmed for a row about to go.                          *)

Point(p, d, points) == proc[p] # None /\ proc[p].d = d /\ proc[p].pc \in points
Active == CreatePoints \cup DeletePoints \cup {"power"}
Unmade == {"create", "release"}
Works == {"persist"} \cup DeletePoints

\* The row of d, if there is one, has its container, or somebody is about to
\* remove the row, or the history says what became of the container.
Made(d) ==
  \/ ~Exists(d) \/ container[d]
  \/ d \in untracked \cup emptied \cup stranded
  \/ \E q \in Procs : Point(q, d, {"deleteRow"})

NeverReused(d) ==
  /\ d \in untracked => d \in used
  /\ \A p \in Procs : Point(p, d, Active) => d \in used

\* A creation that has no container yet works alone, unless somebody claimed
\* its row.
CreatesAlone(d) ==
  /\ \A p \in Procs : Point(p, d, Unmade) =>
       d \in untracked \/ (Has(d, {"provisioning"}) /\ ~container[d])
  /\ \A p, q \in Procs : Point(p, d, Unmade) /\ Point(q, d, Unmade \cup Works) =>
       p = q \/ d \in untracked

RowMade(d) ==
  /\ Has(d, Settled \cup {"deleting"}) => Made(d)
  /\ \A p \in Procs : Point(p, d, Works) => Made(d)

Tracked(d) ==
  /\ container[d] => Exists(d) \/ d \in untracked
  /\ \A p \in Procs : Point(p, d, {"deleteRow"}) => d \in untracked \/ ~container[d]

Matched(d) == NeverReused(d) /\ CreatesAlone(d) /\ RowMade(d) /\ Tracked(d)

LEMMA MatchedImplies ==
  ASSUME TypeInv, \A d \in Databases : Matched(d)
  PROVE  ContainersMatch
BY DEF ContainersMatch, NoOrphanContainer, SettledHaveContainers, Matched, Tracked, RowMade,
   Made, Point, Deletes, DeletePoints, Has

-----------------------------------------------------------------------------
(* What a step of request p may do to one database.                        *)

Remembers ==
  /\ used \subseteq used' /\ untracked \subseteq untracked'
  /\ emptied \subseteq emptied' /\ stranded \subseteq stranded'
SameContainer(d) == container'[d] = container[d]
Leaves(p, d) == ~Point(p, d, Active)'
Moves(p, d, from, to) == Point(p, d, {from}) /\ Point(p, d, {to})'
RowBecomes(d, statuses) == Has(d, statuses)' \/ ~Exists(d)'

\* Nothing happens to d, and p takes up no new work on it.
Apart(p, d) ==
  /\ Same(d) /\ SameContainer(d)
  /\ Point(p, d, Unmade \cup Works)' => \E point \in Unmade \cup Works : Moves(p, d, point, point)
  /\ Point(p, d, Active)' => d \in used'
  /\ Point(p, d, {"deleteRow"}) => Point(p, d, {"deleteRow"})' \/ d \in stranded'
  /\ d \in untracked' => d \in untracked
Forgotten(p, d) ==
  /\ Dropped(d) /\ SameContainer(d) /\ ~Point(p, d, Unmade \cup Works)'
  /\ (Exists(d) => d \in untracked') /\ (d \in untracked' => d \in used)
  /\ Point(p, d, Active)' => d \in used'
CreationStep(p, d) ==
  \/ /\ d \notin used /\ d \in used' /\ Has(d, {"provisioning"})' /\ SameContainer(d)
     /\ Point(p, d, {"create"})' /\ untracked' = untracked
  \/ /\ Same(d) /\ Moves(p, d, "create", "persist") /\ container'[d]
     /\ d \in untracked' => d \in untracked
  \/ /\ Same(d) /\ Moves(p, d, "create", "release")
     /\ SameContainer(d) \/ d \in untracked'
  \/ /\ Point(p, d, {"release"}) /\ Leaves(p, d) /\ SameContainer(d)
     /\ IF Has(d, {"provisioning"}) THEN Dropped(d) ELSE Same(d)
     /\ untracked' = untracked
WriteStep(p, d) ==
  /\ SameContainer(d) /\ untracked' = untracked
  /\ \/ Same(d) /\ container[d] /\ Moves(p, d, "power", "persist")
     \/ /\ Point(p, d, {"persist", "undo"}) /\ Leaves(p, d)
        /\ IF Exists(d) THEN Has(d, Settled)' ELSE Same(d)
DeletionStep(p, d) ==
  \/ /\ Live(d) /\ Has(d, {"deleting"})' /\ Point(p, d, {"agentDelete"})' /\ SameContainer(d)
     /\ ~Point(p, d, {"deleteRow"})
     /\ IF Has(d, {"provisioning"}) THEN d \in untracked' ELSE untracked' = untracked
  \/ /\ Same(d) /\ Moves(p, d, "agentDelete", "deleteRow") /\ ~container'[d]
     /\ untracked' = untracked
  \/ /\ Same(d) /\ Moves(p, d, "agentDelete", "undo")
     /\ SameContainer(d) \/ (~container'[d] /\ d \in emptied')
     /\ untracked' = untracked
  \/ /\ Point(p, d, {"deleteRow"}) /\ Leaves(p, d) /\ Dropped(d) /\ SameContainer(d)
     /\ untracked' = untracked

MatchMove(p) ==
  /\ Others(p) /\ Remembers
  /\ \A d \in Databases :
       Apart(p, d) \/ Forgotten(p, d) \/ CreationStep(p, d) \/ WriteStep(p, d)
         \/ DeletionStep(p, d)

LEMMA PointsOK == Unmade \cup Works \subseteq Active
BY DEF Unmade, Works, Active, CreatePoints, DeletePoints

\* Once made, always made: the ids of databases are never used twice.
LEMMA MadeStays ==
  ASSUME TypeInv, NEW m \in Procs, MatchMove(m), NEW d \in Databases,
         Matched(d), Made(d), d \in used
  PROVE  Made(d)'
<1>. USE DEF MatchMove, Remembers
<1>1. ASSUME NEW q \in Procs \ {m} PROVE \A points : Point(q, d, points)' <=> Point(q, d, points)
  BY DEF Others, Point
<1>2. CASE d \in untracked' \cup emptied' \cup stranded'
  BY <1>2 DEF Made
<1>3. CASE ~Exists(d)'
  BY <1>3 DEF Made
<1>4. ASSUME d \notin untracked' \cup emptied' \cup stranded', Exists(d)'
      PROVE  Made(d)'
  <2>1. d \notin untracked \cup emptied \cup stranded
    BY <1>4
  <2>2. CASE Apart(m, d)
    <3>1. Point(m, d, {"deleteRow"}) => Point(m, d, {"deleteRow"})'
      BY <1>4, <2>2 DEF Apart
    <3>. QED BY <1>1, <1>4, <2>1, <2>2, <3>1 DEF Apart, Made, Same, SameContainer, Exists
  <2>3. CASE Forgotten(m, d)
    BY <1>4, <2>3 DEF Forgotten, Dropped, Exists
  <2>4. CASE CreationStep(m, d)
    <3>1. ~Point(m, d, {"deleteRow"})
      BY <2>4 DEF CreationStep, Moves, Point, Matched, NeverReused, DeletePoints, Active
    <3>2. Exists(d)
      BY <1>4, <2>4 DEF CreationStep, Same, Dropped, Exists, Has
    <3>. QED BY <1>1, <1>4, <2>1, <2>4, <3>1, <3>2 DEF CreationStep, Made, SameContainer
  <2>5. CASE WriteStep(m, d)
    <3>1. ~Point(m, d, {"deleteRow"})
      BY <2>5 DEF WriteStep, Moves, Point
    <3>2. Exists(d)
      BY <1>4, <2>5 DEF WriteStep, Same, Exists
    <3>. QED BY <1>1, <1>4, <2>1, <2>5, <3>1, <3>2 DEF WriteStep, Made, SameContainer
  <2>6. CASE DeletionStep(m, d)
    <3>1. CASE Point(m, d, {"deleteRow"})
      BY <1>4, <2>6, <3>1 DEF DeletionStep, Moves, Point, Dropped, Exists
    <3>2. CASE ~Point(m, d, {"deleteRow"})
      <4>1. Exists(d)
        BY <1>4, <2>6, <3>2 DEF DeletionStep, Same, Exists, Live, Has
      <4>2. container[d] => container'[d] \/ Point(m, d, {"deleteRow"})'
        BY <1>4, <2>6, <3>2 DEF DeletionStep, SameContainer, Moves
      <4>. QED BY <1>1, <1>4, <2>1, <3>2, <4>1, <4>2 DEF Made
    <3>. QED BY <3>1, <3>2
  <2>. QED BY <2>2, <2>3, <2>4, <2>5, <2>6
<1>. QED BY <1>2, <1>3, <1>4

LEMMA NeverReusedStep ==
  ASSUME TypeInv, NEW m \in Procs, MatchMove(m), NEW d \in Databases, Matched(d)
  PROVE  NeverReused(d)'
<1>. USE DEF MatchMove, Remembers
<1>1. ASSUME NEW q \in Procs \ {m} PROVE \A points : Point(q, d, points)' <=> Point(q, d, points)
  BY DEF Others, Point
<1>2. \A points : points \subseteq Active /\ Point(m, d, points) => Point(m, d, Active)
  BY DEF Point
<1>3. Point(m, d, Active) \/ d \in untracked \/ Live(d) => d \in used
  BY DEF Matched, NeverReused, Live, Has, TypeInv, RowsOK
<1>4. Point(m, d, Active)' => d \in used'
  BY <1>2, <1>3
     DEF Apart, Forgotten, CreationStep, WriteStep, DeletionStep, Moves, Leaves, Active,
         CreatePoints, DeletePoints
<1>5. d \in untracked' => d \in used'
  BY <1>2, <1>3
     DEF Apart, Forgotten, CreationStep, WriteStep, DeletionStep, Moves, Leaves, Active,
         CreatePoints, DeletePoints
<1>. QED BY <1>1, <1>4, <1>5 DEF Matched, NeverReused

LEMMA CreatesAloneStep ==
  ASSUME TypeInv, NEW m \in Procs, MatchMove(m), NEW d \in Databases, Matched(d)
  PROVE  CreatesAlone(d)'
<1>. USE DEF MatchMove, Remembers
<1>1. ASSUME NEW q \in Procs \ {m} PROVE \A points : Point(q, d, points)' <=> Point(q, d, points)
  BY DEF Others, Point
<1>2. CASE d \in untracked'
  BY <1>2 DEF CreatesAlone
<1>3. CASE d \notin untracked'
  <2>1. d \notin untracked
    BY <1>3
  <2>2. ASSUME NEW q \in Procs, Point(q, d, Unmade \cup Works) PROVE d \in used
    BY <2>2, PointsOK DEF Matched, NeverReused, Point
  <2>3. ASSUME NEW q \in Procs \ {m}, Point(q, d, Unmade)
        PROVE  /\ Has(d, {"provisioning"})' /\ ~container'[d]
               /\ ~Point(m, d, Unmade \cup Works)'
    <3>1. Has(d, {"provisioning"}) /\ ~container[d] /\ ~Point(m, d, Unmade \cup Works)
      BY <2>1, <2>3 DEF Matched, CreatesAlone, Point, Unmade
    <3>2. d \in used
      BY <2>2, <2>3 DEF Point
    <3>3. Exists(d)
      BY <3>1 DEF Has
    <3>4. Apart(m, d)
      BY <1>3, <3>1, <3>2, <3>3
         DEF Forgotten, CreationStep, WriteStep, DeletionStep, Moves, Point, Unmade, Works,
             DeletePoints
    <3>. QED BY <3>1, <3>4 DEF Apart, Same, SameContainer, Has, Exists, Moves, Point
  <2>4. ASSUME Point(m, d, Unmade)'
        PROVE  /\ Has(d, {"provisioning"})' /\ ~container'[d]
               /\ \A q \in Procs \ {m} : ~Point(q, d, Unmade \cup Works)
    <3>1. CASE Point(m, d, Unmade)
      <4>1. /\ Has(d, {"provisioning"}) /\ ~container[d]
            /\ \A q \in Procs \ {m} : ~Point(q, d, Unmade \cup Works)
        BY <2>1, <3>1 DEF Matched, CreatesAlone
      <4>2. Same(d) /\ SameContainer(d)
        BY <1>3, <2>2, <2>4, <3>1
           DEF Apart, Forgotten, CreationStep, WriteStep, DeletionStep, Moves, Leaves, Point,
               Unmade, Works, DeletePoints, Active, CreatePoints
      <4>. QED BY <4>1, <4>2 DEF Same, SameContainer, Has, Exists
    <3>2. CASE ~Point(m, d, Unmade)
      <4>1. d \notin used /\ Has(d, {"provisioning"})' /\ SameContainer(d)
        BY <2>4, <3>2
           DEF Apart, Forgotten, CreationStep, WriteStep, DeletionStep, Moves, Leaves, Point,
               Unmade, Works, DeletePoints, Active, CreatePoints
      <4>2. ~container[d]
        BY <2>1, <4>1 DEF Matched, Tracked, TypeInv, RowsOK
      <4>. QED BY <2>2, <4>1, <4>2 DEF SameContainer
    <3>. QED BY <3>1, <3>2
  <2>5. ASSUME NEW p \in Procs \ {m}, NEW q \in Procs \ {m},
               Point(p, d, Unmade)', Point(q, d, Unmade \cup Works)'
        PROVE  p = q
    BY <1>1, <2>1, <2>5 DEF Matched, CreatesAlone
  <2>6. Point(m, d, Unmade)' => Point(m, d, Unmade \cup Works)'
    BY DEF Point
  <2>. QED BY <1>1, <2>3, <2>4, <2>5, <2>6 DEF CreatesAlone
<1>. QED BY <1>2, <1>3

LEMMA RowMadeStep ==
  ASSUME TypeInv, NEW m \in Procs, MatchMove(m), NEW d \in Databases, Matched(d)
  PROVE  RowMade(d)'
<1>. USE DEF MatchMove, Remembers
<1>1. ASSUME NEW q \in Procs \ {m} PROVE \A points : Point(q, d, points)' <=> Point(q, d, points)
  BY DEF Others, Point
<1>2. ASSUME NEW q \in Procs, Point(q, d, Unmade \cup Works) PROVE d \in used
  BY <1>2, PointsOK DEF Matched, NeverReused, Point
<1>3. d \in used /\ Made(d) => Made(d)'
  BY MadeStays
<1>4. ASSUME NEW q \in Procs, Point(q, d, Works) PROVE Made(d)'
  BY <1>2, <1>3, <1>4 DEF Matched, RowMade, Point
<1>5. ASSUME Has(d, Settled \cup {"deleting"}) PROVE Made(d)'
  BY <1>3, <1>5 DEF Matched, RowMade, Has, TypeInv, RowsOK
<1>6. ASSUME NEW q \in Procs \ {m}, Point(q, d, Works)' PROVE Made(d)'
  BY <1>1, <1>4, <1>6
<1>7. ASSUME Has(d, Settled \cup {"deleting"})' \/ Point(m, d, Works)', d \notin untracked'
      PROVE  Made(d)'
  <2>1. CASE Apart(m, d)
    BY <1>4, <1>5, <1>7, <2>1 DEF Apart, Same, Has, Exists, Moves, Point, Unmade, Works, DeletePoints
  <2>2. CASE Forgotten(m, d)
    BY <2>2 DEF Forgotten, Dropped, Made, Exists
  <2>3. CASE CreationStep(m, d)
    BY <1>5, <1>7, <2>3
       DEF CreationStep, Made, Same, Dropped, Has, Exists, Moves, Leaves, Point, Settled, Works,
           DeletePoints, Active, CreatePoints
  <2>4. CASE WriteStep(m, d)
    <3>1. CASE container[d] /\ SameContainer(d)
      BY <3>1 DEF Made, SameContainer
    <3>2. CASE Point(m, d, {"persist", "undo"})
      BY <1>4, <3>2 DEF Point, Works, DeletePoints
    <3>. QED BY <2>4, <3>1, <3>2 DEF WriteStep
  <2>5. CASE DeletionStep(m, d)
    <3>1. CASE Live(d) /\ ~Has(d, {"provisioning"})
      <4>1. Has(d, Settled \cup {"deleting"})
        BY <3>1 DEF Live, Has, Statuses
      <4>. QED BY <1>5, <4>1
    <3>2. CASE Point(m, d, Works)
      BY <1>4, <3>2
    <3>. QED BY <1>7, <2>5, <3>1, <3>2 DEF DeletionStep, Moves, Point, Works, DeletePoints
  <2>. QED BY <2>1, <2>2, <2>3, <2>4, <2>5
<1>8. CASE d \in untracked'
  BY <1>8 DEF RowMade, Made
<1>. QED BY <1>6, <1>7, <1>8 DEF RowMade

LEMMA TrackedStep ==
  ASSUME TypeInv, NEW m \in Procs, MatchMove(m), NEW d \in Databases, Matched(d)
  PROVE  Tracked(d)'
<1>. USE DEF MatchMove, Remembers
<1>1. ASSUME NEW q \in Procs \ {m} PROVE \A points : Point(q, d, points)' <=> Point(q, d, points)
  BY DEF Others, Point
<1>2. CASE d \in untracked'
  BY <1>2 DEF Tracked
<1>3. ASSUME d \notin untracked'
      PROVE  Tracked(d)'
  <2>1. d \notin untracked
    BY <1>3
  <2>2. ASSUME NEW q \in Procs, Point(q, d, {"deleteRow"}) PROVE ~container[d] /\ ~Point(m, d, {"create"})
    BY <2>1, <2>2 DEF Matched, Tracked, CreatesAlone, Point, Unmade, Works, DeletePoints
  <2>3. container'[d] => container[d] \/ Point(m, d, {"create"})
    BY <1>3 DEF Apart, Forgotten, CreationStep, WriteStep, DeletionStep, SameContainer, Moves
  <2>4. Point(m, d, {"deleteRow"})' => ~container'[d]
    <3>1. Point(m, d, {"deleteRow"})' => Point(m, d, {"deleteRow"}) \/ ~container'[d]
      BY DEF Apart, Forgotten, CreationStep, WriteStep, DeletionStep, Moves, Leaves, Point, Unmade,
             Works, DeletePoints, Active, CreatePoints
    <3>. QED BY <2>2, <2>3, <3>1
  <2>5. container'[d] => Exists(d)'
    <3>1. CASE Point(m, d, {"create"})
      <4>1. Has(d, {"provisioning"})
        BY <2>1, <3>1 DEF Matched, CreatesAlone, Point, Unmade
      <4>2. Same(d) \/ d \notin used
        BY <1>3, <3>1, <4>1 DEF Apart, Forgotten, CreationStep, WriteStep, DeletionStep, Moves,
           Point, Has
      <4>. QED BY <4>1, <4>2 DEF Same, Has, Exists, TypeInv, RowsOK
    <3>2. CASE ~Point(m, d, {"create"})
      <4>1. SUFFICES ASSUME container'[d] PROVE Exists(d)'
        OBVIOUS
      <4>2. container[d] /\ Exists(d)
        BY <2>1, <2>3, <3>2, <4>1 DEF Matched, Tracked
      <4>3. ~Point(m, d, {"release", "deleteRow"})
        BY <2>1, <4>2 DEF Matched, Tracked, CreatesAlone, Point, Unmade
      <4>. QED BY <1>3, <4>2, <4>3 DEF Apart, Forgotten, CreationStep, WriteStep, DeletionStep,
             Moves, Point, Same, Exists, Has, TypeInv, RowsOK
    <3>. QED BY <3>1, <3>2
  <2>6. ASSUME NEW q \in Procs, Point(q, d, {"deleteRow"})' PROVE ~container'[d]
    BY <1>1, <2>2, <2>3, <2>4, <2>6
  <2>. QED BY <2>5, <2>6 DEF Tracked
<1>. QED BY <1>2, <1>3

-----------------------------------------------------------------------------
(* Every action makes such a step.                                         *)

LEMMA BecomePoint ==
  ASSUME ProcOK, NEW p \in Procs, NEW r \in Request, Become(p, r)
  PROVE  Others(p) /\ \A d, points : Point(p, d, points)' <=> r.d = d /\ r.pc \in points
BY BecomeMoves, DatabasesAssumption DEF Point

LEMMA GotoPoint ==
  ASSUME ProcOK, NEW p \in Procs, proc[p] # None, NEW point \in Points, Goto(p, point)
  PROVE  Others(p) /\ \A d, points : Point(p, d, points)' <=> proc[p].d = d /\ point \in points
BY GotoMoves DEF Point

LEMMA LeavePoint ==
  ASSUME ProcOK, NEW p \in Procs, proc[p] # None, Continue(p) \/ Throw(p) \/ Done(p)
  PROVE  Others(p) /\ \A d \in Databases : \A points : ~Point(p, d, points)'
<1>1. ASSUME NEW point \in {"next", "restoreServer"}, Back(p, point)
      PROVE  Others(p) /\ \A d \in Databases : \A points : ~Point(p, d, points)'
  <2>. DEFINE r == [proc[p] EXCEPT !.pc = point, !.d = None]
  <2>1. PICK c \in Request : c.d = None /\ Become(p, c)
    <3>1. r \in Request /\ r.d = None
      BY DEF ProcOK, Request, Points
    <3>. QED BY <1>1, <3>1 DEF Back
  <2>. QED BY <2>1, BecomePoint, DatabasesAssumption
<1>2. CASE Done(p)
  BY <1>2, DoneMoves DEF Point
<1>. QED BY <1>1, <1>2 DEF Continue, Throw

\* Where a request is at the points that name a database.
LEMMA HerePoint ==
  ASSUME TypeInv, NEW p \in Procs, NEW point \in Points \ LoopPoints, At(p, point)
  PROVE  /\ proc[p] # None /\ proc[p].d \in Databases
         /\ \A d, points : Point(p, d, points) <=> proc[p].d = d /\ point \in points
BY DEF At, TypeInv, RestOK, AtHand, Point

\* A step that touches neither rows nor containers, and after which p works on
\* nothing.
LEMMA ApartStep ==
  ASSUME TypeInv, NEW p \in Procs, Others(p), Remembers,
         UNCHANGED <<rows, container, untracked>>,
         \A d \in Databases :
           /\ ~Point(p, d, Unmade \cup Works)'
           /\ Point(p, d, Active)' => d \in used'
           /\ Point(p, d, {"deleteRow"}) => d \in stranded'
  PROVE  MatchMove(p)
BY DEF MatchMove, Apart, Same, SameContainer

\* A step that leaves every database but the one at hand apart.
LEMMA OneStep ==
  ASSUME TypeInv, NEW p \in Procs, Others(p), Remembers, NEW d \in Databases,
         CreationStep(p, d) \/ WriteStep(p, d) \/ DeletionStep(p, d),
         \A e \in Databases \ {d} :
           /\ Same(e) /\ SameContainer(e)
           /\ ~Point(p, e, Active)' /\ ~Point(p, e, Active)
           /\ e \in untracked' => e \in untracked
  PROVE  MatchMove(p)
<1>1. ASSUME NEW e \in Databases \ {d} PROVE Apart(p, e)
  <2>1. ~Point(p, e, Unmade \cup Works)' /\ ~Point(p, e, {"deleteRow"})
    BY PointsOK DEF Point, Works, DeletePoints
  <2>. QED BY <2>1 DEF Apart
<1>. QED BY <1>1 DEF MatchMove

LEMMA CreateMatches ==
  ASSUME TypeInv, NEW p \in Procs, NEW d \in Databases, NEW s \in Servers,
         CreateServerDatabase(p, d, s)
  PROVE  MatchMove(p)
<1>. DEFINE r == [op |-> "create", pc |-> "create", s |-> s, d |-> d, todo |-> {},
                  status |-> "created"]
<1>1. r \in Request /\ proc[p] = None /\ ProcOK
  BY DEF Request, Ops, Points, CreatePoints, Settled, CreateServerDatabase, TypeInv, RestOK
<1>2. Others(p) /\ \A e, points : Point(p, e, points)' <=> e = d /\ "create" \in points
  BY <1>1, BecomePoint DEF CreateServerDatabase
<1>3. PICK port \in Ports :
        rows' = [rows EXCEPT ![d] = [owner |-> s, port |-> port, status |-> "provisioning"]]
  BY DEF CreateServerDatabase, ReserveSql
<1>4. /\ d \notin used /\ d \in used' /\ Has(d, {"provisioning"})'
      /\ \A e \in Databases \ {d} : Same(e)
  <2>1. [owner |-> s, port |-> port, status |-> "provisioning"] \in Row
    BY DEF Row, Statuses
  <2>. QED BY <1>3, <2>1, DatabasesAssumption
         DEF CreateServerDatabase, ReserveSql, TypeInv, RowsOK, Has, Exists, Same
<1>5. UNCHANGED <<container, untracked>> /\ Remembers
  BY DEF CreateServerDatabase, ReserveSql, agent, history, Remembers
<1>6. CreationStep(p, d)
  BY <1>2, <1>4, <1>5 DEF CreationStep, SameContainer
<1>7. \A e \in Databases \ {d} : ~Point(p, e, Active)
  BY <1>1 DEF Point
<1>. QED BY <1>2, <1>4, <1>5, <1>6, <1>7, OneStep DEF SameContainer

LEMMA AgentCreateMatches ==
  ASSUME TypeInv, NEW p \in Procs, AgentCreate(p)
  PROVE  MatchMove(p)
<1>1. PICK d \in Databases :
      /\ proc[p] # None /\ proc[p].d = d
      /\ \A e, points : Point(p, e, points) <=> d = e /\ "create" \in points
  BY HerePoint DEF AgentCreate, LoopPoints, Points, CreatePoints
<1>2. PICK outcome \in Outcomes :
        /\ AgentCall(d, outcome, TRUE)
        /\ Goto(p, IF outcome = "ok" THEN "persist" ELSE "release")
        /\ untracked' = IF outcome = "lost" THEN untracked \cup {d} ELSE untracked
  BY <1>1 DEF AgentCreate
<1>3. /\ Others(p)
      /\ \A e, points : Point(p, e, points)' <=>
           d = e /\ (IF outcome = "ok" THEN "persist" ELSE "release") \in points
  BY <1>1, <1>2, GotoPoint DEF TypeInv, RestOK, Points, CreatePoints
<1>4. /\ \A e \in Databases : Same(e)
      /\ \A e \in Databases \ {d} : SameContainer(e)
      /\ IF outcome \in {"ok", "lost"} THEN container'[d] ELSE SameContainer(d)
  BY <1>1, <1>2 DEF AgentCreate, table, Same, SameContainer, AgentCall, TypeInv, RestOK, AgentOK
<1>5. Remembers
  BY <1>2 DEF AgentCreate, table, Remembers
<1>6. CreationStep(p, d)
  BY <1>1, <1>2, <1>3, <1>4 DEF CreationStep, Moves
<1>. QED BY <1>1, <1>2, <1>3, <1>4, <1>5, <1>6, OneStep

\* A status written over whatever the row says.
LEMMA PersistMatches ==
  ASSUME TypeInv, NEW p \in Procs, Persist(p) \/ UndoDelete(p)
  PROVE  MatchMove(p)
<1>1. PICK d \in Databases :
      /\ proc[p] # None /\ proc[p].d = d /\ Point(p, d, {"persist", "undo"})
      /\ \A e, points : Point(p, e, points) => e = d
  BY HerePoint DEF Persist, UndoDelete, LoopPoints, Points, CreatePoints, DeletePoints, Point
<1>2. PICK status \in Settled : PersistStatus(d, status)
  BY <1>1 DEF Persist, UndoDelete, At, Settled, TypeInv, RestOK, ProcOK, Request
<1>3. Others(p) /\ \A e \in Databases : \A points : ~Point(p, e, points)'
  BY <1>1, LeavePoint DEF Persist, UndoDelete, TypeInv, RestOK
<1>4. UNCHANGED <<container, untracked>> /\ Remembers
  BY DEF Persist, UndoDelete, agent, Remembers
<1>5. \A e \in Databases \ {d} : Same(e)
  BY <1>1, <1>2 DEF PersistStatus, Same, TypeInv, RowsOK
<1>6. IF Exists(d) THEN Has(d, Settled)' ELSE Same(d)
  <2>1. CASE Exists(d)
    <3>1. rows[d] \in Row /\ rows'[d] = [rows[d] EXCEPT !.status = status]
      BY <1>1, <1>2, <2>1 DEF PersistStatus, TypeInv, RowsOK, Exists
    <3>2. rows'[d].status \in Settled /\ rows'[d] \in Row
      BY <3>1 DEF Row, Statuses
    <3>. QED BY <2>1, <3>2, DatabasesAssumption DEF Has, Exists
  <2>. QED BY <1>2, <2>1 DEF PersistStatus, Same
<1>7. WriteStep(p, d)
  BY <1>1, <1>3, <1>4, <1>6 DEF WriteStep, SameContainer, Leaves
<1>. QED BY <1>1, <1>3, <1>4, <1>5, <1>7, OneStep DEF SameContainer

LEMMA ReleaseMatches ==
  ASSUME TypeInv, NEW p \in Procs, ReleaseReservation(p)
  PROVE  MatchMove(p)
<1>1. PICK d \in Databases :
      /\ proc[p] # None /\ proc[p].d = d
      /\ \A e, points : Point(p, e, points) <=> d = e /\ "release" \in points
  BY HerePoint DEF ReleaseReservation, LoopPoints, Points, CreatePoints
<1>2. Others(p) /\ \A e \in Databases : \A points : ~Point(p, e, points)'
  BY <1>1, LeavePoint DEF ReleaseReservation, TypeInv, RestOK
<1>3. UNCHANGED <<container, untracked>> /\ Remembers
  BY DEF ReleaseReservation, agent, history, Remembers
<1>4. /\ \A e \in Databases \ {d} : Same(e)
      /\ IF Has(d, {"provisioning"}) THEN Dropped(d) ELSE Same(d)
  BY <1>1 DEF ReleaseReservation, DeleteRows, Same, Dropped
<1>5. CreationStep(p, d)
  BY <1>1, <1>2, <1>3, <1>4 DEF CreationStep, SameContainer, Leaves
<1>. QED BY <1>1, <1>2, <1>3, <1>4, <1>5, OneStep DEF SameContainer

\* A claim by a request that worked on nothing.
LEMMA ClaimedMatches ==
  ASSUME TypeInv, NEW p \in Procs, \A e \in Databases : ~Point(p, e, Active),
         NEW r \in Request, NEW d \in Databases, Claimed(p, r, d)
  PROVE  MatchMove(p)
<1>. DEFINE claimed == [r EXCEPT !.pc = "agentDelete", !.d = d]
<1>1. PICK c \in Request : c.d = d /\ c.pc = "agentDelete" /\ Become(p, c)
  <2>1. claimed \in Request /\ claimed.d = d /\ claimed.pc = "agentDelete"
    BY DEF Request, Points, DeletePoints
  <2>. QED BY <2>1 DEF Claimed
<1>2. Others(p) /\ \A e, points : Point(p, e, points)' <=> d = e /\ "agentDelete" \in points
  BY <1>1, BecomePoint DEF TypeInv, RestOK
<1>3. UNCHANGED container /\ Remembers
  BY DEF Claimed, agent, Remembers
<1>4. Live(d) /\ Has(d, {"deleting"})' /\ \A e \in Databases \ {d} : Same(e)
  <2>1. rows[d] \in Row /\ rows' = [rows EXCEPT ![d].status = "deleting"]
    BY DEF Claimed, ClaimForDelete, Live, Has, Exists, TypeInv, RowsOK
  <2>2. rows'[d] = [rows[d] EXCEPT !.status = "deleting"] /\ rows'[d] \in Row
    BY <2>1 DEF TypeInv, RowsOK, Row, Statuses
  <2>. QED BY <2>1, <2>2, DatabasesAssumption
         DEF Claimed, ClaimForDelete, Has, Exists, Same, Row, TypeInv, RowsOK
<1>5. ~Point(p, d, {"deleteRow"})
  BY DEF Point, Active, DeletePoints
<1>6. DeletionStep(p, d)
  BY <1>2, <1>3, <1>4, <1>5 DEF DeletionStep, SameContainer, Claimed
<1>. QED BY <1>2, <1>3, <1>4, <1>6, OneStep DEF SameContainer, Claimed

LEMMA DeleteMatches ==
  ASSUME TypeInv, NEW p \in Procs, NEW d \in Databases, DeleteServerDatabase(p, d)
  PROVE  MatchMove(p)
<1>. DEFINE r == [op |-> "delete", pc |-> "agentDelete", s |-> rows[d].owner,
                  d |-> d, todo |-> {}, status |-> "created"]
<1>1. rows[d] \in Row
  BY DEF DeleteServerDatabase, TypeInv, RowsOK, Exists
<1>2. r \in Request
  BY <1>1 DEF Request, Row, Ops, Points, DeletePoints, Settled
<1>. QED BY <1>2, ClaimedMatches DEF DeleteServerDatabase, Point

LEMMA AgentDeleteMatches ==
  ASSUME TypeInv, NEW p \in Procs, AgentDelete(p)
  PROVE  MatchMove(p)
<1>1. PICK d \in Databases :
      /\ proc[p] # None /\ proc[p].d = d
      /\ \A e, points : Point(p, e, points) <=> d = e /\ "agentDelete" \in points
  BY HerePoint DEF AgentDelete, LoopPoints, Points, DeletePoints
<1>2. PICK point \in {"deleteRow", "undo"} :
        /\ Goto(p, point)
        /\ point = "deleteRow" => ~container'[d]
        /\ SameContainer(d) \/ (~container'[d] /\ (point = "undo" => d \in emptied'))
        /\ \A e \in Databases \ {d} : SameContainer(e)
        /\ emptied \subseteq emptied'
  <2>1. ASSUME NEW outcome \in Outcomes, AgentCall(d, outcome, FALSE)
        PROVE  /\ IF outcome \in {"ok", "lost"} THEN ~container'[d] ELSE SameContainer(d)
               /\ \A e \in Databases \ {d} : SameContainer(e)
    BY <1>1, <2>1 DEF AgentCall, SameContainer, TypeInv, RestOK, AgentOK
  <2>2. ASSUME Refused(d) PROVE \A e \in Databases : SameContainer(e)
    BY <2>2 DEF Refused, agent, SameContainer
  <2>. QED BY <1>1, <2>1, <2>2 DEF AgentDelete, Outcomes
<1>3. Others(p) /\ \A e, points : Point(p, e, points)' <=> d = e /\ point \in points
  BY <1>1, <1>2, GotoPoint DEF TypeInv, RestOK, Points, DeletePoints
<1>4. UNCHANGED <<rows, untracked>> /\ Remembers
  BY <1>2 DEF AgentDelete, table, Remembers
<1>5. DeletionStep(p, d)
  BY <1>1, <1>2, <1>3, <1>4 DEF DeletionStep, Moves, Same
<1>. QED BY <1>1, <1>2, <1>3, <1>4, <1>5, OneStep DEF Same

LEMMA DeleteRowMatches ==
  ASSUME TypeInv, NEW p \in Procs, DeleteRow(p)
  PROVE  MatchMove(p)
<1>1. PICK d \in Databases :
      /\ proc[p] # None /\ proc[p].d = d
      /\ \A e, points : Point(p, e, points) <=> d = e /\ "deleteRow" \in points
  BY HerePoint DEF DeleteRow, LoopPoints, Points, DeletePoints
<1>2. Others(p) /\ \A e \in Databases : \A points : ~Point(p, e, points)'
  BY <1>1, LeavePoint DEF DeleteRow, TypeInv, RestOK
<1>3. UNCHANGED <<container, untracked>> /\ Remembers
  BY DEF DeleteRow, agent, history, Remembers
<1>4. Dropped(d) /\ \A e \in Databases \ {d} : Same(e)
  BY <1>1 DEF DeleteRow, DeleteRows, Same, Dropped
<1>5. DeletionStep(p, d)
  BY <1>1, <1>2, <1>3, <1>4 DEF DeletionStep, SameContainer, Leaves
<1>. QED BY <1>1, <1>2, <1>3, <1>4, <1>5, OneStep DEF SameContainer

LEMMA AgentPowerMatches ==
  ASSUME TypeInv, NEW p \in Procs, AgentPower(p)
  PROVE  MatchMove(p)
<1>1. PICK d \in Databases :
      /\ proc[p] # None /\ proc[p].d = d
      /\ \A e, points : Point(p, e, points) <=> d = e /\ "power" \in points
  BY HerePoint DEF AgentPower, LoopPoints, Points, CreatePoints, DeletePoints
<1>2. UNCHANGED <<rows, container, untracked>> /\ Remembers
  BY DEF AgentPower, table, history, Remembers
<1>3. CASE container[d] /\ Goto(p, "persist")
  <2>1. Others(p) /\ \A e, points : Point(p, e, points)' <=> d = e /\ "persist" \in points
    BY <1>1, <1>3, GotoPoint DEF TypeInv, RestOK, Points, CreatePoints
  <2>2. WriteStep(p, d)
    BY <1>1, <1>2, <1>3, <2>1 DEF WriteStep, Moves, Same, SameContainer
  <2>. QED BY <1>1, <1>2, <2>1, <2>2, OneStep DEF Same, SameContainer
<1>4. CASE Throw(p)
  <2>1. Others(p) /\ \A e \in Databases : \A points : ~Point(p, e, points)'
    BY <1>1, <1>4, LeavePoint DEF TypeInv, RestOK
  <2>. QED BY <1>1, <1>2, <2>1, ApartStep
<1>. QED BY <1>1, <1>3, <1>4 DEF AgentPower

\* A request that begins, or goes on, without touching a row or a container.
LEMMA PlainMatches ==
  ASSUME TypeInv, NEW p \in Procs, UNCHANGED <<table, container, history>>,
         proc[p] = None \/ proc[p].pc \in LoopPoints,
         \/ \E c \in Request : /\ Become(p, c) /\ c.pc \in LoopPoints \cup {"power"}
                               /\ c.pc = "power" => c.d \in used
         \/ /\ proc[p] # None
            /\ (\E point \in LoopPoints : Goto(p, point)) \/ Done(p) \/ Throw(p)
  PROVE  MatchMove(p)
<1>. USE DEF LoopPoints, Unmade, Works, Active, CreatePoints, DeletePoints
<1>1. UNCHANGED <<rows, container, untracked>> /\ Remembers /\ used' = used
  BY DEF table, history, Remembers
<1>2. ProcOK /\ \A d \in Databases : ~Point(p, d, {"deleteRow"})
  BY DEF Point, TypeInv, RestOK
<1>3. ASSUME NEW c \in Request, Become(p, c), c.pc \in LoopPoints \cup {"power"},
             c.pc = "power" => c.d \in used
      PROVE  MatchMove(p)
  <2>1. Others(p) /\ \A d, points : Point(p, d, points)' <=> c.d = d /\ c.pc \in points
    BY <1>2, <1>3, BecomePoint
  <2>. QED BY <1>1, <1>2, <1>3, <2>1, ApartStep
<1>4. ASSUME proc[p] # None, NEW point \in LoopPoints, Goto(p, point)
      PROVE  MatchMove(p)
  <2>1. Others(p) /\ \A d, points : Point(p, d, points)' <=> proc[p].d = d /\ point \in points
    BY <1>2, <1>4, GotoPoint DEF Points
  <2>. QED BY <1>1, <1>2, <2>1, ApartStep
<1>5. CASE proc[p] # None /\ (Done(p) \/ Throw(p))
  <2>1. Others(p) /\ \A d \in Databases : \A points : ~Point(p, d, points)'
    BY <1>2, <1>5, LeavePoint
  <2>. QED BY <1>1, <1>2, <2>1, ApartStep
<1>. QED BY <1>3, <1>4, <1>5

LEMMA ArriveMatches ==
  ASSUME TypeInv, NEW p \in Procs, Arrive(p)
  PROVE  MatchMove(p)
<1>1. ASSUME NEW d \in Databases, NEW status \in PowerStatuses,
             PowerServerDatabase(p, d, status)
      PROVE  MatchMove(p)
  <2>. DEFINE r == [op |-> "power", pc |-> "power", s |-> rows[d].owner, d |-> d,
                    todo |-> {}, status |-> status]
  <2>1. rows[d] \in Row /\ d \in used
    BY <1>1 DEF PowerServerDatabase, Live, Has, Exists, TypeInv, RowsOK
  <2>2. r \in Request
    BY <2>1, DatabasesAssumption DEF Request, Row, Ops, Points, Settled
  <2>. QED BY <1>1, <2>1, <2>2, PlainMatches DEF PowerServerDatabase, agent
<1>2. ASSUME NEW s \in Servers, NEW status \in PowerStatuses, PowerAllForServer(p, s, status)
      PROVE  MatchMove(p)
  <2>. DEFINE r == [op |-> "powerAll", pc |-> "list", s |-> s, d |-> None, todo |-> {},
                    status |-> status]
  <2>1. r \in Request
    BY DatabasesAssumption DEF Request, Ops, Points, Settled
  <2>. QED BY <1>2, <2>1, PlainMatches DEF PowerAllForServer, agent, LoopPoints
<1>3. ASSUME NEW s \in Servers, DeleteServer(p, s) PROVE MatchMove(p)
  <2>. DEFINE r == [op |-> "deleteAll", pc |-> "list", s |-> s, d |-> None, todo |-> {},
                    status |-> "created"]
  <2>1. r \in Request
    BY DEF Request, Ops, Points, Settled
  <2>. QED BY <1>3, <2>1, PlainMatches DEF DeleteServer, agent, LoopPoints
<1>4. ASSUME NEW s \in Servers, ForgetServer(p, s) PROVE MatchMove(p)
  <2>. DEFINE r == [op |-> "dropAll", pc |-> "dropRows", s |-> s, d |-> None, todo |-> {},
                    status |-> "created"]
  <2>1. r \in Request
    BY DEF Request, Ops, Points, Settled
  <2>. QED BY <1>4, <2>1, PlainMatches DEF ForgetServer, agent, LoopPoints
<1>. QED BY <1>1, <1>2, <1>3, <1>4, CreateMatches, DeleteMatches DEF Arrive

LEMMA ListMatches ==
  ASSUME TypeInv, NEW p \in Procs, ListServerDatabases(p)
  PROVE  MatchMove(p)
<1>. DEFINE r == [proc[p] EXCEPT !.pc = "next", !.todo = Listed(proc[p].s)]
<1>1. proc[p] \in Request /\ proc[p].pc \in LoopPoints
  BY DEF ListServerDatabases, At, TypeInv, RestOK, ProcOK, LoopPoints
<1>2. r \in Request /\ r.pc \in LoopPoints
  BY <1>1 DEF Request, Points, Listed, LoopPoints
<1>. QED BY <1>1, <1>2, PlainMatches DEF ListServerDatabases, agent, LoopPoints

LEMMA NextMatches ==
  ASSUME TypeInv, NEW p \in Procs, NextDatabase(p)
  PROVE  MatchMove(p)
<1>. DEFINE rest(d) == [proc[p] EXCEPT !.d = d, !.todo = @ \ {d}]
            same == UNCHANGED <<table, server, agent, history>>
<1>1. proc[p] # None /\ proc[p] \in Request /\ proc[p].pc \in LoopPoints
  BY DEF NextDatabase, At, TypeInv, RestOK, ProcOK, LoopPoints
<1>2. CASE same /\ (Goto(p, "removeServer") \/ Done(p) \/ Throw(p))
  BY <1>1, <1>2, PlainMatches DEF agent, LoopPoints
<1>3. ASSUME NEW d \in proc[p].todo, Claimed(p, rest(d), d)
      PROVE  MatchMove(p)
  <2>1. d \in Databases /\ rest(d) \in Request
    BY <1>1 DEF Request
  <2>2. \A e \in Databases : ~Point(p, e, Active)
    BY <1>1 DEF Point, LoopPoints, Active, CreatePoints, DeletePoints
  <2>. QED BY <1>3, <2>1, <2>2, ClaimedMatches
<1>4. ASSUME NEW d \in proc[p].todo, Live(d), same, Become(p, [rest(d) EXCEPT !.pc = "power"])
      PROVE  MatchMove(p)
  <2>. DEFINE r == [rest(d) EXCEPT !.pc = "power"]
  <2>1. r \in Request /\ r.pc = "power" /\ r.d = d
    BY <1>1 DEF Request, Points
  <2>2. d \in used
    BY <1>1, <1>4 DEF Request, Live, Has, TypeInv, RowsOK
  <2>. QED BY <1>1, <1>4, <2>1, <2>2, PlainMatches DEF agent
<1>. QED BY <1>2, <1>3, <1>4 DEF NextDatabase

\* Rows that go with their server take their containers out of sight.
LEMMA DropMatches ==
  ASSUME TypeInv, NEW p \in Procs, proc[p] # None, proc[p].pc \in LoopPoints,
         NEW ds, ds = Owned(proc[p].s), DeleteRows(ds), untracked' = untracked \cup ds,
         Goto(p, "removeServer") \/ Done(p),
         UNCHANGED <<used, container, undone, overwritten, emptied, stranded>>
  PROVE  MatchMove(p)
<1>. USE DEF LoopPoints, Unmade, Works, Active, CreatePoints, DeletePoints
<1>1. /\ Others(p) /\ Remembers
      /\ \A d \in Databases : ~Point(p, d, Active)' /\ ~Point(p, d, {"deleteRow"})
  <2>1. ProcOK /\ Remembers /\ \A d \in Databases : ~Point(p, d, {"deleteRow"})
    BY DEF Remembers, Point, TypeInv, RestOK
  <2>2. CASE Goto(p, "removeServer")
    BY <2>1, <2>2, GotoPoint DEF Points
  <2>3. CASE Done(p)
    BY <2>1, <2>3, LeavePoint
  <2>. QED BY <2>1, <2>2, <2>3
<1>2. \A d \in Databases : ~Point(p, d, Unmade \cup Works)'
  BY <1>1 DEF Point
<1>3. ASSUME NEW d \in Databases \ ds PROVE Apart(p, d)
  BY <1>1, <1>2 DEF Apart, Same, SameContainer, DeleteRows
<1>4. ASSUME NEW d \in Databases, d \in ds PROVE Forgotten(p, d)
  <2>1. Dropped(d) /\ d \in used
    BY <1>4 DEF Dropped, DeleteRows, Owned, TypeInv, RowsOK
  <2>. QED BY <1>1, <1>2, <1>4, <2>1 DEF Forgotten, SameContainer
<1>. QED BY <1>1, <1>3, <1>4 DEF MatchMove

LEMMA ServerMatches ==
  ASSUME TypeInv, NEW p \in Procs, DropRows(p) \/ RemoveServer(p) \/ RestoreServer(p)
  PROVE  MatchMove(p)
<1>1. proc[p] # None /\ proc[p].pc \in LoopPoints
  BY DEF DropRows, RemoveServer, RestoreServer, At, LoopPoints
<1>2. CASE DropRows(p)
  BY <1>1, <1>2, DropMatches DEF DropRows, agent
<1>3. CASE RemoveServer(p)
  <2>1. CASE DeleteRows(Owned(proc[p].s)) /\ untracked' = untracked \cup Owned(proc[p].s) /\ Done(p)
    BY <1>1, <1>3, <2>1, DropMatches DEF RemoveServer
  <2>2. CASE Goto(p, "restoreServer") /\ UNCHANGED <<rows, untracked>>
    BY <1>1, <1>3, <2>2, PlainMatches DEF RemoveServer, LoopPoints, table, history
  <2>. QED BY <1>3, <2>1, <2>2 DEF RemoveServer
<1>4. CASE RestoreServer(p)
  BY <1>1, <1>4, PlainMatches DEF RestoreServer, agent
<1>. QED BY <1>2, <1>3, <1>4

LEMMA CrashMatches ==
  ASSUME TypeInv, NEW p \in Procs, Crash(p)
  PROVE  MatchMove(p)
<1>1. Others(p) /\ \A d \in Databases : \A points : ~Point(p, d, points)'
  BY LeavePoint DEF Crash, TypeInv, RestOK
<1>2. UNCHANGED <<rows, container, untracked>> /\ Remembers
  BY DEF Crash, table, Remembers
<1>3. \A d \in Databases : Point(p, d, {"deleteRow"}) => d \in stranded'
  BY DEF Crash, Point, DeletePoints
<1>. QED BY <1>1, <1>2, <1>3, ApartStep

LEMMA MatchStep ==
  ASSUME TypeInv, [Next]_vars
  PROVE  (\E p \in Procs : MatchMove(p)) \/ UNCHANGED vars
<1>1. ASSUME NEW p \in Procs, Step(p) PROVE MatchMove(p)
  BY <1>1, AgentCreateMatches, PersistMatches, ReleaseMatches, AgentDeleteMatches,
     DeleteRowMatches, AgentPowerMatches, ListMatches, NextMatches, ServerMatches DEF Step
<1>. QED BY <1>1, ArriveMatches, CrashMatches DEF Next

\* A container without a row, or a settled row without its container, is never
\* the work of overlapping requests alone: an answer was lost, a request died,
\* or a row went without its agent being asked (createServerDatabase,
\* deleteServerDatabase, deleteAllForServer).
THEOREM ContainersMatchAlways == Spec => []ContainersMatch
<1>. DEFINE AllMatched == \A d \in Databases : Matched(d)
<1>1. Init => AllMatched
  BY DEF Init, Matched, NeverReused, CreatesAlone, RowMade, Tracked, Made, Point, Has, Exists
<1>2. TypeInv /\ AllMatched /\ [Next]_vars => AllMatched'
  <2>1. ASSUME AllMatched, UNCHANGED vars PROVE AllMatched'
    BY <2>1 DEF vars, table, agent, history, Matched, NeverReused, CreatesAlone, RowMade,
       Tracked, Made, Point, Has, Exists
  <2>2. ASSUME TypeInv, AllMatched, NEW p \in Procs, MatchMove(p) PROVE AllMatched'
    BY <2>2, NeverReusedStep, CreatesAloneStep, RowMadeStep, TrackedStep DEF Matched
  <2>. QED BY <2>1, <2>2, MatchStep
<1>3. TypeInv /\ AllMatched => ContainersMatch
  BY MatchedImplies
<1>. QED BY <1>1, <1>2, <1>3, InitOK, StepOK, PTL DEF Spec
=============================================================================
