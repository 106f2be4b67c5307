----------------------- MODULE ServerLifecycleProofs -----------------------
(***************************************************************************)
(* The claims of the registry, for every number of servers, nodes, ports   *)
(* and concurrent requests.                                                *)
(*                                                                         *)
(* The hypothesis Ordinary leaves out the two recovery flags of the delete *)
(* route and the notifications that fail inside a workflow.  Under it every *)
(* step of every handler is one of four moves on the locks of the table    *)
(* (Quiet, Takes, Frees, Drops), one lemma per action.  The invariants and *)
(* the refinement of ExclusiveRuntime follow from the moves alone, and     *)
(* with them that rows and containers go together.                         *)
(***************************************************************************)
EXTENDS ServerLifecycleTypes

Ordinary ==
  /\ Ops \cap {"forceDelete", "databaseOnlyDelete"} = {}
  /\ NotifyMayFail = FALSE

-----------------------------------------------------------------------------
(* Moves.                                                                  *)

LatePoints == {"lateCleanup", "lateRelease", "lateRestore"}

NoLate == \A p \in Procs : proc[p] # None => proc[p].pc \notin LatePoints

\* The claim a handler has at a point; Claim(p) is the claim of p's request.
ClaimAt(point) ==
  IF point \in ProvisioningPoints THEN "provisioning"
  ELSE IF point \in DeletingPoints THEN "deleting" ELSE "none"

Present(ns) == container[ns] # "none"

SamePresence == \A ns \in Nodes \X Servers : Present(ns)' <=> Present(ns)

TouchesOnly(s) ==
  \A ns \in Nodes \X Servers : ns[2] # s => (Present(ns)' <=> Present(ns))

\* p is the only request that moves, and not to a late clean-up.
Moves(p) ==
  /\ \A q \in Procs \ {p} : proc'[q] = proc[q]
  /\ proc'[p] # None => proc'[p].pc \notin LatePoints

\* p goes on with the claim it has, or without one.
Quiet(p) ==
  /\ SameLocks
  /\ Claim(p)' = Claim(p)
  /\ Claim(p) # "none" => proc'[p].s = proc[p].s
  /\ stranded \subseteq stranded'
  /\ \/ SamePresence
     \/ \E s \in Servers : Claim(p) # "none" /\ s = proc[p].s /\ TouchesOnly(s)

\* p closes the open lock of s.
Takes(p, s) ==
  /\ Claim(p) = "none" /\ Lock(s) = "none"
  /\ Claim(p)' # "none" /\ Lock(s)' = Claim(p)' /\ proc'[p].s = s
  /\ SameLocksExcept(s) /\ SamePresence
  /\ stranded \ {s} \subseteq stranded'

\* p opens the lock it holds.
Frees(p, s) ==
  /\ Claim(p) # "none" /\ proc[p].s = s
  /\ Claim(p)' = "none" /\ Lock(s)' = "none"
  /\ SameLocksExcept(s) /\ SamePresence
  /\ stranded \ {s} \subseteq stranded'

\* p leaves the lock it holds closed behind it.
Drops(p, s) ==
  /\ Claim(p) # "none" /\ proc[p].s = s
  /\ Claim(p)' = "none" /\ Lock(s)' # "none"
  /\ SameLocksExcept(s) /\ TouchesOnly(s)
  /\ stranded \cup {s} \subseteq stranded'

Move(p) ==
  /\ Moves(p)
  /\ Quiet(p) \/ \E s \in Servers : Takes(p, s) \/ Frees(p, s) \/ Drops(p, s)

\* What the lemmas below start from.
Inv == TypeInv /\ NoLate /\ ClaimsBacked

-----------------------------------------------------------------------------
(* Where a request goes, and what that does to its claim.                  *)

LEMMA NoneIdle == \A r \in Request : r # None
BY IdleAssumption

LEMMA GotoMoves ==
  ASSUME RequestsOK, NEW p \in Procs, proc[p] # None, NEW point \in Points,
         Goto(p, point), point \notin LatePoints
  PROVE  /\ Moves(p) /\ proc'[p].s = proc[p].s
         /\ Claim(p) = ClaimAt(proc[p].pc) /\ Claim(p)' = ClaimAt(point)
<1>1. proc' = [proc EXCEPT ![p] = [proc[p] EXCEPT !.pc = point]]
  BY DEF Goto
<1>2. [proc[p] EXCEPT !.pc = point] \in Request
  BY DEF RequestsOK, Request
<1>3. /\ proc'[p] = [proc[p] EXCEPT !.pc = point] /\ proc'[p] # None
      /\ \A q \in Procs \ {p} : proc'[q] = proc[q]
  BY <1>1, <1>2, NoneIdle DEF RequestsOK
<1>4. proc'[p].pc = point /\ proc'[p].s = proc[p].s
  BY <1>3 DEF RequestsOK, Request
<1>. QED BY <1>3, <1>4 DEF Moves, Claim, ClaimAt

LEMMA DoneMoves ==
  ASSUME RequestsOK, NEW p \in Procs, proc[p] # None, Done(p)
  PROVE  Moves(p) /\ Claim(p) = ClaimAt(proc[p].pc) /\ Claim(p)' = "none"
BY DEF RequestsOK, Done, Moves, Claim, ClaimAt

LEMMA BecomeMoves ==
  ASSUME RequestsOK, NEW p \in Procs, NEW r \in Request, r.pc \notin LatePoints,
         proc' = [proc EXCEPT ![p] = r]
  PROVE  Moves(p) /\ proc'[p] = r /\ Claim(p)' = ClaimAt(r.pc)
BY NoneIdle DEF RequestsOK, Moves, Claim, ClaimAt

LEMMA IdleClaim ==
  ASSUME NEW p \in Procs, proc[p] = None
  PROVE  Claim(p) = "none"
BY DEF Claim

\* A holder finds its own claim in the lock of its server.
LEMMA HolderLock ==
  ASSUME Inv, NEW p \in Procs, Claim(p) # "none"
  PROVE  /\ proc[p] # None /\ proc[p].s \in Servers
         /\ Lock(proc[p].s) = Claim(p) /\ HasStatus(proc[p].s, {Claim(p)})
         /\ Claim(p) = ClaimAt(proc[p].pc)
BY DEF Inv, TypeInv, RequestsOK, Request, ClaimsBacked, Claim, ClaimAt, Lock, HasStatus,
   Transitional

LEMMA SameContainers ==
  ASSUME UNCHANGED container
  PROVE  SamePresence
BY DEF SamePresence, Present

\* The shapes that most steps have: a step that only moves p, without a
\* claim before or after, or within the same claim.
LEMMA UnclaimedStep ==
  ASSUME TypeInv, NEW p \in Procs, Moves(p), SameLocks, SamePresence, UNCHANGED stranded,
         Claim(p) = "none", Claim(p)' = "none"
  PROVE  Move(p)
BY DEF Move, Quiet

LEMMA ClaimedStep ==
  ASSUME TypeInv, NEW p \in Procs, Moves(p), SameLocks, UNCHANGED stranded,
         proc'[p].s = proc[p].s, Claim(p)' = Claim(p),
         SamePresence \/ \E s \in Servers : Claim(p) # "none" /\ s = proc[p].s /\ TouchesOnly(s)
  PROVE  Move(p)
BY DEF Move, Quiet

\* An agent call of a holder touches its own server's containers only.
LEMMA AgentCallTouches ==
  ASSUME AgentsOK, NEW n \in Nodes, NEW s \in Servers, NEW outcome \in Outcomes,
         NEW state \in ContainerStates, AgentCall(n, s, outcome, state)
  PROVE  TouchesOnly(s)
<1>. SUFFICES ASSUME NEW ns \in Nodes \X Servers, ns[2] # s
     PROVE  container'[ns] = container[ns]
  BY DEF TouchesOnly, Present
<1>1. ns # <<n, s>>
  OBVIOUS
<1>. QED BY <1>1, AgentCallOK

LEMMA AgentPowerTouches ==
  ASSUME AgentsOK, NEW r \in Request, r.snap \in Row, NEW outcome \in Outcomes,
         NEW state \in {"stopped", "running"}, AgentPower(r, outcome, state)
  PROVE  SamePresence
BY AgentPowerOK DEF SamePresence, Present


LEMMA AssignPortsMove ==
  ASSUME Inv, Ordinary, NEW p \in Procs, AssignPorts(p)
  PROVE  Move(p)
<1>1. Moves(p) /\ proc'[p].s = proc[p].s /\ Claim(p)' = Claim(p)
  BY GotoMoves DEF Inv, TypeInv, AssignPorts, At, Points, ProvisioningPoints,
   DeletingPoints, OtherPoints, LatePoints, ClaimAt
<1>2. SameLocks /\ SamePresence /\ UNCHANGED stranded
  BY SameTable, SameContainers DEF Inv, TypeInv, TableOK, AssignPorts, agents, history
<1>. QED BY <1>1, <1>2, ClaimedStep DEF Inv

LEMMA ResolveEggMove ==
  ASSUME Inv, Ordinary, NEW p \in Procs, ResolveEgg(p)
  PROVE  Move(p)
<1>. USE DEF Inv, TypeInv
<1>1. SameLocks /\ SamePresence
  BY SameTable, SameContainers DEF TableOK, ResolveEgg, agents
<1>2. At(p, "resolve")
  BY DEF ResolveEgg
<1>3. Claim(p) = "provisioning"
  BY <1>2 DEF At, Claim, ProvisioningPoints
<1>4. CASE (Goto(p, "create") \/ Goto(p, "cleanup")) /\ UNCHANGED stranded
  <2>1. Moves(p) /\ proc'[p].s = proc[p].s /\ Claim(p)' = Claim(p)
    BY <1>2, <1>4, GotoMoves DEF At, Points, ProvisioningPoints,
   DeletingPoints, OtherPoints, LatePoints, ClaimAt
  <2>. QED BY <2>1, <1>1, <1>4, ClaimedStep
<1>5. CASE Done(p) /\ stranded' = stranded \cup {proc[p].s}
  <2>1. Moves(p) /\ Claim(p)' = "none"
    BY <1>2, <1>5, DoneMoves DEF At
  <2>2. PICK s \in Servers : s = proc[p].s /\ Lock(s) # "none"
    BY <1>3, HolderLock
  <2>3. Drops(p, s)
    BY <1>1, <1>3, <1>5, <2>1, <2>2 DEF Drops, SameLocks, SameLocksExcept, SamePresence,
       TouchesOnly
  <2>. QED BY <2>1, <2>3 DEF Move
<1>. QED BY <1>4, <1>5 DEF ResolveEgg

LEMMA CreateContainerMove ==
  ASSUME Inv, Ordinary, NEW p \in Procs, CreateContainer(p)
  PROVE  Move(p)
<1>. USE DEF Inv, TypeInv
<1>1. proc[p] # None /\ proc[p].pc = "create" /\ Claim(p) = "provisioning"
  BY DEF CreateContainer, At, NoLate, LatePoints, Claim, ProvisioningPoints
<1>2. PICK point \in {"recordRead", "finalize", "release", "cleanup"} : Goto(p, point)
  BY DEF CreateContainer
<1>3. Moves(p) /\ proc'[p].s = proc[p].s /\ Claim(p)' = Claim(p)
  BY <1>1, <1>2, GotoMoves DEF Points, ProvisioningPoints,
   DeletingPoints, OtherPoints, LatePoints, ClaimAt
<1>4. PICK n \in Nodes, s \in Servers, outcome \in Outcomes :
        s = proc[p].s /\ AgentCall(n, s, outcome, "stopped")
  BY <1>1 DEF CreateContainer, RequestsOK, WellFormed, Request, Row, ObservePoints
<1>5. TouchesOnly(s)
  BY <1>4, AgentCallTouches DEF ContainerStates
<1>6. SameLocks /\ UNCHANGED stranded
  BY SameTable DEF TableOK, CreateContainer, history
<1>. QED BY <1>1, <1>3, <1>4, <1>5, <1>6, ClaimedStep

LEMMA RecordReadMove ==
  ASSUME Inv, Ordinary, NEW p \in Procs, RecordRead(p)
  PROVE  Move(p)
<1>1. Moves(p) /\ proc'[p].s = proc[p].s /\ Claim(p)' = Claim(p)
  BY GotoMoves DEF Inv, TypeInv, RecordRead, At, Points, ProvisioningPoints,
   DeletingPoints, OtherPoints, LatePoints, ClaimAt
<1>2. SameLocks /\ SamePresence /\ UNCHANGED stranded
  BY SameTable, SameContainers DEF Inv, TypeInv, TableOK, RecordRead, agents, history
<1>. QED BY <1>1, <1>2, ClaimedStep DEF Inv

LEMMA FinalizeMove ==
  ASSUME Inv, Ordinary, NEW p \in Procs, Finalize(p)
  PROVE  Move(p)
<1>. USE DEF Inv, TypeInv
<1>1. proc[p] # None /\ proc[p].pc = "finalize" /\ Claim(p) = "provisioning"
  BY DEF Finalize, At, Claim, ProvisioningPoints
<1>2. PICK s \in Servers : s = proc[p].s /\ HasStatus(s, {"provisioning"})
  BY <1>1, HolderLock
<1>3. SamePresence /\ UNCHANGED stranded
  BY SameContainers DEF Finalize, history
<1>4. proc[p] \in Request /\ proc[p].snap \in Row
  BY <1>1 DEF RequestsOK, WellFormed, ObservePoints
<1>5. ASSUME NEW reported \in Ports \cup {None}, FinalizeProvisioning(s, reported),
             Goto(p, "notify") \/ Done(p)
      PROVE  Move(p)
  <2>1. Moves(p) /\ Claim(p)' = "none"
    BY <1>1, <1>5, GotoMoves, DoneMoves DEF Points, ProvisioningPoints,
     DeletingPoints, OtherPoints, LatePoints, ClaimAt
  <2>2. Frees(p, s)
    BY <1>1, <1>2, <1>3, <1>5, <2>1, FinalizeLocks DEF TableOK, Frees
  <2>. QED BY <2>1, <2>2 DEF Move
<1>6. CASE Goto(p, "cleanup") /\ UNCHANGED servers
  <2>1. Moves(p) /\ proc'[p].s = proc[p].s /\ Claim(p)' = Claim(p)
    BY <1>1, <1>6, GotoMoves DEF Points, ProvisioningPoints,
     DeletingPoints, OtherPoints, LatePoints, ClaimAt
  <2>. QED BY <1>3, <1>6, <2>1, SameTable, ClaimedStep DEF TableOK
<1>. QED BY <1>2, <1>4, <1>5, <1>6, FinalizeWrites

LEMMA RecordUpsertMove ==
  ASSUME Inv, Ordinary, NEW p \in Procs, RecordUpsert(p)
  PROVE  Move(p)
<1>. USE DEF Inv, TypeInv
<1>1. proc[p] # None /\ proc[p].pc = "recordUpsert" /\ Claim(p) = "provisioning"
  BY DEF RecordUpsert, At, Claim, ProvisioningPoints
<1>2. PICK s \in Servers : s = proc[p].s
  BY <1>1, HolderLock
<1>3. SamePresence /\ UNCHANGED stranded
  BY SameContainers DEF RecordUpsert, agents, history
<1>4. PICK row \in Row :
        /\ row.status = "created" /\ Upsert(s, row)
        /\ Goto(p, IF PortTaken(s, row.node, row.port) THEN "cleanup" ELSE "notify")
  BY <1>1, <1>2, RecordUpsertWrites DEF RequestsOK, WellFormed, ObservePoints
<1>5. CASE PortTaken(s, row.node, row.port)
  <2>1. UNCHANGED servers /\ Goto(p, "cleanup")
    BY <1>4, <1>5 DEF Upsert
  <2>2. Moves(p) /\ proc'[p].s = proc[p].s /\ Claim(p)' = Claim(p)
    BY <1>1, <2>1, GotoMoves DEF Points, ProvisioningPoints,
   DeletingPoints, OtherPoints, LatePoints, ClaimAt
  <2>. QED BY <1>3, <2>1, <2>2, SameTable, ClaimedStep DEF TableOK
<1>6. CASE ~PortTaken(s, row.node, row.port)
  <2>1. Goto(p, "notify")
    BY <1>4, <1>6
  <2>2. Moves(p) /\ Claim(p)' = "none"
    BY <1>1, <2>1, GotoMoves DEF Points, ProvisioningPoints,
   DeletingPoints, OtherPoints, LatePoints, ClaimAt
  <2>3. Frees(p, s)
    BY <1>1, <1>2, <1>3, <1>4, <1>6, <2>2, UpsertLocks DEF TableOK, Frees, Stable
  <2>. QED BY <2>2, <2>3 DEF Move
<1>. QED BY <1>5, <1>6

LEMMA NotifyMove ==
  ASSUME Inv, Ordinary, NEW p \in Procs, Notify(p)
  PROVE  Move(p)
<1>1. Moves(p) /\ Claim(p) = "none" /\ Claim(p)' = "none"
  BY DoneMoves DEF Inv, TypeInv, Ordinary, Notify, At, Points, ProvisioningPoints,
   DeletingPoints, OtherPoints, LatePoints, ClaimAt
<1>2. SameLocks /\ SamePresence /\ UNCHANGED stranded
  BY SameTable, SameContainers DEF Inv, TypeInv, TableOK, Notify, agents, history
<1>. QED BY <1>1, <1>2, UnclaimedStep DEF Inv

LEMMA CleanupMove ==
  ASSUME Inv, Ordinary, NEW p \in Procs, Cleanup(p)
  PROVE  Move(p)
<1>. USE DEF Inv, TypeInv
<1>1. proc[p] # None /\ proc[p].pc = "cleanup" /\ Claim(p) = "provisioning"
  BY DEF Cleanup, At, NoLate, LatePoints, Claim, ProvisioningPoints
<1>2. Goto(p, "release")
  BY <1>1 DEF Cleanup
<1>3. Moves(p) /\ proc'[p].s = proc[p].s /\ Claim(p)' = Claim(p)
  BY <1>1, <1>2, GotoMoves DEF Points, ProvisioningPoints,
   DeletingPoints, OtherPoints, LatePoints, ClaimAt
<1>4. PICK n \in Nodes, s \in Servers, outcome \in Outcomes :
        s = proc[p].s /\ AgentCall(n, s, outcome, "none")
  BY <1>1 DEF Cleanup, RequestsOK, WellFormed, Request, Row, ObservePoints
<1>5. TouchesOnly(s)
  BY <1>4, AgentCallTouches DEF ContainerStates
<1>6. SameLocks /\ UNCHANGED stranded
  BY SameTable DEF TableOK, Cleanup, history
<1>. QED BY <1>1, <1>3, <1>4, <1>5, <1>6, ClaimedStep

LEMMA ReleaseMove ==
  ASSUME Inv, Ordinary, NEW p \in Procs, Release(p)
  PROVE  Move(p)
<1>. USE DEF Inv, TypeInv
<1>1. proc[p] # None /\ proc[p].pc = "release" /\ Claim(p) = "provisioning"
  BY DEF Release, At, NoLate, LatePoints, Claim, ProvisioningPoints, DeletingPoints
<1>2. PICK s \in Servers : s = proc[p].s /\ Lock(s) = "provisioning"
  BY <1>1, HolderLock
<1>3. ReleaseProvisioning(s)
  BY <1>2 DEF Release
<1>4. Moves(p) /\ Claim(p)' = "none"
  BY <1>1, DoneMoves DEF Release
<1>5. SamePresence /\ stranded \ {s} \subseteq stranded'
  BY <1>2, SameContainers DEF Release, agents, history
<1>6. Frees(p, s)
  BY <1>1, <1>2, <1>3, <1>4, <1>5, ReleaseLocks DEF TableOK, Frees, Transitional
<1>. QED BY <1>4, <1>6 DEF Move

LEMMA ClaimDeleteMove ==
  ASSUME Inv, Ordinary, NEW p \in Procs, ClaimDelete(p)
  PROVE  Move(p)
<1>. USE DEF Inv, TypeInv
<1>. DEFINE r == proc[p]
            claimed == [r EXCEPT !.pc = "deleteDatabases", !.prev = servers[r.s].status]
<1>1. r \in Request /\ r # None /\ r.pc = "claimDelete" /\ Claim(p) = "none"
  BY DEF ClaimDelete, At, Claim, RequestsOK, ProvisioningPoints, DeletingPoints
<1>2. r.op \notin {"forceDelete", "databaseOnlyDelete"}
  BY <1>1 DEF Ordinary, RequestsOK, WellFormed
<1>3. ProvisioningRecovery(r) = FALSE
  BY <1>2 DEF ProvisioningRecovery
<1>4. SamePresence
  BY SameContainers DEF ClaimDelete, agents
<1>5. CASE Done(p) /\ UNCHANGED <<servers, stranded>>
  <2>1. Moves(p) /\ Claim(p)' = "none"
    BY <1>1, <1>5, DoneMoves
  <2>. QED BY <1>1, <1>4, <1>5, <2>1, SameTable, UnclaimedStep DEF TableOK
<1>6. CASE /\ ClaimDeletion(r.s, FALSE) /\ proc' = [proc EXCEPT ![p] = claimed]
           /\ stranded' = stranded \ {r.s}
  <2>1. PICK s \in Servers : s = r.s
    BY <1>1 DEF Request
  <2>2. /\ SameLocksExcept(s) /\ Lock(s) = "none" /\ Lock(s)' = "deleting"
        /\ servers[s] \in Row
    BY <1>6, <2>1, ClaimDeletionLocks DEF TableOK, NoTransfer
  <2>3. claimed \in Request /\ claimed.pc = "deleteDatabases" /\ claimed.s = s
    BY <1>1, <2>1, <2>2 DEF Request, Row, Points, DeletingPoints
  <2>4. Moves(p) /\ proc'[p].s = s /\ Claim(p)' = "deleting"
    BY <1>6, <2>3, BecomeMoves DEF LatePoints, ClaimAt, ProvisioningPoints, DeletingPoints
  <2>5. Takes(p, s)
    BY <1>1, <1>4, <1>6, <2>1, <2>2, <2>4 DEF Takes
  <2>. QED BY <2>4, <2>5 DEF Move
<1>. QED BY <1>2, <1>3, <1>5, <1>6 DEF ClaimDelete

LEMMA DeleteDatabasesMove ==
  ASSUME Inv, Ordinary, NEW p \in Procs, DeleteDatabases(p)
  PROVE  Move(p)
<1>1. Moves(p) /\ proc'[p].s = proc[p].s /\ Claim(p)' = Claim(p)
  BY GotoMoves DEF Inv, TypeInv, DeleteDatabases, At, Points, ProvisioningPoints,
   DeletingPoints, OtherPoints, LatePoints, ClaimAt
<1>2. SameLocks /\ SamePresence /\ UNCHANGED stranded
  BY SameTable, SameContainers DEF Inv, TypeInv, TableOK, DeleteDatabases, agents, history
<1>. QED BY <1>1, <1>2, ClaimedStep DEF Inv

LEMMA DeleteContainerMove ==
  ASSUME Inv, Ordinary, NEW p \in Procs, DeleteContainer(p)
  PROVE  Move(p)
<1>. USE DEF Inv, TypeInv
<1>1. proc[p] # None /\ proc[p].pc = "deleteContainer" /\ Claim(p) = "deleting"
  BY DEF DeleteContainer, At, NoLate, LatePoints, Claim, ProvisioningPoints, DeletingPoints
<1>2. PICK point \in {"remove", "restore"} : Goto(p, point)
  BY DEF DeleteContainer
<1>3. Moves(p) /\ proc'[p].s = proc[p].s /\ Claim(p)' = Claim(p)
  BY <1>1, <1>2, GotoMoves DEF Points, ProvisioningPoints,
   DeletingPoints, OtherPoints, LatePoints, ClaimAt
<1>4. PICK n \in Nodes, s \in Servers, outcome \in Outcomes :
        s = proc[p].s /\ AgentCall(n, s, outcome, "none")
  BY <1>1 DEF DeleteContainer, RequestsOK, WellFormed, Request, Row, ObservePoints
<1>5. TouchesOnly(s)
  BY <1>4, AgentCallTouches DEF ContainerStates
<1>6. SameLocks /\ UNCHANGED stranded
  BY SameTable DEF TableOK, DeleteContainer, history
<1>. QED BY <1>1, <1>3, <1>4, <1>5, <1>6, ClaimedStep

LEMMA RemoveRowMove ==
  ASSUME Inv, Ordinary, NEW p \in Procs, RemoveRow(p)
  PROVE  Move(p)
<1>. USE DEF Inv, TypeInv
<1>1. proc[p] # None /\ proc[p].pc = "remove" /\ Claim(p) = "deleting"
  BY DEF RemoveRow, At, NoLate, LatePoints, Claim, ProvisioningPoints, DeletingPoints
<1>2. PICK s \in Servers : s = proc[p].s /\ Lock(s) = "deleting"
  BY <1>1, HolderLock
<1>3. Remove(s)
  BY <1>2 DEF RemoveRow
<1>4. Moves(p) /\ Claim(p)' = "none"
  BY <1>1, DoneMoves DEF RemoveRow, Ordinary
<1>5. SamePresence /\ stranded \ {s} \subseteq stranded'
  BY <1>2, SameContainers DEF RemoveRow, agents, history
<1>6. Frees(p, s)
  BY <1>1, <1>2, <1>3, <1>4, <1>5, RemoveLocks DEF TableOK, Frees, Transitional
<1>. QED BY <1>4, <1>6 DEF Move

LEMMA RestoreRowMove ==
  ASSUME Inv, Ordinary, NEW p \in Procs, RestoreRow(p)
  PROVE  Move(p)
<1>. USE DEF Inv, TypeInv
<1>1. proc[p] # None /\ proc[p].pc = "restore" /\ Claim(p) = "deleting"
  BY DEF RestoreRow, At, NoLate, LatePoints, Claim, ProvisioningPoints, DeletingPoints
<1>2. PICK s \in Servers : s = proc[p].s /\ Lock(s) = "deleting" /\ HasStatus(s, {"deleting"})
  BY <1>1, HolderLock
<1>3. PICK status \in Statuses : status = RestoreStatus(proc[p])
  BY <1>1 DEF RequestsOK, WellFormed, RestoreStatus, Row, ObservePoints, DeletingPoints
<1>4. /\ SameLocksExcept(s)
      /\ Lock(s)' = IF status \in Transitional THEN status ELSE "none"
  BY <1>2, <1>3, RestoreDeletionLocks DEF TableOK, RestoreRow
<1>5. Moves(p) /\ Claim(p)' = "none"
  BY <1>1, DoneMoves DEF RestoreRow
<1>6. SamePresence
  BY SameContainers DEF RestoreRow, agents
<1>7. CASE status \in Transitional
  <2>1. stranded' = stranded \cup {s}
    BY <1>2, <1>3, <1>7 DEF RestoreRow
  <2>2. Drops(p, s)
    BY <1>1, <1>2, <1>4, <1>5, <1>6, <1>7, <2>1 DEF Drops, SamePresence, TouchesOnly, Transitional
  <2>. QED BY <1>5, <2>2 DEF Move
<1>8. CASE status \notin Transitional
  <2>1. stranded' = stranded
    BY <1>3, <1>8 DEF RestoreRow
  <2>2. Frees(p, s)
    BY <1>1, <1>2, <1>4, <1>5, <1>6, <1>8, <2>1 DEF Frees
  <2>. QED BY <1>5, <2>2 DEF Move
<1>. QED BY <1>7, <1>8

LEMMA EggClaimMove ==
  ASSUME Inv, Ordinary, NEW p \in Procs, EggClaim(p)
  PROVE  Move(p)
<1>. USE DEF Inv, TypeInv
<1>. DEFINE r == proc[p]
            claimed == [r EXCEPT !.pc = "eggDelete", !.prev = servers[r.s].status]
<1>1. r \in Request /\ r # None /\ r.pc = "claimEgg" /\ Claim(p) = "none"
  BY DEF EggClaim, At, Claim, RequestsOK, ProvisioningPoints, DeletingPoints
<1>2. SamePresence /\ UNCHANGED stranded
  BY SameContainers DEF EggClaim, agents, history
<1>3. CASE Done(p) /\ UNCHANGED servers
  <2>1. Moves(p) /\ Claim(p)' = "none"
    BY <1>1, <1>3, DoneMoves
  <2>. QED BY <1>1, <1>2, <1>3, <2>1, SameTable, UnclaimedStep DEF TableOK
<1>4. CASE ClaimTransition(r.s, "provisioning") /\ proc' = [proc EXCEPT ![p] = claimed]
  <2>1. PICK s \in Servers : s = r.s
    BY <1>1 DEF Request
  <2>2. /\ SameLocksExcept(s) /\ Lock(s) = "none" /\ Lock(s)' = "provisioning"
        /\ servers[s].status \in Stable
    BY <1>4, <2>1, ClaimTransitionLocks DEF TableOK, Transitional
  <2>3. claimed \in Request /\ claimed.pc = "eggDelete" /\ claimed.s = s
    BY <1>1, <2>1, <2>2 DEF Request, Statuses, Points, ProvisioningPoints
  <2>4. Moves(p) /\ proc'[p].s = s /\ Claim(p)' = "provisioning"
    BY <1>4, <2>3, BecomeMoves DEF LatePoints, ClaimAt, ProvisioningPoints
  <2>5. Takes(p, s)
    BY <1>1, <1>2, <2>1, <2>2, <2>4 DEF Takes
  <2>. QED BY <2>4, <2>5 DEF Move
<1>. QED BY <1>3, <1>4 DEF EggClaim

LEMMA EggDeleteMove ==
  ASSUME Inv, Ordinary, NEW p \in Procs, EggDelete(p)
  PROVE  Move(p)
<1>. USE DEF Inv, TypeInv
<1>1. proc[p] # None /\ proc[p].pc = "eggDelete" /\ Claim(p) = "provisioning"
  BY DEF EggDelete, At, NoLate, LatePoints, Claim, ProvisioningPoints
<1>2. PICK point \in {"eggCreate", "eggRestore"} : Goto(p, point)
  BY DEF EggDelete
<1>3. Moves(p) /\ proc'[p].s = proc[p].s /\ Claim(p)' = Claim(p)
  BY <1>1, <1>2, GotoMoves DEF Points, ProvisioningPoints,
   DeletingPoints, OtherPoints, LatePoints, ClaimAt
<1>4. PICK n \in Nodes, s \in Servers, outcome \in Outcomes :
        s = proc[p].s /\ AgentCall(n, s, outcome, "none")
  BY <1>1 DEF EggDelete, RequestsOK, WellFormed, Request, Row, ObservePoints
<1>5. TouchesOnly(s)
  BY <1>4, AgentCallTouches DEF ContainerStates
<1>6. SameLocks /\ UNCHANGED stranded
  BY SameTable DEF TableOK, EggDelete, history
<1>. QED BY <1>1, <1>3, <1>4, <1>5, <1>6, ClaimedStep

LEMMA EggRestoreMove ==
  ASSUME Inv, Ordinary, NEW p \in Procs, EggRestore(p)
  PROVE  Move(p)
<1>. USE DEF Inv, TypeInv
<1>1. proc[p] # None /\ proc[p].pc = "eggRestore" /\ Claim(p) = "provisioning"
  BY DEF EggRestore, At, Claim, ProvisioningPoints
<1>2. PICK s \in Servers : s = proc[p].s /\ Lock(s) = "provisioning"
  BY <1>1, HolderLock
<1>3. PICK status \in Stable : RestoreTransition(s, "provisioning", status)
  BY <1>1, <1>2 DEF EggRestore, RequestsOK, WellFormed, EggPoints
<1>4. Moves(p) /\ Claim(p)' = "none"
  BY <1>1, DoneMoves DEF EggRestore
<1>5. SamePresence /\ UNCHANGED stranded
  BY SameContainers DEF EggRestore, agents, history
<1>6. Frees(p, s)
  BY <1>1, <1>2, <1>3, <1>4, <1>5, RestoreTransitionLocks DEF TableOK, Frees, Transitional
<1>. QED BY <1>4, <1>6 DEF Move

LEMMA EggCreateMove ==
  ASSUME Inv, Ordinary, NEW p \in Procs, EggCreate(p)
  PROVE  Move(p)
<1>. USE DEF Inv, TypeInv
<1>1. proc[p] # None /\ proc[p].pc = "eggCreate" /\ Claim(p) = "provisioning"
  BY DEF EggCreate, At, Claim, ProvisioningPoints
<1>2. PICK n \in Nodes, s \in Servers, outcome \in Outcomes :
        s = proc[p].s /\ AgentCall(n, s, outcome, "stopped")
  BY <1>1 DEF EggCreate, RequestsOK, WellFormed, Request, Row, ObservePoints
<1>3. TouchesOnly(s)
  BY <1>2, AgentCallTouches DEF ContainerStates
<1>4. SameLocks
  BY SameTable DEF TableOK, EggCreate
<1>5. CASE Goto(p, "eggUpsert") /\ UNCHANGED stranded
  <2>1. Moves(p) /\ proc'[p].s = proc[p].s /\ Claim(p)' = Claim(p)
    BY <1>1, <1>5, GotoMoves DEF Points, ProvisioningPoints,
   DeletingPoints, OtherPoints, LatePoints, ClaimAt
  <2>. QED BY <1>1, <1>2, <1>3, <1>4, <1>5, <2>1, ClaimedStep
<1>6. CASE Done(p) /\ stranded' = stranded \cup {proc[p].s}
  <2>1. Moves(p) /\ Claim(p)' = "none"
    BY <1>1, <1>6, DoneMoves
  <2>2. Lock(s) # "none"
    BY <1>1, <1>2, HolderLock
  <2>3. Drops(p, s)
    BY <1>1, <1>2, <1>3, <1>4, <1>6, <2>1, <2>2 DEF Drops, SameLocks, SameLocksExcept
  <2>. QED BY <2>1, <2>3 DEF Move
<1>. QED BY <1>5, <1>6 DEF EggCreate

LEMMA EggUpsertMove ==
  ASSUME Inv, Ordinary, NEW p \in Procs, EggUpsert(p)
  PROVE  Move(p)
<1>. USE DEF Inv, TypeInv
<1>1. proc[p] # None /\ proc[p].pc = "eggUpsert" /\ Claim(p) = "provisioning"
  BY DEF EggUpsert, At, Claim, ProvisioningPoints
<1>2. PICK s \in Servers : /\ s = proc[p].s /\ Lock(s) = "provisioning"
                           /\ HasStatus(s, {"provisioning"})
  BY <1>1, HolderLock
<1>3. Moves(p) /\ Claim(p)' = "none" /\ SamePresence
  BY <1>1, DoneMoves, SameContainers DEF EggUpsert, agents
<1>4. PICK row \in Row :
        /\ Upsert(s, row) /\ row.status = "created"
        /\ stranded' = IF PortTaken(s, row.node, row.port) /\ HasStatus(s, {"provisioning"})
                       THEN stranded \cup {s} ELSE stranded
  BY <1>1, <1>2, EggUpsertWrites DEF RequestsOK, WellFormed, ObservePoints
<1>5. /\ SameLocksExcept(s)
      /\ Lock(s)' = IF PortTaken(s, row.node, row.port) THEN "provisioning" ELSE "none"
  BY <1>2, <1>4, UpsertLocks DEF TableOK, Stable
<1>6. CASE PortTaken(s, row.node, row.port)
  <2>1. stranded' = stranded \cup {s}
    BY <1>2, <1>4, <1>6
  <2>2. Drops(p, s)
    BY <1>1, <1>2, <1>3, <1>5, <1>6, <2>1 DEF Drops, SamePresence, TouchesOnly
  <2>. QED BY <1>3, <2>2 DEF Move
<1>7. CASE ~PortTaken(s, row.node, row.port)
  <2>1. stranded' = stranded
    BY <1>4, <1>7
  <2>2. Frees(p, s)
    BY <1>1, <1>2, <1>3, <1>5, <1>7, <2>1 DEF Frees
  <2>. QED BY <1>3, <2>2 DEF Move
<1>. QED BY <1>6, <1>7

LEMMA ReconcilePortsMove ==
  ASSUME Inv, Ordinary, NEW p \in Procs, ReconcilePorts(p)
  PROVE  Move(p)
<1>. USE DEF Inv, TypeInv
<1>1. Moves(p) /\ Claim(p) = "none" /\ Claim(p)' = "none"
  BY GotoMoves, DoneMoves DEF ReconcilePorts, At, Points, ProvisioningPoints,
   DeletingPoints, OtherPoints, LatePoints, ClaimAt
<1>2. SameLocks
  BY SameTable, UpdateVariablesLocks DEF TableOK, ReconcilePorts, At, RequestsOK, Request, WellFormed,
     Row, ObservePoints, EggPoints, Stable
<1>3. SamePresence /\ UNCHANGED stranded
  BY SameContainers DEF ReconcilePorts, agents, history
<1>. QED BY <1>1, <1>2, <1>3, UnclaimedStep

LEMMA SettingsWriteMove ==
  ASSUME Inv, Ordinary, NEW p \in Procs, SettingsWrite(p)
  PROVE  Move(p)
<1>. USE DEF Inv, TypeInv
<1>1. Moves(p) /\ Claim(p) = "none" /\ Claim(p)' = "none"
  BY GotoMoves, DoneMoves DEF SettingsWrite, At, Points, ProvisioningPoints,
   DeletingPoints, OtherPoints, LatePoints, ClaimAt
<1>2. SameLocks
  BY SameTable, UpdateVariablesLocks DEF TableOK, SettingsWrite, At, RequestsOK, Request, WellFormed,
     Row, ObservePoints, EggPoints, Stable
<1>3. SamePresence /\ UNCHANGED stranded
  BY SameContainers DEF SettingsWrite, agents, history
<1>. QED BY <1>1, <1>2, <1>3, UnclaimedStep

LEMMA WriteFlagMove ==
  ASSUME Inv, Ordinary, NEW p \in Procs, WriteFlag(p)
  PROVE  Move(p)
<1>. USE DEF Inv, TypeInv
<1>1. Moves(p) /\ Claim(p) = "none" /\ Claim(p)' = "none"
  BY GotoMoves, DoneMoves DEF WriteFlag, At, Points, ProvisioningPoints,
   DeletingPoints, OtherPoints, LatePoints, ClaimAt
<1>2. SameLocks
  BY SameTable, UpdateVariablesLocks DEF TableOK, WriteFlag, At, RequestsOK, Request, WellFormed,
     Row, ObservePoints, EggPoints, Stable
<1>3. SamePresence /\ UNCHANGED stranded
  BY SameContainers DEF WriteFlag, agents, history
<1>. QED BY <1>1, <1>2, <1>3, UnclaimedStep

LEMMA FreezeStatusMove ==
  ASSUME Inv, Ordinary, NEW p \in Procs, FreezeStatus(p)
  PROVE  Move(p)
<1>. USE DEF Inv, TypeInv
<1>1. Moves(p) /\ Claim(p) = "none" /\ Claim(p)' = "none"
  BY GotoMoves, DoneMoves DEF FreezeStatus, At, Points, ProvisioningPoints,
   DeletingPoints, OtherPoints, LatePoints, ClaimAt
<1>2. SameLocks
  BY SameTable, SetStatusLocks DEF TableOK, FreezeStatus, At, RequestsOK, Request, WellFormed,
     Row, ObservePoints, EggPoints, Stable
<1>3. SamePresence /\ UNCHANGED stranded
  BY SameContainers DEF FreezeStatus, agents, history
<1>. QED BY <1>1, <1>2, <1>3, UnclaimedStep

LEMMA UnfreezeStatusMove ==
  ASSUME Inv, Ordinary, NEW p \in Procs, UnfreezeStatus(p)
  PROVE  Move(p)
<1>. USE DEF Inv, TypeInv
<1>1. Moves(p) /\ Claim(p) = "none" /\ Claim(p)' = "none"
  BY GotoMoves, DoneMoves DEF UnfreezeStatus, At, Points, ProvisioningPoints,
   DeletingPoints, OtherPoints, LatePoints, ClaimAt
<1>2. SameLocks
  BY SameTable, SetStatusLocks DEF TableOK, UnfreezeStatus, At, RequestsOK, Request, WellFormed,
     Row, ObservePoints, EggPoints, Stable
<1>3. SamePresence /\ UNCHANGED stranded
  BY SameContainers DEF UnfreezeStatus, agents, history
<1>. QED BY <1>1, <1>2, <1>3, UnclaimedStep

LEMMA ObserveWriteMove ==
  ASSUME Inv, Ordinary, NEW p \in Procs, ObserveWrite(p)
  PROVE  Move(p)
<1>. USE DEF Inv, TypeInv
<1>1. Moves(p) /\ Claim(p) = "none" /\ Claim(p)' = "none"
  BY GotoMoves, DoneMoves DEF ObserveWrite, At, Points, ProvisioningPoints,
   DeletingPoints, OtherPoints, LatePoints, ClaimAt
<1>2. SameLocks
  BY SameTable, SetStatusLocks DEF TableOK, ObserveWrite, At, RequestsOK, Request, WellFormed,
     Row, ObservePoints, EggPoints, Stable
<1>3. SamePresence /\ UNCHANGED stranded
  BY SameContainers DEF ObserveWrite, agents, history
<1>. QED BY <1>1, <1>2, <1>3, UnclaimedStep

LEMMA PowerStatusMove ==
  ASSUME Inv, Ordinary, NEW p \in Procs, PowerStatus(p)
  PROVE  Move(p)
<1>. USE DEF Inv, TypeInv
<1>1. Moves(p) /\ Claim(p) = "none" /\ Claim(p)' = "none"
  BY DoneMoves DEF PowerStatus, At, Points, ProvisioningPoints,
   DeletingPoints, OtherPoints, LatePoints, ClaimAt
<1>2. PowerState(proc[p].op) \in Stable /\ proc[p].s \in Servers
  BY IdleAssumption DEF PowerState, Stable, PowerStatus, At, RequestsOK, Request
<1>3. SameLocks
  BY <1>2, SameTable, SetStatusLocks DEF TableOK, PowerStatus
<1>4. SamePresence /\ UNCHANGED stranded
  BY SameContainers DEF PowerStatus, agents, history
<1>. QED BY <1>1, <1>3, <1>4, UnclaimedStep

LEMMA FreezeStopMove ==
  ASSUME Inv, Ordinary, NEW p \in Procs, FreezeStop(p)
  PROVE  Move(p)
<1>. USE DEF Inv, TypeInv
<1>1. Moves(p) /\ Claim(p) = "none" /\ Claim(p)' = "none"
  BY GotoMoves, DoneMoves DEF FreezeStop, At, Points, ProvisioningPoints,
   DeletingPoints, OtherPoints, LatePoints, ClaimAt
<1>2. SamePresence
  BY AgentPowerTouches DEF FreezeStop, At, RequestsOK, WellFormed, PowerState, ObservePoints
<1>3. SameLocks /\ UNCHANGED stranded
  BY SameTable DEF TableOK, FreezeStop, history
<1>. QED BY <1>1, <1>2, <1>3, UnclaimedStep

LEMMA PowerAgentMove ==
  ASSUME Inv, Ordinary, NEW p \in Procs, PowerAgent(p)
  PROVE  Move(p)
<1>. USE DEF Inv, TypeInv
<1>1. Moves(p) /\ Claim(p) = "none" /\ Claim(p)' = "none"
  BY GotoMoves, DoneMoves DEF PowerAgent, At, Points, ProvisioningPoints,
   DeletingPoints, OtherPoints, LatePoints, ClaimAt
<1>2. SamePresence
  BY AgentPowerTouches DEF PowerAgent, At, RequestsOK, WellFormed, PowerState, ObservePoints
<1>3. SameLocks /\ UNCHANGED stranded
  BY SameTable DEF TableOK, PowerAgent, history
<1>. QED BY <1>1, <1>2, <1>3, UnclaimedStep

LEMMA ObserveReadMove ==
  ASSUME Inv, Ordinary, NEW p \in Procs, ObserveRead(p)
  PROVE  Move(p)
<1>1. Moves(p) /\ Claim(p) = "none" /\ Claim(p)' = "none"
  BY GotoMoves, DoneMoves DEF Inv, TypeInv, ObserveRead, At, Points, ProvisioningPoints,
   DeletingPoints, OtherPoints, LatePoints, ClaimAt
<1>2. SameLocks /\ SamePresence /\ UNCHANGED stranded
  BY SameTable, SameContainers DEF Inv, TypeInv, TableOK, ObserveRead, agents, history
<1>. QED BY <1>1, <1>2, UnclaimedStep DEF Inv

LEMMA CrashMove ==
  ASSUME Inv, Ordinary, NEW p \in Procs, Crash(p)
  PROVE  Move(p)
<1>. USE DEF Inv, TypeInv
<1>1. Moves(p) /\ Claim(p)' = "none"
  BY DoneMoves DEF Crash
<1>2. SameLocks /\ SamePresence
  BY SameTable, SameContainers DEF TableOK, Crash, agents
<1>3. CASE Claim(p) = "none"
  BY <1>1, <1>2, <1>3, UnclaimedStep DEF Crash
<1>4. CASE Claim(p) # "none"
  <2>1. PICK s \in Servers : s = proc[p].s /\ Lock(s) # "none"
    BY <1>4, HolderLock
  <2>2. Drops(p, s)
    BY <1>1, <1>2, <1>4, <2>1 DEF Crash, Drops, SameLocks, SameLocksExcept, SamePresence,
       TouchesOnly
  <2>. QED BY <1>1, <2>2 DEF Move
<1>. QED BY <1>3, <1>4

LEMMA DeleteReadMove ==
  ASSUME Inv, Ordinary, NEW p \in Procs,
         NEW s \in Servers, NEW op, DeleteRead(p, s, op)
  PROVE  Move(p)
<1>. USE DEF Inv, TypeInv
<1>1. PICK r : /\ Begin(p, r) /\ r.pc \in OtherPoints \ LatePoints
               /\ proc' = [proc EXCEPT ![p] = r]
  BY DEF DeleteRead, Begin, OtherPoints, LatePoints
<1>2. proc[p] = None /\ proc'[p] = r /\ \A q \in Procs \ {p} : proc'[q] = proc[q]
  BY <1>1 DEF Begin, RequestsOK
<1>3. Moves(p) /\ Claim(p) = "none" /\ Claim(p)' = "none"
  BY <1>1, <1>2 DEF Moves, Claim, OtherPoints, LatePoints, ProvisioningPoints, DeletingPoints
<1>4. SameLocks /\ SamePresence /\ UNCHANGED stranded
  BY SameTable, SameContainers DEF TableOK, DeleteRead, agents, history
<1>. QED BY <1>3, <1>4, UnclaimedStep

LEMMA EggReadMove ==
  ASSUME Inv, Ordinary, NEW p \in Procs,
         NEW s \in Servers, EggRead(p, s)
  PROVE  Move(p)
<1>. USE DEF Inv, TypeInv
<1>1. PICK r : /\ Begin(p, r) /\ r.pc \in OtherPoints \ LatePoints
               /\ proc' = [proc EXCEPT ![p] = r]
  BY DEF EggRead, Begin, OtherPoints, LatePoints
<1>2. proc[p] = None /\ proc'[p] = r /\ \A q \in Procs \ {p} : proc'[q] = proc[q]
  BY <1>1 DEF Begin, RequestsOK
<1>3. Moves(p) /\ Claim(p) = "none" /\ Claim(p)' = "none"
  BY <1>1, <1>2 DEF Moves, Claim, OtherPoints, LatePoints, ProvisioningPoints, DeletingPoints
<1>4. SameLocks /\ SamePresence /\ UNCHANGED stranded
  BY SameTable, SameContainers DEF TableOK, EggRead, agents, history
<1>. QED BY <1>3, <1>4, UnclaimedStep

LEMMA SettingsReadMove ==
  ASSUME Inv, Ordinary, NEW p \in Procs,
         NEW s \in Servers, SettingsRead(p, s)
  PROVE  Move(p)
<1>. USE DEF Inv, TypeInv
<1>1. PICK r : /\ Begin(p, r) /\ r.pc \in OtherPoints \ LatePoints
               /\ proc' = [proc EXCEPT ![p] = r]
  BY DEF SettingsRead, Begin, OtherPoints, LatePoints
<1>2. proc[p] = None /\ proc'[p] = r /\ \A q \in Procs \ {p} : proc'[q] = proc[q]
  BY <1>1 DEF Begin, RequestsOK
<1>3. Moves(p) /\ Claim(p) = "none" /\ Claim(p)' = "none"
  BY <1>1, <1>2 DEF Moves, Claim, OtherPoints, LatePoints, ProvisioningPoints, DeletingPoints
<1>4. SameLocks /\ SamePresence /\ UNCHANGED stranded
  BY SameTable, SameContainers DEF TableOK, SettingsRead, agents, history
<1>. QED BY <1>3, <1>4, UnclaimedStep

LEMMA FreezeReadMove ==
  ASSUME Inv, Ordinary, NEW p \in Procs,
         NEW s \in Servers, NEW billing \in BOOLEAN, FreezeRead(p, s, billing)
  PROVE  Move(p)
<1>. USE DEF Inv, TypeInv
<1>1. PICK r : /\ Begin(p, r) /\ r.pc \in OtherPoints \ LatePoints
               /\ proc' = [proc EXCEPT ![p] = r]
  BY DEF FreezeRead, Begin, OtherPoints, LatePoints
<1>2. proc[p] = None /\ proc'[p] = r /\ \A q \in Procs \ {p} : proc'[q] = proc[q]
  BY <1>1 DEF Begin, RequestsOK
<1>3. Moves(p) /\ Claim(p) = "none" /\ Claim(p)' = "none"
  BY <1>1, <1>2 DEF Moves, Claim, OtherPoints, LatePoints, ProvisioningPoints, DeletingPoints
<1>4. SameLocks /\ SamePresence /\ UNCHANGED stranded
  BY SameTable, SameContainers DEF TableOK, FreezeRead, agents, history
<1>. QED BY <1>3, <1>4, UnclaimedStep

LEMMA UnfreezeReadMove ==
  ASSUME Inv, Ordinary, NEW p \in Procs,
         NEW s \in Servers, UnfreezeRead(p, s)
  PROVE  Move(p)
<1>. USE DEF Inv, TypeInv
<1>1. PICK r : /\ Begin(p, r) /\ r.pc \in OtherPoints \ LatePoints
               /\ proc' = [proc EXCEPT ![p] = r]
  BY DEF UnfreezeRead, Begin, OtherPoints, LatePoints
<1>2. proc[p] = None /\ proc'[p] = r /\ \A q \in Procs \ {p} : proc'[q] = proc[q]
  BY <1>1 DEF Begin, RequestsOK
<1>3. Moves(p) /\ Claim(p) = "none" /\ Claim(p)' = "none"
  BY <1>1, <1>2 DEF Moves, Claim, OtherPoints, LatePoints, ProvisioningPoints, DeletingPoints
<1>4. SameLocks /\ SamePresence /\ UNCHANGED stranded
  BY SameTable, SameContainers DEF TableOK, UnfreezeRead, agents, history
<1>. QED BY <1>3, <1>4, UnclaimedStep

LEMMA PowerReadMove ==
  ASSUME Inv, Ordinary, NEW p \in Procs,
         NEW s \in Servers, NEW op, PowerRead(p, s, op)
  PROVE  Move(p)
<1>. USE DEF Inv, TypeInv
<1>1. PICK r : /\ Begin(p, r) /\ r.pc \in OtherPoints \ LatePoints
               /\ proc' = [proc EXCEPT ![p] = r]
  BY DEF PowerRead, Begin, OtherPoints, LatePoints
<1>2. proc[p] = None /\ proc'[p] = r /\ \A q \in Procs \ {p} : proc'[q] = proc[q]
  BY <1>1 DEF Begin, RequestsOK
<1>3. Moves(p) /\ Claim(p) = "none" /\ Claim(p)' = "none"
  BY <1>1, <1>2 DEF Moves, Claim, OtherPoints, LatePoints, ProvisioningPoints, DeletingPoints
<1>4. SameLocks /\ SamePresence /\ UNCHANGED stranded
  BY SameTable, SameContainers DEF TableOK, PowerRead, agents, history
<1>. QED BY <1>3, <1>4, UnclaimedStep

LEMMA ObservePollMove ==
  ASSUME Inv, Ordinary, NEW p \in Procs,
         NEW s \in Servers, NEW n \in Nodes, ObservePoll(p, s, n)
  PROVE  Move(p)
<1>. USE DEF Inv, TypeInv
<1>1. PICK r : /\ Begin(p, r) /\ r.pc \in OtherPoints \ LatePoints
               /\ proc' = [proc EXCEPT ![p] = r]
  BY DEF ObservePoll, Begin, OtherPoints, LatePoints
<1>2. proc[p] = None /\ proc'[p] = r /\ \A q \in Procs \ {p} : proc'[q] = proc[q]
  BY <1>1 DEF Begin, RequestsOK
<1>3. Moves(p) /\ Claim(p) = "none" /\ Claim(p)' = "none"
  BY <1>1, <1>2 DEF Moves, Claim, OtherPoints, LatePoints, ProvisioningPoints, DeletingPoints
<1>4. SameLocks /\ SamePresence /\ UNCHANGED stranded
  BY SameTable, SameContainers DEF TableOK, ObservePoll, agents, history
<1>. QED BY <1>3, <1>4, UnclaimedStep

LEMMA ReserveMove ==
  ASSUME Inv, Ordinary, NEW p \in Procs,
         NEW s \in Servers, NEW n \in Nodes, NEW op, Reserve(p, s, n, op)
  PROVE  Move(p)
<1>. USE DEF Inv, TypeInv
<1>. DEFINE r == [op |-> op, pc |-> "assignPorts", s |-> s, snap |-> servers'[s], prev |-> "none"]
<1>1. proc[p] = None /\ proc' = [proc EXCEPT ![p] = r]
  BY DEF Reserve, Begin
<1>2. /\ SameLocksExcept(s) /\ Lock(s) = "none" /\ Lock(s)' = "provisioning"
      /\ r \in Request
  <2>1. /\ SameLocksExcept(s) /\ Lock(s) = "none" /\ Lock(s)' = "provisioning"
        /\ servers'[s] \in Row
    BY ReserveLocks DEF TableOK, Reserve
  <2>2. op \in AllOps
    BY DEF Reserve, CreateOps, AllOps
  <2>. QED BY <2>1, <2>2 DEF Request, Points, ProvisioningPoints
<1>3. \A q \in Procs \ {p} : proc'[q] = proc[q]
  BY <1>1 DEF RequestsOK
<1>4. proc'[p] = r /\ r # None
  BY <1>1, <1>2, NoneIdle DEF RequestsOK
<1>5. Moves(p) /\ Claim(p) = "none" /\ Claim(p)' = "provisioning" /\ proc'[p].s = s
  BY <1>1, <1>3, <1>4 DEF Moves, Claim, LatePoints, ProvisioningPoints, DeletingPoints
<1>6. SamePresence /\ stranded \ {s} \subseteq stranded'
  BY SameContainers DEF Reserve, agents, history
<1>7. Takes(p, s)
  BY <1>2, <1>5, <1>6 DEF Takes
<1>. QED BY <1>5, <1>7 DEF Move

LEMMA ClaimRemoveMove ==
  ASSUME Inv, Ordinary, NEW p \in Procs,
         NEW s \in Servers, NEW op, ClaimRemove(p, s, op)
  PROVE  Move(p)
<1>. USE DEF Inv, TypeInv
<1>. DEFINE r == [op |-> op, s |-> s, snap |-> servers[s], prev |-> servers[s].status,
                  pc |-> IF op = "registryRemove" THEN "deleteDatabases" ELSE "deleteContainer"]
<1>1. proc[p] = None /\ proc' = [proc EXCEPT ![p] = r]
  BY DEF ClaimRemove, Begin
<1>2. /\ SameLocksExcept(s) /\ Lock(s) = "none" /\ Lock(s)' = "deleting"
      /\ r \in Request
  <2>1. /\ SameLocksExcept(s) /\ Lock(s) = "none" /\ Lock(s)' = "deleting"
        /\ servers[s] \in Row
    BY ClaimDeletionLocks DEF TableOK, NoTransfer, ClaimRemove
  <2>2. op \in AllOps
    BY DEF ClaimRemove, RemoveOps, AllOps
  <2>. QED BY <2>1, <2>2 DEF Request, Row, Points, DeletingPoints
<1>3. \A q \in Procs \ {p} : proc'[q] = proc[q]
  BY <1>1 DEF RequestsOK
<1>4. proc'[p] = r /\ r # None
  BY <1>1, <1>2, NoneIdle DEF RequestsOK
<1>5. Moves(p) /\ Claim(p) = "none" /\ Claim(p)' = "deleting" /\ proc'[p].s = s
  BY <1>1, <1>3, <1>4 DEF Moves, Claim, LatePoints, ProvisioningPoints, DeletingPoints
<1>6. SamePresence /\ stranded \ {s} \subseteq stranded'
  BY SameContainers DEF ClaimRemove, agents, history
<1>7. Takes(p, s)
  BY <1>2, <1>5, <1>6 DEF Takes
<1>. QED BY <1>5, <1>7 DEF Move

-----------------------------------------------------------------------------
(* Every step is a move, and moves keep the lock invariant.                *)

LEMMA StepMoves ==
  ASSUME Inv, Ordinary, NEW p \in Procs, Arrive(p) \/ Step(p) \/ Crash(p)
  PROVE  Move(p)
<1>1. CASE Arrive(p)
  BY <1>1, ReserveMove, DeleteReadMove, ClaimRemoveMove, EggReadMove, SettingsReadMove,
     FreezeReadMove, UnfreezeReadMove, PowerReadMove, ObservePollMove DEF Arrive
<1>2. CASE CreateStep(p)
  BY <1>2, AssignPortsMove, ResolveEggMove, CreateContainerMove, RecordReadMove, FinalizeMove,
     RecordUpsertMove, NotifyMove, CleanupMove, ReleaseMove DEF CreateStep
<1>3. CASE DeleteStep(p)
  BY <1>3, ClaimDeleteMove, DeleteDatabasesMove, DeleteContainerMove, RemoveRowMove,
     RestoreRowMove DEF DeleteStep
<1>4. CASE EggStep(p)
  BY <1>4, EggClaimMove, EggDeleteMove, EggRestoreMove, EggCreateMove, EggUpsertMove DEF EggStep
<1>5. CASE WriteStep(p)
  BY <1>5, ReconcilePortsMove, SettingsWriteMove, WriteFlagMove, FreezeStatusMove,
     UnfreezeStatusMove, FreezeStopMove DEF WriteStep
<1>6. CASE RuntimeStep(p)
  BY <1>6, PowerAgentMove, PowerStatusMove, ObserveReadMove, ObserveWriteMove DEF RuntimeStep
<1>7. CASE Crash(p)
  BY <1>7, CrashMove
<1>. QED BY <1>1, <1>2, <1>3, <1>4, <1>5, <1>6, <1>7 DEF Step

\* The inductive invariant, in terms of locks.
Backed == \A p \in Procs, s \in Servers : Holds(p, s) => Lock(s) = Claim(p)
Owned == \A s \in Servers :
  Lock(s) # "none" => s \in stranded \/ \E p \in Procs : Holds(p, s)

LockInv == NoLate /\ Backed /\ ClaimsExclude /\ Owned

\* A claimed status is that claim in the lock, and the reverse.
LEMMA LockInvClaims ==
  ASSUME TypeInv, LockInv
  PROVE  Inv /\ ClaimsBacked /\ ClaimsExclude /\ ClaimsOwned
<1>1. ASSUME NEW p \in Procs, Claim(p) # "none"
      PROVE  HasStatus(proc[p].s, {Claim(p)})
  <2>1. PICK s \in Servers : s = proc[p].s
    BY <1>1 DEF Claim, TypeInv, RequestsOK, Request
  <2>2. Lock(s) = Claim(p)
    BY <1>1, <2>1 DEF LockInv, Backed, Holds
  <2>. QED BY <1>1, <2>1, <2>2 DEF Lock, HasStatus
<1>2. ClaimsOwned
  BY DEF LockInv, Owned, ClaimsOwned, Lock, HasStatus, Transitional
<1>. QED BY <1>1, <1>2 DEF LockInv, Inv, ClaimsBacked

LEMMA OthersHold ==
  ASSUME NEW p \in Procs, Moves(p), NEW q \in Procs \ {p}
  PROVE  Claim(q)' = Claim(q) /\ \A s \in Servers : Holds(q, s)' <=> Holds(q, s)
BY DEF Moves, Claim, Holds

\* What each kind of move does to the claims of the request that makes it.
LEMMA MoverHolds ==
  ASSUME NEW p \in Procs
  PROVE  /\ Quiet(p) => \A s \in Servers : Holds(p, s)' <=> Holds(p, s)
         /\ \A s \in Servers : Takes(p, s) =>
              \A t \in Servers : ~Holds(p, t) /\ (Holds(p, t)' <=> t = s)
         /\ \A s \in Servers : Frees(p, s) \/ Drops(p, s) =>
              \A t \in Servers : (Holds(p, t) <=> t = s) /\ ~Holds(p, t)'
BY DEF Quiet, Takes, Frees, Drops, Holds

LEMMA MoveKeepsLocks ==
  ASSUME LockInv, NEW p \in Procs, Move(p)
  PROVE  LockInv'
<1>. USE DEF LockInv
<1>1. Moves(p)
  BY DEF Move
<1>2. NoLate'
  BY <1>1 DEF NoLate, Moves
<1>3. CASE Quiet(p)
  <2>1. \A q \in Procs, s \in Servers : Holds(q, s)' <=> Holds(q, s)
    BY <1>1, <1>3, OthersHold, MoverHolds
  <2>2. \A q \in Procs : Claim(q)' = Claim(q)
    BY <1>1, <1>3, OthersHold DEF Quiet
  <2>3. \A s \in Servers : Lock(s)' = Lock(s)
    BY <1>3 DEF Quiet, SameLocks
  <2>4. stranded \subseteq stranded'
    BY <1>3 DEF Quiet
  <2>5. Backed'
    BY <2>1, <2>2, <2>3 DEF Backed
  <2>6. ClaimsExclude'
    BY <2>1 DEF ClaimsExclude
  <2>7. Owned'
    BY <2>1, <2>3, <2>4 DEF Owned
  <2>. QED BY <1>2, <2>5, <2>6, <2>7
<1>4. ASSUME NEW s \in Servers, Takes(p, s) PROVE LockInv'
  <2>1. \A q \in Procs \ {p} : Claim(q)' = Claim(q) /\ Claim(q) \in {"none", "provisioning", "deleting"}
    BY <1>1, OthersHold DEF Claim
  <2>2. \A q \in Procs \ {p}, t \in Servers : Holds(q, t)' <=> Holds(q, t)
    BY <1>1, OthersHold
  <2>3. \A t \in Servers : Holds(p, t)' <=> t = s
    BY <1>4, MoverHolds
  <2>4. \A q \in Procs : ~Holds(q, s)
    BY <1>4 DEF Backed, Takes, Holds
  <2>5. Backed'
    BY <1>4, <2>1, <2>2, <2>3, <2>4 DEF Backed, Takes, SameLocksExcept
  <2>6. ClaimsExclude'
    BY <2>2, <2>3, <2>4 DEF ClaimsExclude
  <2>7. ASSUME NEW t \in Servers, Lock(t)' # "none"
        PROVE  t \in stranded' \/ \E q \in Procs : Holds(q, t)'
    BY <1>4, <2>2, <2>3, <2>7, MoverHolds DEF Owned, Takes, SameLocksExcept
  <2>. QED BY <1>2, <2>5, <2>6, <2>7 DEF Owned
<1>5. ASSUME NEW s \in Servers, Frees(p, s) \/ Drops(p, s) PROVE LockInv'
  <2>1. \A q \in Procs \ {p} : Claim(q)' = Claim(q)
    BY <1>1, OthersHold
  <2>2. \A q \in Procs \ {p}, t \in Servers : Holds(q, t)' <=> Holds(q, t)
    BY <1>1, OthersHold
  <2>3. \A t \in Servers : ~Holds(p, t)' /\ (Holds(p, t) <=> t = s)
    BY <1>5, MoverHolds
  <2>4. \A q \in Procs \ {p} : ~Holds(q, s)
    BY <2>3 DEF ClaimsExclude
  <2>5. SameLocksExcept(s)
    BY <1>5 DEF Frees, Drops
  <2>6. Backed'
    BY <2>1, <2>2, <2>3, <2>4, <2>5 DEF Backed, SameLocksExcept
  <2>7. ClaimsExclude'
    BY <2>2, <2>3 DEF ClaimsExclude
  <2>8. ASSUME NEW t \in Servers, Lock(t)' # "none"
        PROVE  t \in stranded' \/ \E q \in Procs : Holds(q, t)'
    <3>1. CASE t = s
      BY <1>5, <2>8, <3>1 DEF Frees, Drops
    <3>2. CASE t # s
      <4>1. t \in stranded \/ \E q \in Procs : Holds(q, t)
        BY <2>5, <2>8, <3>2 DEF Owned, SameLocksExcept
      <4>2. t \in stranded => t \in stranded'
        BY <1>5, <3>2 DEF Frees, Drops
      <4>. QED BY <2>2, <2>3, <3>2, <4>1, <4>2
    <3>. QED BY <3>1, <3>2
  <2>. QED BY <1>2, <2>6, <2>7, <2>8 DEF Owned
<1>. QED BY <1>3, <1>4, <1>5 DEF Move

LEMMA LockInvInit == Init => LockInv
BY DEF Init, LockInv, NoLate, Backed, ClaimsExclude, Owned, Holds, Claim, Lock, HasStatus, Exists

\* A step changes nothing, or is a move of one request.
LEMMA NextMoves ==
  ASSUME Ordinary, TypeInv, LockInv, [Next]_vars
  PROVE  UNCHANGED vars \/ \E p \in Procs : Move(p)
BY LockInvClaims, StepMoves DEF Next

LEMMA LockInvStep ==
  ASSUME Ordinary, TypeInv, LockInv, [Next]_vars
  PROVE  LockInv'
<1>1. CASE UNCHANGED vars
  <2>1. \A s \in Servers : Lock(s)' = Lock(s)
    BY <1>1 DEF vars, Lock, HasStatus, Exists
  <2>2. \A p \in Procs : Claim(p)' = Claim(p) /\ \A s \in Servers : Holds(p, s)' <=> Holds(p, s)
    BY <1>1 DEF vars, Claim, Holds
  <2>. QED BY <1>1, <2>1, <2>2 DEF vars, LockInv, NoLate, Backed, ClaimsExclude, Owned
<1>. QED BY <1>1, NextMoves, MoveKeepsLocks

LEMMA Reachable ==
  ASSUME Ordinary
  PROVE  Spec => [](TypeInv /\ LockInv)
<1>1. Init => TypeInv /\ LockInv
  BY TypeInvInit, LockInvInit
<1>2. TypeInv /\ LockInv /\ [Next]_vars => (TypeInv /\ LockInv)'
  BY TypeInvStep, LockInvStep
<1>. QED BY <1>1, <1>2, PTL DEF Spec

-----------------------------------------------------------------------------
(* The theorems.                                                           *)

\* No two requests, on any replicas, ever work under the claim of the same
\* server (claimDeletion, claimTransition and reserveRandomPort exclude one
\* another across all of their callers).
THEOREM ClaimsExcludeAlways ==
  ASSUME Ordinary
  PROVE  Spec => []ClaimsExclude
<1>1. TypeInv /\ LockInv => ClaimsExclude
  BY DEF LockInv
<1>. QED BY <1>1, Reachable, PTL

\* A request working under a claim always finds its row in the status that
\* it claimed, whatever other requests read or write meanwhile.
THEOREM ClaimsBackedAlways ==
  ASSUME Ordinary
  PROVE  Spec => []ClaimsBacked
<1>1. TypeInv /\ LockInv => ClaimsBacked
  BY LockInvClaims
<1>. QED BY <1>1, Reachable, PTL

\* A row stays transitional only under a live workflow, or when one of the
\* abandoning paths of the code (a crash, a failed egg change, an unresolved
\* billing egg, a stale restore) left it so.
THEOREM ClaimsOwnedAlways ==
  ASSUME Ordinary
  PROVE  Spec => []ClaimsOwned
<1>1. TypeInv /\ LockInv => ClaimsOwned
  BY LockInvClaims
<1>. QED BY <1>1, Reachable, PTL

\* Claims are exclusive, backed by their rows and owned by live workflows, for
\* any number of requests and servers (claimDeletion, claimTransition).
THEOREM ClaimsSoundAlways ==
  ASSUME Ordinary
  PROVE  Spec => []ClaimsSound
<1>1. ClaimsExclude /\ ClaimsBacked /\ ClaimsOwned => ClaimsSound
  BY DEF ClaimsSound
<1>. QED BY <1>1, ClaimsExcludeAlways, ClaimsBackedAlways, ClaimsOwnedAlways, PTL

\* A transitional status is ended by the request that claimed it, and by
\* nobody else, in the same transaction in which that request lets go.
THEOREM ClaimsEndedByHolderAlways ==
  ASSUME Ordinary
  PROVE  Spec => ClaimsEndedByHolder
<1>1. TypeInv /\ LockInv /\ [Next]_vars =>
        [\A s \in Servers, status \in Transitional :
           HasStatus(s, {status}) /\ ~HasStatus(s, {status})' =>
             \E p \in Procs : Holds(p, s) /\ ~Holds(p, s)']_vars
  <2>. SUFFICES ASSUME TypeInv, LockInv, [Next]_vars, ~UNCHANGED vars,
                       NEW s \in Servers, NEW status \in Transitional,
                       HasStatus(s, {status}), ~HasStatus(s, {status})'
       PROVE  \E p \in Procs : Holds(p, s) /\ ~Holds(p, s)'
    OBVIOUS
  <2>1. Lock(s) = status /\ Lock(s)' # status /\ status # "none"
    BY DEF Lock, HasStatus, Transitional
  <2>2. PICK p \in Procs : Move(p)
    BY NextMoves
  <2>3. ~Quiet(p)
    BY <2>1 DEF Quiet, SameLocks
  <2>4. PICK t \in Servers : Takes(p, t) \/ Frees(p, t) \/ Drops(p, t)
    BY <2>2, <2>3 DEF Move
  <2>5. t = s
    BY <2>1, <2>4 DEF Takes, Frees, Drops, SameLocksExcept
  <2>6. ~Takes(p, s)
    BY <2>1 DEF Takes
  <2>. QED BY <2>4, <2>5, <2>6, MoverHolds
<1>. QED BY <1>1, Reachable, PTL DEF Spec, ClaimsEndedByHolder

-----------------------------------------------------------------------------
(* The refinement of ExclusiveRuntime.                                     *)

LockedServers == {s \in Servers : HasStatus(s, Transitional)}
Holders == [s \in Servers |-> {p \in Procs : Holds(p, s)}]
PresentPairs == {ns \in Nodes \X Servers : container[ns] # "none"}

LEMMA LockedIsLock == \A s \in Servers : s \in LockedServers <=> Lock(s) # "none"
BY DEF LockedServers, Lock, HasStatus, Transitional

LEMMA RuntimeInit == Init => Runtime!Init
BY DEF Init, Runtime!Init, HasStatus, Exists, Holds, Claim

\* The request that holds a lock is its only holder.
LEMMA OnlyHolder ==
  ASSUME LockInv, NEW p \in Procs, NEW s \in Servers, Holds(p, s)
  PROVE  Holders[s] = {p}
BY DEF LockInv, ClaimsExclude, Holders

LEMMA RuntimeTouch ==
  ASSUME NEW s \in Servers, TouchesOnly(s)
  PROVE  Runtime!TouchOnly(s)
<1>. SUFFICES /\ PresentPairs' \subseteq Nodes \X Servers
              /\ \A n \in Nodes, t \in Servers \ {s} :
                   <<n, t>> \in PresentPairs' <=> <<n, t>> \in PresentPairs
  BY DEF Runtime!TouchOnly, PresentPairs
<1>1. ASSUME NEW n \in Nodes, NEW t \in Servers \ {s}
      PROVE  <<n, t>> \in PresentPairs' <=> <<n, t>> \in PresentPairs
  <2>1. <<n, t>> \in Nodes \X Servers /\ <<n, t>>[2] # s
    OBVIOUS
  <2>. QED BY <2>1 DEF TouchesOnly, Present, PresentPairs
<1>. QED BY <1>1 DEF PresentPairs

LEMMA RuntimeStutter ==
  ASSUME LockedServers' = LockedServers, Holders' = Holders, PresentPairs' = PresentPairs
  PROVE  UNCHANGED Runtime!vars
BY DEF Runtime!vars, LockedServers, Holders, PresentPairs

LEMMA SamePairs ==
  ASSUME SamePresence
  PROVE  PresentPairs' = PresentPairs
BY DEF SamePresence, Present, PresentPairs

\* Every move is a step of the lock, or changes nothing that it can see.
LEMMA RuntimeMove ==
  ASSUME TypeInv, LockInv, NEW p \in Procs, Move(p)
  PROVE  [Runtime!Next]_(Runtime!vars)
<1>1. Moves(p)
  BY DEF Move
<1>2. \A q \in Procs \ {p}, t \in Servers : Holds(q, t)' <=> Holds(q, t)
  BY <1>1, OthersHold
<1>3. CASE Quiet(p)
  <2>1. Holders' = Holders
    <3>1. \A q \in Procs, t \in Servers : Holds(q, t)' <=> Holds(q, t)
      BY <1>2, <1>3, MoverHolds
    <3>. QED BY <3>1 DEF Holders
  <2>2. LockedServers' = LockedServers
    <3>1. \A t \in Servers : Lock(t)' = Lock(t)
      BY <1>3 DEF Quiet, SameLocks
    <3>2. \A t \in Servers : HasStatus(t, Transitional)' <=> HasStatus(t, Transitional)
      BY <3>1 DEF Lock, HasStatus, Transitional
    <3>. QED BY <3>2 DEF LockedServers
  <2>3. CASE SamePresence
    BY <2>1, <2>2, <2>3, SamePairs, RuntimeStutter
  <2>4. ASSUME NEW s \in Servers, Claim(p) # "none", s = proc[p].s, TouchesOnly(s)
        PROVE  Runtime!Next
    <3>1. Holders[s] = {p}
      BY <2>4, OnlyHolder DEF Holds
    <3>2. Runtime!TouchOnly(s)
      BY <2>4, RuntimeTouch
    <3>3. Runtime!Work(p, s)
      BY <2>1, <2>2, <3>1, <3>2 DEF Runtime!Work, Holders, LockedServers
    <3>. QED BY <3>3 DEF Runtime!Next
  <2>. QED BY <1>3, <2>3, <2>4 DEF Quiet
<1>4. ASSUME NEW s \in Servers, Takes(p, s) \/ Frees(p, s) \/ Drops(p, s)
      PROVE  Runtime!Next
  <2>1. \A t \in Servers \ {s} : t \in LockedServers' <=> t \in LockedServers
    <3>1. \A t \in Servers \ {s} : Lock(t)' = Lock(t)
      BY <1>4 DEF Takes, Frees, Drops, SameLocksExcept
    <3>. QED BY <3>1 DEF LockedServers, Lock, HasStatus, Transitional
  <2>2. CASE Takes(p, s)
    <3>1. s \notin LockedServers /\ LockedServers' = LockedServers \cup {s}
      <4>1. Lock(s) = "none" /\ Lock(s)' # "none"
        BY <2>2 DEF Takes
      <4>. QED BY <2>1, <4>1 DEF LockedServers, Lock, HasStatus, Transitional
    <3>2. Holders' = [Holders EXCEPT ![s] = {p}]
      <4>1. \A q \in Procs : ~Holds(q, s)
        BY <2>2 DEF LockInv, Backed, Takes, Holds
      <4>2. \A t \in Servers : ~Holds(p, t) /\ (Holds(p, t)' <=> t = s)
        BY <2>2, MoverHolds
      <4>3. ASSUME NEW t \in Servers
            PROVE  {q \in Procs : Holds(q, t)'} = IF t = s THEN {p} ELSE {q \in Procs : Holds(q, t)}
        BY <1>2, <4>1, <4>2
      <4>. QED BY <4>3 DEF Holders
    <3>3. PresentPairs' = PresentPairs
      BY <2>2, SamePairs DEF Takes
    <3>4. Runtime!Acquire(p, s)
      BY <3>1, <3>2, <3>3 DEF Runtime!Acquire, LockedServers, Holders, PresentPairs
    <3>. QED BY <3>4 DEF Runtime!Next
  <2>3. CASE Frees(p, s) \/ Drops(p, s)
    <3>1. \A t \in Servers : (Holds(p, t) <=> t = s) /\ ~Holds(p, t)'
      BY <2>3, MoverHolds
    <3>2. Holders[s] = {p}
      BY <3>1, OnlyHolder
    <3>3. Holders' = [Holders EXCEPT ![s] = {}]
      <4>1. \A q \in Procs \ {p} : ~Holds(q, s)
        BY <3>1 DEF LockInv, ClaimsExclude
      <4>2. ASSUME NEW t \in Servers
            PROVE  {q \in Procs : Holds(q, t)'} = IF t = s THEN {} ELSE {q \in Procs : Holds(q, t)}
        BY <1>2, <3>1, <4>1
      <4>. QED BY <4>2 DEF Holders
    <3>4. s \in LockedServers
      <4>1. Lock(s) = Claim(p) /\ Claim(p) # "none"
        BY <3>1 DEF LockInv, Backed, Holds
      <4>. QED BY <4>1, LockedIsLock
    <3>5. CASE Frees(p, s)
      <4>1. LockedServers' = LockedServers \ {s}
        <5>1. Lock(s)' = "none"
          BY <3>5 DEF Frees
        <5>. QED BY <2>1, <5>1 DEF LockedServers, Lock, HasStatus, Transitional
      <4>2. PresentPairs' = PresentPairs
        BY <3>5, SamePairs DEF Frees
      <4>3. Runtime!Release(p, s)
        BY <3>2, <3>3, <4>1, <4>2 DEF Runtime!Release, LockedServers, Holders, PresentPairs
      <4>. QED BY <4>3 DEF Runtime!Next
    <3>6. CASE Drops(p, s)
      <4>1. LockedServers' = LockedServers
        <5>1. Lock(s)' # "none"
          BY <3>6 DEF Drops
        <5>2. s \in LockedServers'
          BY <5>1 DEF LockedServers, Lock, HasStatus, Transitional
        <5>. QED BY <2>1, <3>4, <5>2 DEF LockedServers
      <4>2. Runtime!TouchOnly(s)
        BY <3>6, RuntimeTouch DEF Drops
      <4>3. Runtime!Abandon(p, s)
        BY <3>2, <3>3, <4>1, <4>2 DEF Runtime!Abandon, LockedServers, Holders
      <4>. QED BY <4>3 DEF Runtime!Next
    <3>. QED BY <2>3, <3>5, <3>6
  <2>. QED BY <1>4, <2>2, <2>3
<1>. QED BY <1>3, <1>4 DEF Move

\* The handlers implement the lock of ExclusiveRuntime: a container comes or
\* goes only in a step of the one request that holds its server's claim.
THEOREM HandlersImplementLock ==
  ASSUME Ordinary
  PROVE  Spec => ImplementsExclusiveRuntime
<1>1. Init => Runtime!Init
  BY RuntimeInit
<1>2. TypeInv /\ LockInv /\ [Next]_vars => [Runtime!Next]_(Runtime!vars)
  <2>. SUFFICES ASSUME TypeInv, LockInv, [Next]_vars PROVE [Runtime!Next]_(Runtime!vars)
    OBVIOUS
  <2>1. CASE UNCHANGED vars
    BY <2>1 DEF vars, Runtime!vars, HasStatus, Exists, Holds, Claim
  <2>. QED BY <2>1, NextMoves, RuntimeMove
<1>. QED BY <1>1, <1>2, Reachable, PTL DEF Spec, ImplementsExclusiveRuntime, Runtime!Spec

-----------------------------------------------------------------------------
(* Rows and containers.                                                    *)
(*                                                                         *)
(* A container comes or goes only while its server is locked, and a row    *)
(* stays at its node unless it is placed anew (StepPlaces), so a stable    *)
(* row can lose its container only where a lock is opened.  Knows(p) is    *)
(* what the request that opens it has found out on its way there.          *)


\* Where a creation works on the row it reserved, and where a creation or an
\* egg change has made its container.
MakingPoints ==
  {"assignPorts", "resolve", "create", "recordRead", "finalize", "cleanup", "release"}
MadePoints == {"recordRead", "finalize", "eggUpsert"}

Knows(p) ==
  proc[p] # None =>
    /\ proc[p].pc # "recordUpsert"
    /\ proc[p].pc \in {"restore", "eggRestore"} => faults > 0
    /\ proc[p].pc \in MakingPoints =>
         Exists(proc[p].s) /\ servers[proc[p].s].node = proc[p].snap.node
    /\ proc[p].pc \in MadePoints => Present(<<proc[p].snap.node, proc[p].s>>)

RowsBacked == (\A p \in Procs : Knows(p)) /\ ServersHaveContainers

-----------------------------------------------------------------------------
(* What one step does to the failures, the containers and the rows.        *)

LEMMA GotoKeeps ==
  ASSUME RequestsOK, NEW p \in Procs, proc[p] # None, NEW point, Goto(p, point)
  PROVE  /\ proc'[p].pc = point /\ proc'[p].s = proc[p].s
         /\ proc'[p].snap = proc[p].snap /\ proc'[p].op = proc[p].op
BY DEF RequestsOK, Request, Goto

\* A failed call is never forgotten.
LEMMA FaultsGrow ==
  ASSUME TypeInv, NEW p \in Procs, Arrive(p) \/ Step(p) \/ Crash(p)
  PROVE  faults \in Nat /\ faults' \in Nat /\ faults <= faults'
<1>0. faults \in Nat
  BY BoundsAssumption DEF TypeInv, AgentsOK
<1>1. faults' = faults \/ faults' = faults + 1
  <2>1. ASSUME NEW n, NEW s, NEW outcome, NEW state, AgentCall(n, s, outcome, state)
        PROVE  faults' = faults \/ faults' = faults + 1
    BY <2>1 DEF AgentCall
  <2>2. ASSUME NEW r, NEW outcome, NEW state, AgentPower(r, outcome, state)
        PROVE  faults' = faults \/ faults' = faults + 1
    BY <2>1, <2>2 DEF AgentPower, agents
  <2>3. CASE Arrive(p) \/ Crash(p)
    BY <2>3 DEF Arrive, Crash, Reserve, DeleteRead, ClaimRemove, EggRead, SettingsRead,
       FreezeRead, UnfreezeRead, PowerRead, ObservePoll, agents
  <2>4. CASE CreateStep(p)
    BY <2>1, <2>4 DEF CreateStep, AssignPorts, ResolveEgg, CreateContainer, RecordRead, Finalize,
       RecordUpsert, Notify, Cleanup, Release, agents
  <2>5. CASE DeleteStep(p)
    BY <2>1, <2>5 DEF DeleteStep, ClaimDelete, DeleteDatabases, DeleteContainer, RemoveRow,
       RestoreRow, agents
  <2>6. CASE EggStep(p)
    BY <2>1, <2>6 DEF EggStep, EggClaim, EggDelete, EggRestore, EggCreate, EggUpsert, agents
  <2>7. CASE WriteStep(p)
    BY <2>2, <2>7 DEF WriteStep, ReconcilePorts, SettingsWrite, WriteFlag, FreezeStatus,
       UnfreezeStatus, FreezeStop, agents
  <2>8. CASE RuntimeStep(p)
    BY <2>2, <2>8 DEF RuntimeStep, PowerAgent, PowerStatus, ObserveRead, ObserveWrite, agents
  <2>. QED BY <2>3, <2>4, <2>5, <2>6, <2>7, <2>8 DEF Step
<1>. QED BY <1>0, <1>1

\* Containers of a server that p does not hold come and go only without p.
LEMMA MovePresence ==
  ASSUME LockInv, NEW p \in Procs, Move(p), NEW s \in Servers, ~Holds(p, s), NEW n \in Nodes
  PROVE  Present(<<n, s>>)' <=> Present(<<n, s>>)
<1>1. <<n, s>> \in Nodes \X Servers /\ <<n, s>>[2] = s
  OBVIOUS
<1>. QED BY <1>1 DEF Move, Quiet, Takes, Frees, Drops, SamePresence, TouchesOnly, Holds

\* A holder opens its lock and leaves a row behind in one of four places.
OpeningPoints == {"finalize", "restore", "eggRestore", "eggUpsert"}

LEMMA FreeingPoint ==
  ASSUME Inv, NEW p \in Procs, Knows(p), Arrive(p) \/ Step(p) \/ Crash(p),
         NEW s \in Servers, Holds(p, s), Lock(s)' = "none", Exists(s)'
  PROVE  proc[p].pc \in OpeningPoints
<1>1. proc[p] # None /\ proc[p].s = s /\ Lock(s) = Claim(p) /\ Claim(p) # "none"
  BY HolderLock DEF Holds
<1>2. servers' # servers
  BY <1>1 DEF Lock, HasStatus, Exists
<1>3. proc[p].pc \in ProvisioningPoints \cup DeletingPoints
  BY <1>1 DEF Claim
<1>4. ~Arrive(p) /\ ~Crash(p)
  BY <1>1, <1>2 DEF Arrive, Crash, Reserve, DeleteRead, ClaimRemove, EggRead, SettingsRead,
     FreezeRead, UnfreezeRead, PowerRead, ObservePoll, Begin
<1>5. ~WriteStep(p) /\ ~RuntimeStep(p)
  BY <1>3 DEF WriteStep, RuntimeStep, ReconcilePorts, SettingsWrite, WriteFlag, FreezeStatus,
     UnfreezeStatus, FreezeStop, PowerAgent, PowerStatus, ObserveRead, ObserveWrite, At,
     ProvisioningPoints, DeletingPoints
<1>6. ~RecordUpsert(p) /\ ~ClaimDelete(p) /\ ~EggClaim(p)
  BY <1>3 DEF Knows, RecordUpsert, ClaimDelete, EggClaim, At, ProvisioningPoints,
     DeletingPoints
<1>7. CASE Release(p)
  <2>1. Lock(s) = "provisioning"
    BY <1>1, <1>3, <1>7 DEF Release, At, Claim, ProvisioningPoints, DeletingPoints
  <2>. QED BY <1>1, <1>7, <2>1 DEF Release, ReleaseProvisioning, Lock, HasStatus, Exists,
         Inv, TypeInv, TableOK, RegistryTypeOK
<1>8. CASE RemoveRow(p)
  BY <1>1, <1>8 DEF RemoveRow, Remove, Exists, Inv, TypeInv, TableOK, RegistryTypeOK
<1>9. Finalize(p) \/ Release(p) \/ RemoveRow(p) \/ RestoreRow(p) \/ EggRestore(p) \/ EggUpsert(p)
  BY <1>2, <1>4, <1>5, <1>6 DEF Step, CreateStep, DeleteStep, EggStep, AssignPorts, ResolveEgg,
     CreateContainer, RecordRead, Notify, Cleanup, DeleteDatabases, DeleteContainer, EggDelete,
     EggCreate
<1>10. proc[p].pc # "lateRestore"
  BY <1>1 DEF Inv, NoLate, LatePoints
<1>. QED BY <1>7, <1>8, <1>9, <1>10 DEF Finalize, RestoreRow, EggRestore, EggUpsert, At,
       OpeningPoints

-----------------------------------------------------------------------------
(* What the request that moves knows afterwards.                           *)

\* A request that is over, or at a point where it need not know anything.
PlainlyKnows(p) ==
  proc'[p] # None =>
    proc'[p].pc \notin MakingPoints \cup {"eggUpsert", "recordUpsert", "restore", "eggRestore"}

LEMMA PlainKnows ==
  ASSUME NEW p \in Procs, PlainlyKnows(p)
  PROVE  Knows(p)'
BY DEF PlainlyKnows, Knows, MakingPoints, MadePoints

LEMMA DonePlainly ==
  ASSUME RequestsOK, NEW p \in Procs, Done(p)
  PROVE  PlainlyKnows(p)
BY DEF RequestsOK, Done, PlainlyKnows

LEMMA BeginPlainly ==
  ASSUME RequestsOK, NEW p \in Procs, NEW r, Begin(p, r),
         r.pc \notin MakingPoints \cup {"eggUpsert", "recordUpsert", "restore", "eggRestore"}
  PROVE  PlainlyKnows(p)
BY DEF RequestsOK, Begin, PlainlyKnows

\* An agent call that succeeds leaves the container in the state asked for,
\* and a call that does not is counted.
LEMMA AgentCallKnows ==
  ASSUME TypeInv, NEW n \in Nodes, NEW s \in Servers, NEW outcome, NEW state,
         AgentCall(n, s, outcome, state)
  PROVE  /\ outcome = "ok" => container'[<<n, s>>] = state
         /\ outcome # "ok" => faults' > 0
BY BoundsAssumption DEF TypeInv, AgentsOK, AgentCall

LEMMA ArriveKnows ==
  ASSUME TypeInv, NEW p \in Procs, Arrive(p)
  PROVE  Knows(p)'
<1>. USE DEF TypeInv
<1>1. ASSUME NEW s \in Servers, NEW n \in Nodes, NEW op \in CreateOps, Reserve(p, s, n, op)
      PROVE  Knows(p)'
  <2>1. /\ proc'[p].s = s /\ proc'[p].snap = servers'[s] /\ proc'[p].pc = "assignPorts"
    BY <1>1 DEF Reserve, Begin, RequestsOK
  <2>2. servers'[s] \in Row
    BY <1>1, ReserveLocks DEF Reserve, TableOK
  <2>. QED BY <2>1, <2>2, NoneAssumption DEF Knows, MakingPoints, MadePoints, Exists
<1>2. ASSUME NEW s \in Servers, \/ \E op \in AdminDeleteOps : DeleteRead(p, s, op)
                                \/ \E op \in RemoveOps : ClaimRemove(p, s, op)
                                \/ EggRead(p, s) \/ SettingsRead(p, s)
                                \/ \E billing \in BOOLEAN : FreezeRead(p, s, billing)
                                \/ UnfreezeRead(p, s)
                                \/ \E op \in PowerOps : PowerRead(p, s, op)
                                \/ \E n \in Nodes : ObservePoll(p, s, n)
      PROVE  PlainlyKnows(p)
  BY <1>2, BeginPlainly DEF DeleteRead, ClaimRemove, EggRead, SettingsRead, FreezeRead,
     UnfreezeRead, PowerRead, ObservePoll, MakingPoints
<1>. QED BY <1>1, <1>2, PlainKnows DEF Arrive

LEMMA CreateStepKnows ==
  ASSUME Inv, Ordinary, NEW p \in Procs, Knows(p), CreateStep(p)
  PROVE  Knows(p)'
<1>. USE DEF Inv, TypeInv
<1>0. ASSUME proc[p] # None
      PROVE  /\ proc[p].s \in Servers /\ proc[p] \in Request
             /\ Claim(p) # "none" => HasStatus(proc[p].s, {Claim(p)})
             /\ proc[p].pc \notin ObservePoints => proc[p].snap \in Row /\ proc[p].snap.node \in Nodes
  BY <1>0 DEF RequestsOK, Request, WellFormed, Row, ClaimsBacked
<1>1. ASSUME NEW point \in {"resolve", "create", "cleanup", "release"},
             proc[p] # None, proc[p].pc \in MakingPoints,
             Goto(p, point), UNCHANGED servers
      PROVE  Knows(p)'
  BY <1>1, GotoKeeps DEF Knows, MakingPoints, MadePoints, Exists
<1>2. ASSUME NEW point \in {"notify", "lateCleanup", "lateRelease"}, proc[p] # None, Goto(p, point)
      PROVE  Knows(p)'
  BY <1>2, GotoKeeps DEF Knows, MakingPoints, MadePoints
<1>3. Done(p) => Knows(p)'
  BY DonePlainly, PlainKnows
<1>4. CASE AssignPorts(p)
  BY <1>1, <1>4 DEF AssignPorts, At, MakingPoints
<1>5. CASE ResolveEgg(p)
  BY <1>1, <1>3, <1>5 DEF ResolveEgg, At, MakingPoints
<1>6. CASE CreateContainer(p)
  <2>1. PICK outcome \in Outcomes :
          /\ AgentCall(proc[p].snap.node, proc[p].s, outcome, "stopped")
          /\ Goto(p, CASE outcome = "ok" ->
                            IF proc[p].op \in RecordingOps THEN "recordRead" ELSE "finalize"
                       [] outcome = "rejected" /\ proc[p].op \in RecordingOps -> "release"
                       [] OTHER -> "cleanup")
    BY <1>6 DEF CreateContainer
  <2>2. At(p, "create") /\ UNCHANGED servers
    BY <1>6 DEF CreateContainer
  <2>3. CASE outcome = "ok"
    <3>1. PICK point \in {"recordRead", "finalize"} : Goto(p, point)
      BY <2>1, <2>3
    <3>2. container'[<<proc[p].snap.node, proc[p].s>>] = "stopped"
      BY <1>0, <2>1, <2>2, <2>3, AgentCallKnows DEF At, ObservePoints
    <3>. QED BY <2>2, <3>1, <3>2, GotoKeeps DEF At, Knows, MakingPoints, MadePoints, Exists, Present
  <2>4. CASE outcome # "ok"
    <3>1. Goto(p, "release") \/ Goto(p, "cleanup")
      BY <2>1, <2>4
    <3>. QED BY <1>1, <2>2, <3>1 DEF At, MakingPoints
  <2>. QED BY <2>3, <2>4
<1>7. CASE RecordRead(p)
  <2>1. At(p, "recordRead") /\ UNCHANGED <<servers, container>>
    BY <1>7 DEF RecordRead, agents
  <2>2. HasStatus(proc[p].s, {"provisioning"})
    BY <1>0, <2>1 DEF At, Claim, ProvisioningPoints
  <2>3. Goto(p, "finalize")
    BY <1>7, <2>2 DEF RecordRead
  <2>. QED BY <2>1, <2>3, GotoKeeps DEF At, Knows, MakingPoints, MadePoints, Exists, Present
<1>8. CASE Finalize(p)
  <2>1. At(p, "finalize")
    BY <1>8 DEF Finalize
  <2>2. HasStatus(proc[p].s, {"provisioning"})
    BY <1>0, <2>1 DEF At, Claim, ProvisioningPoints
  <2>3. proc[p] \in Request /\ proc[p].snap \in Row
    BY <1>0, <2>1 DEF At, ObservePoints
  <2>. QED BY <1>1, <1>2, <1>3, <1>8, <2>1, <2>3, FinalizeWrites DEF At, MakingPoints
<1>9. CASE RecordUpsert(p)
  BY <1>9 DEF RecordUpsert, At, Knows
<1>10. CASE Notify(p) \/ Release(p)
  BY <1>2, <1>3, <1>10 DEF Notify, Release, At
<1>11. CASE Cleanup(p)
  BY <1>1, <1>2, <1>11 DEF Cleanup, At, MakingPoints
<1>. QED BY <1>4, <1>5, <1>6, <1>7, <1>8, <1>9, <1>10, <1>11 DEF CreateStep

LEMMA DeleteStepKnows ==
  ASSUME Inv, NEW p \in Procs, Knows(p), DeleteStep(p)
  PROVE  Knows(p)'
<1>. USE DEF Inv, TypeInv
<1>1. ASSUME NEW point \in {"deleteContainer", "remove", "lateRestore", "deleteDatabases"},
             proc[p] # None, Goto(p, point)
      PROVE  Knows(p)'
  BY <1>1, GotoKeeps DEF Knows, MakingPoints, MadePoints
<1>2. ASSUME proc[p] # None, Goto(p, "restore"), faults' > 0
      PROVE  Knows(p)'
  BY <1>2, GotoKeeps DEF Knows, MakingPoints, MadePoints
<1>3. Done(p) => Knows(p)'
  BY DonePlainly, PlainKnows
<1>4. CASE ClaimDelete(p)
  <2>1. proc' = [proc EXCEPT ![p] = [proc[p] EXCEPT !.pc = "deleteDatabases",
                                                  !.prev = servers[proc[p].s].status]]
          => Knows(p)'
    <3>1. proc[p] # None => [proc[p] EXCEPT !.pc = "deleteDatabases",
                                          !.prev = servers[proc[p].s].status].pc = "deleteDatabases"
      BY DEF RequestsOK, Request
    <3>. QED BY <1>4, <3>1 DEF ClaimDelete, At, RequestsOK, Knows, MakingPoints, MadePoints
  <2>. QED BY <1>3, <1>4, <2>1 DEF ClaimDelete
<1>5. CASE DeleteDatabases(p)
  BY <1>1, <1>2, <1>5, BoundsAssumption DEF DeleteDatabases, At, AgentsOK
<1>6. CASE DeleteContainer(p)
  <2>1. proc[p] # None /\ proc[p].s \in Servers /\ proc[p].snap.node \in Nodes
    BY <1>6 DEF DeleteContainer, At, RequestsOK, WellFormed, ObservePoints, Request, Row
  <2>. QED BY <1>1, <1>2, <1>6, <2>1, AgentCallKnows DEF DeleteContainer
<1>7. CASE RemoveRow(p)
  BY <1>1, <1>3, <1>7 DEF RemoveRow, At
<1>8. CASE RestoreRow(p)
  BY <1>3, <1>8 DEF RestoreRow
<1>. QED BY <1>4, <1>5, <1>6, <1>7, <1>8 DEF DeleteStep

LEMMA EggStepKnows ==
  ASSUME Inv, NEW p \in Procs, Knows(p), EggStep(p)
  PROVE  Knows(p)'
<1>. USE DEF Inv, TypeInv
<1>0. proc[p] # None /\ proc[p].s \in Servers /\ proc[p].snap.node \in Nodes
  BY DEF EggStep, EggClaim, EggDelete, EggRestore, EggCreate, EggUpsert, At, RequestsOK,
     WellFormed, ObservePoints, Request, Row
<1>1. Done(p) => Knows(p)'
  BY DonePlainly, PlainKnows
<1>2. CASE EggClaim(p)
  <2>1. proc' = [proc EXCEPT ![p] = [@ EXCEPT !.pc = "eggDelete", !.prev = servers[proc[p].s].status]]
          => proc'[p].pc = "eggDelete"
    BY <1>0 DEF RequestsOK, Request
  <2>. QED BY <1>1, <1>2, <2>1 DEF EggClaim, Knows, MakingPoints, MadePoints
<1>3. CASE EggDelete(p)
  <2>1. PICK outcome \in Outcomes :
          /\ AgentCall(proc[p].snap.node, proc[p].s, outcome, "none")
          /\ Goto(p, IF outcome = "ok" THEN "eggCreate" ELSE "eggRestore")
    BY <1>3 DEF EggDelete
  <2>. QED BY <1>0, <2>1, AgentCallKnows, GotoKeeps DEF Knows, MakingPoints, MadePoints
<1>4. CASE EggCreate(p)
  <2>1. PICK outcome \in Outcomes :
          /\ AgentCall(proc[p].snap.node, proc[p].s, outcome, "stopped")
          /\ IF outcome = "ok" THEN Goto(p, "eggUpsert") ELSE Done(p)
    BY <1>4 DEF EggCreate
  <2>2. CASE outcome = "ok"
    <3>1. container'[<<proc[p].snap.node, proc[p].s>>] = "stopped"
      BY <1>0, <2>1, <2>2, AgentCallKnows
    <3>. QED BY <1>0, <2>1, <2>2, <3>1, GotoKeeps DEF Knows, MakingPoints, MadePoints, Present
  <2>. QED BY <1>1, <2>1, <2>2
<1>5. CASE EggRestore(p) \/ EggUpsert(p)
  BY <1>1, <1>5 DEF EggRestore, EggUpsert
<1>. QED BY <1>2, <1>3, <1>4, <1>5 DEF EggStep

LEMMA OtherStepKnows ==
  ASSUME Inv, NEW p \in Procs, WriteStep(p) \/ RuntimeStep(p) \/ Crash(p)
  PROVE  Knows(p)'
<1>. USE DEF Inv, TypeInv
<1>1. proc[p] # None /\ (Done(p) \/ \E point \in OtherPoints : Goto(p, point))
  BY DEF WriteStep, RuntimeStep, Crash, ReconcilePorts, SettingsWrite, WriteFlag, FreezeStatus,
     UnfreezeStatus, FreezeStop, PowerAgent, PowerStatus, ObserveRead, ObserveWrite, At,
     OtherPoints
<1>2. PlainlyKnows(p)
  BY <1>1, DonePlainly, GotoKeeps DEF PlainlyKnows, OtherPoints, MakingPoints
<1>. QED BY <1>2, PlainKnows

LEMMA MoverKnows ==
  ASSUME Inv, Ordinary, NEW p \in Procs, Knows(p), Arrive(p) \/ Step(p) \/ Crash(p)
  PROVE  Knows(p)'
BY ArriveKnows, CreateStepKnows, DeleteStepKnows, EggStepKnows, OtherStepKnows DEF Step, Inv

-----------------------------------------------------------------------------
(* What the other requests know stays true, and so does the property.      *)

\* The row that a request holds stays at its node while another one moves.
LEMMA OthersRowStays ==
  ASSUME TypeInv, LockInv, Ordinary, NEW p \in Procs, Arrive(p) \/ Step(p) \/ Crash(p), Move(p),
         NEW q \in Procs \ {p}, NEW s \in Servers, Holds(q, s)
  PROVE  Exists(s) /\ Exists(s)' /\ servers'[s].node = servers[s].node
<1>1. ~Holds(p, s)
  BY DEF LockInv, ClaimsExclude
<1>2. Lock(s) # "none" /\ Lock(s)' # "none"
  <2>1. LockInv'
    BY MoveKeepsLocks
  <2>2. Holds(q, s)'
    BY OthersHold DEF Move
  <2>. QED BY <2>1, <2>2 DEF LockInv, Backed, Holds
<1>3. Exists(s) /\ Exists(s)'
  BY <1>2 DEF Lock, HasStatus
<1>4. ASSUME NEW t \in Servers, Places(p, t)
      PROVE  t # s
  BY <1>1, <1>3, <1>4 DEF Places, Holds, At, Claim, ProvisioningPoints
<1>. QED BY <1>3, <1>4, StepPlaces DEF StaysPut, Places

LEMMA OthersKnow ==
  ASSUME TypeInv, LockInv, Ordinary, NEW p \in Procs, Arrive(p) \/ Step(p) \/ Crash(p), Move(p),
         NEW q \in Procs \ {p}, Knows(q)
  PROVE  Knows(q)'
<1>1. CASE proc[q] = None
  BY <1>1 DEF Move, Moves, Knows
<1>2. CASE proc[q] # None
  <2>1. proc'[q] = proc[q]
    BY DEF Move, Moves
  <2>2. faults \in Nat /\ faults' \in Nat /\ faults <= faults'
    BY FaultsGrow
  <2>3. CASE Claim(q) = "none"
    BY <1>2, <2>1, <2>3 DEF Knows, Claim, ProvisioningPoints, DeletingPoints, MakingPoints,
       MadePoints
  <2>4. CASE Claim(q) # "none"
    <3>1. proc[q].s \in Servers /\ proc[q].snap.node \in Nodes
      BY <1>2, <2>4 DEF TypeInv, RequestsOK, WellFormed, Request, Row, Claim, ProvisioningPoints,
         DeletingPoints, ObservePoints
    <3>2. Holds(q, proc[q].s) /\ ~Holds(p, proc[q].s)
      BY <2>4, <3>1 DEF Holds, LockInv, ClaimsExclude
    <3>3. Exists(proc[q].s)' /\ servers'[proc[q].s].node = servers[proc[q].s].node
      BY <3>1, <3>2, <2>1, OthersRowStays DEF Exists
    <3>4. Present(<<proc[q].snap.node, proc[q].s>>) => container'[<<proc[q].snap.node, proc[q].s>>] # "none"
      BY <3>1, <3>2, MovePresence DEF Present
    <3>5. proc[q].pc \in MadePoints => container'[<<proc[q].snap.node, proc[q].s>>] # "none"
      BY <1>2, <3>4 DEF Knows
    <3>. QED BY <1>2, <2>1, <2>2, <3>3, <3>5 DEF Knows, Present, Exists
  <2>. QED BY <2>3, <2>4
<1>. QED BY <1>1, <1>2

\* An egg change writes the row at the node it has made the container on.
LEMMA EggUpsertBacks ==
  ASSUME TypeInv, NEW p \in Procs, Knows(p), EggUpsert(p), NEW s \in Servers, s = proc[p].s,
         Lock(s)' = "none", Lock(s) # "none"
  PROVE  container'[<<servers'[s].node, s>>] # "none"
<1>1. PICK row \in Row : Upsert(s, row) /\ row.node = proc[p].snap.node /\ row.status \in Stable
  BY EggUpsertWrites DEF EggUpsert, At, TypeInv, RequestsOK, WellFormed, ObservePoints, Stable
<1>2. Upsert(s, row) /\ UNCHANGED container
  BY <1>1 DEF EggUpsert, agents
<1>3. ~PortTaken(s, row.node, row.port)
  BY <1>1, <1>2, UpsertLocks DEF TypeInv, TableOK
<1>4. servers'[s] = row
  BY <1>2, <1>3 DEF Upsert, TypeInv, TableOK, RegistryTypeOK
<1>5. Present(<<proc[p].snap.node, s>>)
  BY DEF EggUpsert, At, Knows, MadePoints
<1>. QED BY <1>1, <1>2, <1>4, <1>5 DEF Present

\* The one step that opens a lock over a stable row.
LEMMA OpeningBacks ==
  ASSUME TypeInv, LockInv, Ordinary, NEW p \in Procs, Knows(p), Arrive(p) \/ Step(p) \/ Crash(p),
         Move(p), NEW s \in Servers, Frees(p, s), Exists(s)', faults' = 0
  PROVE  container'[<<servers'[s].node, s>>] # "none"
<1>1. Inv /\ faults = 0
  BY LockInvClaims, FaultsGrow
<1>2. proc[p] # None /\ proc[p].s = s /\ Holds(p, s) /\ Lock(s) # "none" /\ Lock(s)' = "none"
  BY <1>1, HolderLock DEF Frees, Holds
<1>3. proc[p].pc \in {"finalize", "eggUpsert"}
  BY <1>1, <1>2, FreeingPoint DEF Knows, OpeningPoints
<1>4. SamePresence
  BY DEF Frees
<1>5. CASE EggUpsert(p)
  BY <1>2, <1>5, EggUpsertBacks
<1>6. CASE proc[p].pc = "finalize"
  <2>1. Exists(s) /\ servers[s].node = proc[p].snap.node /\ Present(<<proc[p].snap.node, s>>)
    BY <1>2, <1>6 DEF Knows, MakingPoints, MadePoints
  <2>2. ASSUME NEW t \in Servers, Places(p, t)
        PROVE  t # s \/ servers'[s].node = servers[s].node
    BY <1>2, <1>6, <2>1, <2>2 DEF Places, At
  <2>3. servers'[s].node = servers[s].node
    BY <2>2, StepPlaces DEF StaysPut, Places
  <2>4. proc[p].snap.node \in Nodes
    BY <1>2, <1>6 DEF TypeInv, RequestsOK, WellFormed, ObservePoints, Request, Row
  <2>5. <<proc[p].snap.node, s>> \in Nodes \X Servers
    BY <2>4
  <2>. QED BY <1>4, <2>1, <2>3, <2>5 DEF SamePresence, Present
<1>7. CASE proc[p].pc = "eggUpsert" /\ ~EggUpsert(p)
  <2>1. UNCHANGED servers
    BY <1>2, <1>7 DEF Arrive, Crash, Step, CreateStep, DeleteStep, EggStep, WriteStep, RuntimeStep,
       Reserve, DeleteRead, ClaimRemove, EggRead, SettingsRead, FreezeRead, UnfreezeRead,
       PowerRead, ObservePoll, Begin, AssignPorts, ResolveEgg, CreateContainer, RecordRead,
       Finalize, RecordUpsert, Notify, Cleanup, Release, ClaimDelete, DeleteDatabases,
       DeleteContainer, RemoveRow, RestoreRow, EggClaim, EggDelete, EggRestore, EggCreate,
       ReconcilePorts, SettingsWrite, WriteFlag, FreezeStatus, UnfreezeStatus, FreezeStop,
       PowerAgent, PowerStatus, ObserveRead, ObserveWrite, At
  <2>. QED BY <1>2, <2>1 DEF Lock, HasStatus, Exists
<1>. QED BY <1>3, <1>5, <1>6, <1>7

\* A stable row that was stable before has kept its container.
LEMMA StableStays ==
  ASSUME TypeInv, LockInv, Ordinary, RowsBacked, NEW p \in Procs,
         Arrive(p) \/ Step(p) \/ Crash(p), Move(p),
         NEW s \in Servers, Lock(s) = "none", HasStatus(s, Stable)', faults' = 0
  PROVE  container'[<<servers'[s].node, s>>] # "none"
<1>1. faults = 0
  BY FaultsGrow
<1>2. ~Holds(p, s)
  BY DEF LockInv, Backed, Holds
<1>3. ASSUME NEW t \in Servers, Places(p, t)
      PROVE  t # s
  <2>1. CASE Lock(s)' = "provisioning"
    BY <2>1 DEF Lock, HasStatus, Transitional, Stable
  <2>2. CASE At(p, "finalize") \/ At(p, "recordUpsert") \/ At(p, "eggUpsert")
    BY <1>2, <1>3, <2>2 DEF Places, Holds, At, Claim, ProvisioningPoints, Lock, HasStatus,
       Transitional, Stable
  <2>. QED BY <1>3, <2>1, <2>2 DEF Places
<1>4. Exists(s) /\ servers'[s].node = servers[s].node
  BY <1>3, StepPlaces DEF StaysPut, Places, HasStatus
<1>5. HasStatus(s, Stable) /\ servers[s].node \in Nodes
  <2>1. servers[s] \in Row
    BY <1>4, RowRead DEF TypeInv
  <2>. QED BY <1>4, <2>1 DEF Lock, HasStatus, Row, Statuses, Transitional
<1>6. Present(<<servers[s].node, s>>)
  BY <1>1, <1>5 DEF RowsBacked, ServersHaveContainers, Present
<1>7. Present(<<servers[s].node, s>>) => container'[<<servers'[s].node, s>>] # "none"
  <2>1. PICK n \in Nodes : n = servers[s].node
    BY <1>5
  <2>2. container'[<<n, s>>] # "none" <=> container[<<n, s>>] # "none"
    BY <1>2, MovePresence DEF Present
  <2>. QED BY <1>4, <2>1, <2>2 DEF Present
<1>. QED BY <1>6, <1>7

\* RowsBacked is inductive, given the locks.
LEMMA RowsBackedStep ==
  ASSUME Ordinary, TypeInv, LockInv, RowsBacked, [Next]_vars
  PROVE  RowsBacked'
<1>1. CASE UNCHANGED vars
  BY <1>1 DEF vars, RowsBacked, Knows, ServersHaveContainers, Exists, HasStatus, Present
<1>2. ASSUME NEW p \in Procs, Arrive(p) \/ Step(p) \/ Crash(p)
      PROVE  RowsBacked'
  <2>1. Inv /\ Move(p) /\ Knows(p)
    BY <1>2, LockInvClaims, StepMoves DEF RowsBacked
  <2>2. \A q \in Procs : Knows(q)'
    BY <1>2, <2>1, MoverKnows, OthersKnow DEF RowsBacked
  <2>3. ASSUME NEW s \in Servers, HasStatus(s, Stable)', faults' = 0
        PROVE  container'[<<servers'[s].node, s>>] # "none"
    <3>1. CASE Lock(s) = "none"
      BY <1>2, <2>1, <2>3, <3>1, StableStays
    <3>2. CASE Lock(s) # "none"
      <4>1. Lock(s)' = "none" /\ Exists(s)'
        BY <2>3 DEF Lock, HasStatus, Stable, Transitional
      <4>2. Frees(p, s)
        BY <2>1, <3>2, <4>1 DEF Move, Quiet, Takes, Frees, Drops, SameLocks, SameLocksExcept
      <4>. QED BY <1>2, <2>1, <2>3, <4>1, <4>2, OpeningBacks
    <3>. QED BY <3>1, <3>2
  <2>. QED BY <2>2, <2>3 DEF RowsBacked, ServersHaveContainers, HasStatus, Exists
<1>. QED BY <1>1, <1>2 DEF Next

LEMMA RowsBackedInit == Init => RowsBacked
BY DEF Init, RowsBacked, Knows, ServersHaveContainers, HasStatus, Exists

\* While every agent call succeeds, a server that the panel shows as usable
\* has a container on its node, whatever requests race on any number of
\* replicas and nodes: no creation finishes, and no egg change or deletion
\* gives a row back, without the container the row stands for (recordServer,
\* finalizeProvisioning, changeEgg, the catch blocks of the delete routes).
THEOREM ServersHaveContainersAlways ==
  ASSUME Ordinary
  PROVE  Spec => []ServersHaveContainers
<1>1. Init => RowsBacked
  BY RowsBackedInit
<1>2. TypeInv /\ LockInv /\ RowsBacked /\ [Next]_vars => RowsBacked'
  BY RowsBackedStep
<1>3. RowsBacked => ServersHaveContainers
  BY DEF RowsBacked
<1>. QED BY <1>1, <1>2, <1>3, Reachable, PTL DEF Spec

-----------------------------------------------------------------------------
(* No container without a row.  An agent that fails once may keep a        *)
(* container that its handler then knows about; every other container has  *)
(* a row, at the node the container runs on.  The node is the one the      *)
(* handler read before its claim, so the theorem is about the behaviours   *)
(* in which no id is created again on another node under such a handler.   *)

IdsKeepTheirNode ==
  \A p \in Procs :
    /\ proc[p] # None /\ proc[p].pc \notin ObservePoints
    /\ Exists(proc[p].s)
    => servers[proc[p].s].node = proc[p].snap.node

NoContainer(s) == \A n \in Nodes : ~Present(<<n, s>>)

\* Where a request has not made a container yet, or has taken it away.
GonePoints == {"assignPorts", "resolve", "create", "release", "remove"}

FindsNone(p) ==
  proc[p] # None =>
    /\ proc[p].pc \in GonePoints /\ faults < 2 => NoContainer(proc[p].s)
    /\ proc[p].pc = "cleanup" /\ faults = 0 => NoContainer(proc[p].s)

EveryContainerTracked ==
  faults < 2 => \A n \in Nodes, s \in Servers :
                  Present(<<n, s>>) => Exists(s) /\ servers[s].node = n

ContainersTracked == (\A p \in Procs : FindsNone(p)) /\ EveryContainerTracked

\* Only the holder of a claim makes a container, on the node it read.
LEMMA NewContainer ==
  ASSUME Inv, NEW p \in Procs, Arrive(p) \/ Step(p) \/ Crash(p),
         NEW n \in Nodes, NEW s \in Servers, ~Present(<<n, s>>), Present(<<n, s>>)'
  PROVE  /\ Holds(p, s) /\ (At(p, "create") \/ At(p, "eggCreate"))
         /\ n = proc[p].snap.node /\ UNCHANGED servers
<1>. USE DEF Inv, TypeInv
<1>0. proc[p] # None /\ proc[p].pc \notin ObservePoints =>
        proc[p].s \in Servers /\ proc[p].snap \in Row /\ proc[p].snap.node \in Nodes
  BY DEF RequestsOK, WellFormed, Request, Row
<1>1. ASSUME NEW m \in Nodes, NEW t \in Servers, NEW outcome, NEW state,
             AgentCall(m, t, outcome, state)
      PROVE  state # "none" /\ m = n /\ t = s
  BY <1>1 DEF AgentCall, Present, AgentsOK
<1>2. container' # container
  BY DEF Present
<1>3. ~Arrive(p) /\ ~Crash(p)
  BY <1>2 DEF Arrive, Crash, Reserve, DeleteRead, ClaimRemove, EggRead, SettingsRead,
     FreezeRead, UnfreezeRead, PowerRead, ObservePoll, agents
<1>4. ~Cleanup(p) /\ ~DeleteContainer(p) /\ ~EggDelete(p)
  BY <1>0, <1>1 DEF Cleanup, DeleteContainer, EggDelete, At, ObservePoints
<1>5. ~FreezeStop(p) /\ ~PowerAgent(p)
  <2>1. ASSUME At(p, "freezeStop") \/ At(p, "power"), NEW outcome \in Outcomes,
               NEW state \in {"stopped", "running"}, AgentPower(proc[p], outcome, state)
        PROVE  FALSE
    <3>1. proc[p] \in Request /\ proc[p].snap \in Row
      BY <1>0, <2>1 DEF At, RequestsOK, ObservePoints
    <3>2. <<n, s>> \in Nodes \X Servers
      OBVIOUS
    <3>. QED BY <2>1, <3>1, <3>2, AgentPowerOK DEF Present
  <2>. QED BY <2>1 DEF FreezeStop, PowerAgent, PowerState
<1>6. CreateContainer(p) \/ EggCreate(p)
  BY <1>2, <1>3, <1>4, <1>5 DEF Step, CreateStep, DeleteStep, EggStep, WriteStep, RuntimeStep,
     AssignPorts, ResolveEgg, RecordRead, Finalize, RecordUpsert, Notify, Release, ClaimDelete,
     DeleteDatabases, RemoveRow, RestoreRow, EggClaim, EggRestore, EggUpsert, ReconcilePorts,
     SettingsWrite, WriteFlag, FreezeStatus, UnfreezeStatus, PowerStatus, ObserveRead,
     ObserveWrite, agents
<1>. QED BY <1>0, <1>1, <1>6 DEF CreateContainer, EggCreate, At, Holds, Claim, ProvisioningPoints,
       ObservePoints

\* Only the holder of a claim removes a row, after it removed the container.
LEMMA RowRemoved ==
  ASSUME Inv, NEW p \in Procs, Arrive(p) \/ Step(p) \/ Crash(p),
         NEW s \in Servers, Exists(s), ~Exists(s)'
  PROVE  proc[p] # None /\ proc[p].s = s /\ proc[p].pc \in {"release", "remove"}
<1>. USE DEF Inv, TypeInv
<1>0. RegistryTypeOK /\ (proc[p] # None => proc[p].s \in Servers /\ WellFormed(proc[p]))
  BY DEF TableOK, RequestsOK, Request
<1>1. ASSUME NEW t \in Servers, NEW row, row # None,
             servers' = [servers EXCEPT ![t] = row] \/ UNCHANGED servers
      PROVE  FALSE
  BY <1>0, <1>1 DEF RegistryTypeOK, Exists
<1>2. servers' # servers
  BY DEF Exists
<1>3. ASSUME NEW t \in Servers, NEW status \in Statuses,
             \/ Exists(t) /\ WriteStatus(t, status)
             \/ SetStatus(t, status) \/ RestoreDeletion(t, status)
             \/ RestoreTransition(t, "provisioning", status)
      PROVE  FALSE
  BY <1>0, <1>3, NoneAssumption DEF RegistryTypeOK, WriteStatus, SetStatus, RestoreDeletion,
     RestoreTransition, HasStatus, Exists, Row
<1>4. ASSUME NEW t \in Servers, NEW frozen \in BOOLEAN,
             UpdateVariables(t, frozen) \/ AssignPortAllocations(t, frozen)
      PROVE  FALSE
  BY <1>0, <1>4, NoneAssumption DEF RegistryTypeOK, UpdateVariables, AssignPortAllocations,
     HasStatus, Exists, Row
<1>5. ASSUME NEW t \in Servers, NEW row \in Row, Upsert(t, row)
      PROVE  FALSE
  BY <1>1, <1>5, NoneAssumption DEF Upsert
<1>6. ~Arrive(p) /\ ~Crash(p)
  <2>1. ASSUME NEW t \in Servers, NEW n \in Nodes, NEW op \in CreateOps, Reserve(p, t, n, op)
        PROVE  FALSE
    <3>1. servers'[t] \in Row
      BY <1>0, <2>1, ReserveLocks DEF Reserve
    <3>2. t = s
      BY <1>0, <2>1 DEF Reserve, ReserveRandomPort, RegistryTypeOK, Exists
    <3>. QED BY <3>1, <3>2, NoneAssumption DEF Exists
  <2>2. ASSUME NEW t \in Servers, NEW op \in RemoveOps, ClaimRemove(p, t, op)
        PROVE  FALSE
    BY <1>3, <2>2 DEF ClaimRemove, ClaimDeletion, MayClaimDeletion, Statuses, Transitional
  <2>. QED BY <1>2, <2>1, <2>2 DEF Arrive, Crash, DeleteRead, EggRead, SettingsRead, FreezeRead,
         UnfreezeRead, PowerRead, ObservePoll
<1>7. ~ClaimDelete(p) /\ ~RestoreRow(p) /\ ~EggClaim(p) /\ ~EggRestore(p) /\ ~Finalize(p)
  <2>1. ~ClaimDelete(p)
    BY <1>0, <1>2, <1>3 DEF ClaimDelete, At, ClaimDeletion, MayClaimDeletion, Statuses, Transitional
  <2>2. ~RestoreRow(p)
    <3>1. At(p, "restore") \/ At(p, "lateRestore") => RestoreStatus(proc[p]) \in Statuses
      BY <1>0 DEF At, RestoreStatus, WellFormed, ObservePoints, DeletingPoints, Row
    <3>. QED BY <1>0, <1>3, <3>1 DEF RestoreRow, At
  <2>3. ~EggClaim(p)
    BY <1>0, <1>2, <1>3 DEF EggClaim, At, ClaimTransition, HasStatus, Statuses, Transitional
  <2>4. ~EggRestore(p)
    BY <1>0, <1>3 DEF EggRestore, At, WellFormed, EggPoints, Statuses
  <2>5. ~Finalize(p)
    <3>1. ASSUME Finalize(p)
          PROVE  FALSE
      <4>1. proc[p] \in Request /\ proc[p].snap \in Row /\ proc[p].s \in Servers
        BY <1>0, <3>1 DEF Finalize, At, RequestsOK, WellFormed, ObservePoints, Request
      <4>2. PICK reported \in Ports \cup {None} : FinalizeProvisioning(proc[p].s, reported)
        BY <1>2, <3>1, <4>1, FinalizeWrites
      <4>3. PortAfter(proc[p].s, reported) \in Ports \cup {None}
        BY <1>0, <4>1, <4>2 DEF PortAfter, RegistryTypeOK, FinalizeProvisioning, HasStatus, Exists, Row
      <4>4. servers[proc[p].s] \in Row
        BY <1>0, <4>1, <4>2 DEF RegistryTypeOK, FinalizeProvisioning, HasStatus, Exists
      <4>5. CreatedAt(servers[proc[p].s], PortAfter(proc[p].s, reported)) # None
        BY <4>3, <4>4, CreatedRow, NoneAssumption
      <4>. QED BY <1>1, <4>1, <4>2, <4>5 DEF FinalizeProvisioning
    <3>. QED BY <3>1
  <2>. QED BY <2>1, <2>2, <2>3, <2>4, <2>5
<1>8. ~RecordUpsert(p) /\ ~EggUpsert(p)
  <2>1. At(p, "recordUpsert") \/ At(p, "eggUpsert") => proc[p] \in Request /\ proc[p].snap \in Row
    BY <1>0 DEF At, RequestsOK, WellFormed, ObservePoints
  <2>2. ~RecordUpsert(p)
    BY <1>0, <1>5, <2>1, RecordUpsertWrites DEF RecordUpsert, At
  <2>3. ~EggUpsert(p)
    BY <1>0, <1>5, <2>1, EggUpsertWrites DEF EggUpsert, At
  <2>. QED BY <2>2, <2>3
<1>9. ~WriteStep(p)
  <2>1. At(p, "reconcile") \/ At(p, "settingsWrite") => proc[p].snap.frozen \in BOOLEAN
    BY <1>0 DEF At, WellFormed, ObservePoints, Row
  <2>. QED BY <1>0, <1>2, <1>3, <1>4, <2>1 DEF WriteStep, ReconcilePorts, SettingsWrite, WriteFlag,
         FreezeStatus, UnfreezeStatus, FreezeStop, At, Statuses, Stable
<1>10. ~RuntimeStep(p)
  BY <1>0, <1>2, <1>3 DEF RuntimeStep, PowerAgent, PowerStatus, ObserveRead, ObserveWrite, At,
     PowerState, WellFormed, ObservePoints, Statuses, Stable
<1>11. Release(p) \/ RemoveRow(p)
  BY <1>2, <1>6, <1>7, <1>8, <1>9, <1>10 DEF Step, CreateStep, DeleteStep, EggStep, AssignPorts,
     ResolveEgg, CreateContainer, RecordRead, Notify, Cleanup, DeleteDatabases, DeleteContainer,
     EggDelete, EggCreate
<1>12. proc[p] # None => proc[p].pc # "lateRelease"
  BY DEF NoLate, LatePoints
<1>. QED BY <1>0, <1>11, <1>12 DEF Release, ReleaseProvisioning, RemoveRow, Remove, At, Exists,
       RegistryTypeOK

\* What the one agent call of a step leaves of the containers of a server.
LEMMA CallFindsNone ==
  ASSUME AgentsOK, NEW n \in Nodes, NEW s \in Servers, NEW outcome \in Outcomes, NEW state,
         AgentCall(n, s, outcome, state)
  PROVE  /\ NoContainer(s) /\ (outcome \in {"rejected", "unreachable"} \/ state = "none")
              => NoContainer(s)'
         /\ outcome = "ok" /\ state = "none" /\ (\A m \in Nodes : Present(<<m, s>>) => m = n)
              => NoContainer(s)'
         /\ faults' = IF outcome = "ok" THEN faults ELSE faults + 1
BY DEF AgentsOK, AgentCall, NoContainer, Present

\* A request that is over, or at a point where it need not have looked.
FindsPlainly(p) == proc'[p] # None => proc'[p].pc \notin GonePoints \cup {"cleanup"}

LEMMA PlainFinds ==
  ASSUME NEW p \in Procs, FindsPlainly(p)
  PROVE  FindsNone(p)'
BY DEF FindsPlainly, FindsNone

LEMMA DoneFinds ==
  ASSUME RequestsOK, NEW p \in Procs, Done(p)
  PROVE  FindsPlainly(p)
BY DEF RequestsOK, Done, FindsPlainly

LEMMA GotoFinds ==
  ASSUME RequestsOK, NEW p \in Procs, proc[p] # None, NEW point, Goto(p, point),
         point \notin GonePoints \cup {"cleanup"}
  PROVE  FindsPlainly(p)
BY GotoKeeps DEF FindsPlainly

LEMMA ArriveFinds ==
  ASSUME TypeInv, NEW p \in Procs, EveryContainerTracked, Arrive(p)
  PROVE  FindsNone(p)'
<1>. USE DEF TypeInv
<1>1. ASSUME NEW s \in Servers, NEW n \in Nodes, NEW op \in CreateOps, Reserve(p, s, n, op)
      PROVE  FindsNone(p)'
  <2>1. proc'[p].s = s /\ proc'[p].pc = "assignPorts" /\ UNCHANGED <<container, faults>>
    BY <1>1 DEF Reserve, Begin, RequestsOK, agents
  <2>2. faults < 2 => NoContainer(s)
    BY <1>1 DEF Reserve, ReserveRandomPort, EveryContainerTracked, NoContainer
  <2>. QED BY <2>1, <2>2 DEF FindsNone, NoContainer, Present
<1>2. ASSUME NEW r, Begin(p, r), r.pc \notin GonePoints \cup {"cleanup"}
      PROVE  FindsPlainly(p)
  BY <1>2 DEF RequestsOK, Begin, FindsPlainly
<1>3. ASSUME NEW s \in Servers, \/ \E op \in AdminDeleteOps : DeleteRead(p, s, op)
                                \/ \E op \in RemoveOps : ClaimRemove(p, s, op)
                                \/ EggRead(p, s) \/ SettingsRead(p, s)
                                \/ \E billing \in BOOLEAN : FreezeRead(p, s, billing)
                                \/ UnfreezeRead(p, s)
                                \/ \E op \in PowerOps : PowerRead(p, s, op)
                                \/ \E n \in Nodes : ObservePoll(p, s, n)
      PROVE  FindsPlainly(p)
  BY <1>2, <1>3 DEF DeleteRead, ClaimRemove, EggRead, SettingsRead, FreezeRead,
     UnfreezeRead, PowerRead, ObservePoll, GonePoints
<1>. QED BY <1>1, <1>3, PlainFinds DEF Arrive

LEMMA CreateStepFinds ==
  ASSUME Inv, Ordinary, NEW p \in Procs, Knows(p), FindsNone(p), EveryContainerTracked,
         CreateStep(p)
  PROVE  FindsNone(p)'
<1>. USE DEF Inv, TypeInv
<1>0. /\ faults \in Nat
      /\ proc[p] # None /\ proc[p].pc \notin ObservePoints =>
           proc[p].s \in Servers /\ proc[p].snap.node \in Nodes
      /\ proc[p] # None /\ proc[p].pc = "finalize" => HasStatus(proc[p].s, {"provisioning"})
  <2>1. faults \in Nat
    BY BoundsAssumption DEF AgentsOK
  <2>2. proc[p] # None /\ proc[p].pc \notin ObservePoints =>
          proc[p].s \in Servers /\ proc[p].snap.node \in Nodes
    BY DEF RequestsOK, WellFormed, Request, Row
  <2>3. proc[p] # None /\ proc[p].pc = "finalize" => HasStatus(proc[p].s, {"provisioning"})
    BY DEF ClaimsBacked, Claim, ProvisioningPoints
  <2>. QED BY <2>1, <2>2, <2>3
<1>1. (Done(p) \/ \E point \in {"recordRead", "finalize", "recordUpsert", "notify", "lateCleanup",
                                "lateRelease"} : proc[p] # None /\ Goto(p, point)) => FindsNone(p)'
  BY DoneFinds, GotoFinds, PlainFinds DEF GonePoints
<1>2. ASSUME proc[p] # None, proc[p].pc \in {"assignPorts", "resolve"},
             NEW point \in {"resolve", "create", "cleanup", "release"}, Goto(p, point),
             UNCHANGED agents
      PROVE  FindsNone(p)'
  BY <1>2, GotoKeeps DEF FindsNone, GonePoints, NoContainer, Present, agents
<1>3. CASE AssignPorts(p) \/ ResolveEgg(p)
  BY <1>1, <1>2, <1>3 DEF AssignPorts, ResolveEgg, At
<1>4. CASE CreateContainer(p)
  <2>1. PICK outcome \in Outcomes :
          /\ AgentCall(proc[p].snap.node, proc[p].s, outcome, "stopped")
          /\ Goto(p, CASE outcome = "ok" ->
                            IF proc[p].op \in RecordingOps THEN "recordRead" ELSE "finalize"
                       [] outcome = "rejected" /\ proc[p].op \in RecordingOps -> "release"
                       [] OTHER -> "cleanup")
    BY <1>4 DEF CreateContainer
  <2>2. At(p, "create")
    BY <1>4 DEF CreateContainer
  <2>3. PICK s \in Servers, n \in Nodes : s = proc[p].s /\ n = proc[p].snap.node
    BY <1>0, <2>2 DEF At, ObservePoints
  <2>4. faults < 2 => NoContainer(s)
    BY <2>2, <2>3 DEF At, FindsNone, GonePoints
  <2>5. CASE outcome = "ok"
    BY <1>1, <2>1, <2>2, <2>5 DEF At
  <2>6. CASE outcome = "rejected" /\ Goto(p, "release")
    <3>1. faults' = faults + 1 /\ (NoContainer(s) => NoContainer(s)')
      BY <2>1, <2>3, <2>6, CallFindsNone
    <3>2. proc'[p].pc = "release" /\ proc'[p].s = s
      BY <2>2, <2>3, <2>6, GotoKeeps DEF At
    <3>. QED BY <1>0, <2>4, <3>1, <3>2 DEF FindsNone, NoContainer
  <2>7. CASE outcome # "ok" /\ Goto(p, "cleanup")
    <3>1. faults' = faults + 1
      BY <2>1, <2>3, <2>7, CallFindsNone
    <3>2. proc'[p].pc = "cleanup"
      BY <2>2, <2>7, GotoKeeps DEF At
    <3>. QED BY <1>0, <3>1, <3>2 DEF FindsNone, GonePoints
  <2>. QED BY <2>1, <2>5, <2>6, <2>7
<1>5. CASE Cleanup(p)
  <2>1. PICK outcome \in Outcomes : AgentCall(proc[p].snap.node, proc[p].s, outcome, "none")
    BY <1>5 DEF Cleanup
  <2>2. CASE At(p, "cleanup")
    <3>1. Goto(p, "release")
      BY <1>5, <2>2 DEF Cleanup, At
    <3>2. PICK s \in Servers, n \in Nodes : s = proc[p].s /\ n = proc[p].snap.node
      BY <1>0, <2>2 DEF At, ObservePoints
    <3>3. proc'[p].pc = "release" /\ proc'[p].s = s
      BY <2>2, <3>1, <3>2, GotoKeeps DEF At
    <3>4. CASE outcome = "ok"
      <4>1. faults < 2 => \A m \in Nodes : Present(<<m, s>>) => m = n
        BY <2>2, <3>2 DEF At, Knows, MakingPoints, EveryContainerTracked
      <4>. QED BY <2>1, <3>2, <3>3, <3>4, <4>1, CallFindsNone DEF FindsNone, NoContainer
    <3>5. CASE outcome # "ok"
      <4>1. faults = 0 => NoContainer(s)
        BY <2>2, <3>2 DEF At, FindsNone
      <4>2. faults' = faults + 1 /\ (NoContainer(s) => NoContainer(s)')
        BY <2>1, <3>2, <3>5, CallFindsNone
      <4>. QED BY <1>0, <3>3, <4>1, <4>2 DEF FindsNone, NoContainer
    <3>. QED BY <3>4, <3>5
  <2>3. CASE At(p, "lateCleanup")
    BY <1>1, <1>5, <2>3 DEF Cleanup, At
  <2>. QED BY <1>5, <2>2, <2>3 DEF Cleanup
<1>6. CASE Finalize(p)
  <2>1. At(p, "finalize") /\ proc[p] \in Request /\ proc[p].snap \in Row
    BY <1>6 DEF Finalize, At, RequestsOK, WellFormed, ObservePoints
  <2>2. CASE Goto(p, "notify") \/ Done(p)
    BY <1>1, <2>1, <2>2 DEF At
  <2>3. CASE Goto(p, "cleanup") /\ faults' = faults + 1
    <3>1. proc'[p].pc = "cleanup"
      BY <2>1, <2>3, GotoKeeps DEF At
    <3>. QED BY <1>0, <2>3, <3>1 DEF FindsNone, GonePoints
  <2>. QED BY <1>0, <1>6, <2>1, <2>2, <2>3, FinalizeWrites DEF At
<1>7. CASE RecordRead(p) \/ Notify(p) \/ Release(p)
  BY <1>1, <1>7 DEF RecordRead, Notify, Release, At
<1>8. ~RecordUpsert(p)
  BY DEF RecordUpsert, At, Knows
<1>. QED BY <1>3, <1>4, <1>5, <1>6, <1>7, <1>8 DEF CreateStep

LEMMA OtherStepFinds ==
  ASSUME TypeInv, Ordinary, NEW p \in Procs, IdsKeepTheirNode, EveryContainerTracked,
         DeleteStep(p) \/ EggStep(p) \/ WriteStep(p) \/ RuntimeStep(p) \/ Crash(p)
  PROVE  FindsNone(p)'
<1>. USE DEF TypeInv
<1>0. /\ proc[p] # None
      /\ proc[p].op \notin {"forceDelete", "databaseOnlyDelete"}
  BY DEF DeleteStep, EggStep, WriteStep, RuntimeStep, Crash, ClaimDelete, DeleteDatabases,
     DeleteContainer, RemoveRow, RestoreRow, EggClaim, EggDelete, EggRestore, EggCreate,
     EggUpsert, ReconcilePorts, SettingsWrite, WriteFlag, FreezeStatus, UnfreezeStatus,
     FreezeStop, PowerAgent, PowerStatus, ObserveRead, ObserveWrite, At, RequestsOK, WellFormed,
     Ordinary
<1>1. ASSUME NEW point, point \notin GonePoints \cup {"cleanup"}, Goto(p, point)
      PROVE  FindsNone(p)'
  BY <1>0, <1>1, GotoFinds, PlainFinds
<1>2. Done(p) => FindsNone(p)'
  BY DoneFinds, PlainFinds
<1>3. CASE ClaimDelete(p)
  <2>1. ASSUME proc' = [proc EXCEPT ![p] = [proc[p] EXCEPT !.pc = "deleteDatabases",
                                                         !.prev = servers[proc[p].s].status]]
        PROVE  FindsPlainly(p)
    BY <1>0, <2>1 DEF RequestsOK, Request, FindsPlainly, GonePoints
  <2>. QED BY <1>2, <1>3, <2>1, PlainFinds DEF ClaimDelete
<1>4. CASE DeleteDatabases(p)
  <2>1. ~LocalCleanup(proc[p])
    BY <1>0 DEF LocalCleanup, ProvisioningRecovery
  <2>. QED BY <1>1, <1>4, <2>1 DEF DeleteDatabases, GonePoints
<1>5. CASE DeleteContainer(p)
  <2>1. PICK outcome \in Outcomes :
          /\ AgentCall(proc[p].snap.node, proc[p].s, outcome, "none")
          /\ Goto(p, IF outcome = "ok" THEN "remove" ELSE "restore")
    BY <1>5 DEF DeleteContainer
  <2>2. At(p, "deleteContainer")
    BY <1>5 DEF DeleteContainer
  <2>3. PICK s \in Servers, n \in Nodes : s = proc[p].s /\ n = proc[p].snap.node
    BY <2>2 DEF At, RequestsOK, WellFormed, ObservePoints, Request, Row
  <2>4. CASE outcome = "ok"
    <3>1. faults < 2 => \A m \in Nodes : Present(<<m, s>>) => m = n
      BY <2>2, <2>3 DEF At, IdsKeepTheirNode, ObservePoints, EveryContainerTracked
    <3>2. faults' = faults /\ (faults < 2 => NoContainer(s)')
      BY <2>1, <2>3, <2>4, <3>1, CallFindsNone
    <3>3. proc'[p].pc = "remove" /\ proc'[p].s = s
      BY <1>0, <2>1, <2>3, <2>4, GotoKeeps
    <3>. QED BY <3>2, <3>3 DEF FindsNone, NoContainer
  <2>5. CASE outcome # "ok"
    BY <1>1, <2>1, <2>5 DEF GonePoints
  <2>. QED BY <2>4, <2>5
<1>6. CASE RemoveRow(p) \/ RestoreRow(p)
  BY <1>1, <1>2, <1>6 DEF RemoveRow, RestoreRow, GonePoints
<1>7. CASE EggStep(p)
  <2>1. CASE EggClaim(p)
    <3>1. ASSUME proc' = [proc EXCEPT ![p] = [@ EXCEPT !.pc = "eggDelete", !.prev = servers[proc[p].s].status]]
          PROVE  FindsPlainly(p)
      BY <1>0, <3>1 DEF RequestsOK, Request, FindsPlainly, GonePoints
    <3>. QED BY <1>2, <2>1, <3>1, PlainFinds DEF EggClaim
  <2>2. CASE EggDelete(p) \/ EggCreate(p)
    <3>1. Done(p) \/ Goto(p, "eggCreate") \/ Goto(p, "eggRestore") \/ Goto(p, "eggUpsert")
      BY <2>2 DEF EggDelete, EggCreate
    <3>. QED BY <1>1, <1>2, <3>1 DEF GonePoints
  <2>. QED BY <1>2, <1>7, <2>1, <2>2 DEF EggStep, EggRestore, EggUpsert
<1>8. CASE WriteStep(p) \/ RuntimeStep(p) \/ Crash(p)
  <2>1. Done(p) \/ \E point \in OtherPoints : Goto(p, point)
    BY <1>8 DEF WriteStep, RuntimeStep, Crash, ReconcilePorts, SettingsWrite, WriteFlag,
       FreezeStatus, UnfreezeStatus, FreezeStop, PowerAgent, PowerStatus, ObserveRead,
       ObserveWrite, OtherPoints
  <2>. QED BY <1>1, <1>2, <2>1 DEF OtherPoints, GonePoints
<1>. QED BY <1>3, <1>4, <1>5, <1>6, <1>7, <1>8 DEF DeleteStep

LEMMA MoverFinds ==
  ASSUME Inv, Ordinary, NEW p \in Procs, Knows(p), ContainersTracked, IdsKeepTheirNode,
         Arrive(p) \/ Step(p) \/ Crash(p)
  PROVE  FindsNone(p)'
BY ArriveFinds, CreateStepFinds, OtherStepFinds DEF Step, Inv, ContainersTracked

LEMMA OthersFind ==
  ASSUME TypeInv, LockInv, Ordinary, NEW p \in Procs, Arrive(p) \/ Step(p) \/ Crash(p), Move(p),
         NEW q \in Procs \ {p}, FindsNone(q)
  PROVE  FindsNone(q)'
<1>1. proc'[q] = proc[q]
  BY DEF Move, Moves
<1>2. faults \in Nat /\ faults' \in Nat /\ faults <= faults'
  BY FaultsGrow
<1>3. CASE proc[q] # None /\ proc[q].pc \in GonePoints \cup {"cleanup"}
  <2>1. PICK s \in Servers : s = proc[q].s
    BY <1>3 DEF TypeInv, RequestsOK, Request
  <2>2. ~Holds(p, s)
    BY <1>3, <2>1 DEF LockInv, ClaimsExclude, Holds, Claim, GonePoints, ProvisioningPoints,
       DeletingPoints
  <2>3. NoContainer(s) => NoContainer(s)'
    BY <2>2, MovePresence DEF NoContainer
  <2>. QED BY <1>1, <1>2, <1>3, <2>1, <2>3 DEF FindsNone, NoContainer
<1>. QED BY <1>1, <1>3 DEF FindsNone

\* A step that places the row of a server with a container keeps its node.
LEMMA PlacedWhereItWas ==
  ASSUME TypeInv, NEW p \in Procs, Knows(p), IdsKeepTheirNode,
         Arrive(p) \/ Step(p) \/ Crash(p), NEW s \in Servers, Exists(s), Exists(s)'
  PROVE  servers'[s].node = servers[s].node
<1>1. CASE \A t \in Servers : StaysPut(t)
  BY <1>1 DEF StaysPut
<1>2. ASSUME NEW t \in Servers, Places(p, t), t # s
      PROVE  servers'[s].node = servers[s].node
  BY <1>2 DEF Places, StaysPut
<1>3. CASE Places(p, s)
  <2>1. \/ servers'[s].node = servers[s].node
        \/ At(p, "eggUpsert") /\ proc[p].s = s
    BY <1>3 DEF Places, Knows, At
  <2>2. CASE UNCHANGED servers
    BY <2>2
  <2>3. CASE EggUpsert(p)
    <3>1. PICK row \in Row : row.node = proc[p].snap.node /\ Upsert(proc[p].s, row)
      BY <2>3, EggUpsertWrites DEF EggUpsert, At, TypeInv, RequestsOK, WellFormed, ObservePoints
    <3>2. At(p, "eggUpsert") /\ proc[p].s = s => proc[p].snap.node = servers[s].node
      BY DEF At, IdsKeepTheirNode, ObservePoints
    <3>. QED BY <2>1, <3>1, <3>2 DEF Upsert, TypeInv, TableOK, RegistryTypeOK
  <2>4. UNCHANGED servers \/ EggUpsert(p) \/ servers'[s].node = servers[s].node
    BY <2>1 DEF Arrive, Crash, Step, CreateStep, DeleteStep, EggStep, WriteStep, RuntimeStep,
       Reserve, DeleteRead, ClaimRemove, EggRead, SettingsRead, FreezeRead, UnfreezeRead,
       PowerRead, ObservePoll, Begin, AssignPorts, ResolveEgg, CreateContainer, RecordRead,
       Finalize, RecordUpsert, Notify, Cleanup, Release, ClaimDelete, DeleteDatabases,
       DeleteContainer, RemoveRow, RestoreRow, EggClaim, EggDelete, EggRestore, EggCreate,
       ReconcilePorts, SettingsWrite, WriteFlag, FreezeStatus, UnfreezeStatus, FreezeStop,
       PowerAgent, PowerStatus, ObserveRead, ObserveWrite, At
  <2>. QED BY <2>2, <2>3, <2>4
<1>. QED BY <1>1, <1>2, <1>3, StepPlaces

LEMMA TrackedStep ==
  ASSUME Ordinary, TypeInv, LockInv, RowsBacked, ContainersTracked, IdsKeepTheirNode, [Next]_vars
  PROVE  ContainersTracked'
<1>1. CASE UNCHANGED vars
  BY <1>1 DEF vars, ContainersTracked, FindsNone, EveryContainerTracked, NoContainer, Present, Exists
<1>2. ASSUME NEW p \in Procs, Arrive(p) \/ Step(p) \/ Crash(p)
      PROVE  ContainersTracked'
  <2>1. Inv /\ Move(p) /\ Knows(p) /\ FindsNone(p) /\ EveryContainerTracked
    BY <1>2, LockInvClaims, StepMoves DEF RowsBacked, ContainersTracked
  <2>2. \A q \in Procs : FindsNone(q)'
    BY <1>2, <2>1, MoverFinds, OthersFind DEF ContainersTracked
  <2>3. faults' < 2 => faults < 2
    BY <1>2, FaultsGrow
  <2>4. ASSUME faults < 2, NEW n \in Nodes, NEW s \in Servers, Present(<<n, s>>)'
        PROVE  Exists(s)' /\ servers'[s].node = n
    <3>1. CASE Present(<<n, s>>)
      <4>1. Exists(s) /\ servers[s].node = n
        BY <2>1, <2>4, <3>1 DEF EveryContainerTracked
      <4>2. Exists(s)'
        BY <1>2, <2>1, <2>4, <3>1, <4>1, RowRemoved DEF FindsNone, GonePoints, NoContainer
      <4>. QED BY <1>2, <2>1, <4>1, <4>2, PlacedWhereItWas DEF Inv
    <3>2. CASE ~Present(<<n, s>>)
      <4>1. /\ Holds(p, s) /\ (At(p, "create") \/ At(p, "eggCreate"))
            /\ n = proc[p].snap.node /\ UNCHANGED servers
        BY <1>2, <2>1, <2>4, <3>2, NewContainer
      <4>2. Exists(s)
        BY <2>1, <4>1 DEF Inv, ClaimsBacked, Holds, HasStatus, Exists
      <4>3. servers[s].node = n
        BY <4>1, <4>2 DEF Holds, At, IdsKeepTheirNode, ObservePoints
      <4>. QED BY <4>1, <4>2, <4>3 DEF Exists
    <3>. QED BY <3>1, <3>2
  <2>. QED BY <2>2, <2>3, <2>4 DEF ContainersTracked, EveryContainerTracked, Exists
<1>. QED BY <1>1, <1>2 DEF Next

LEMMA TrackedInit == Init => ContainersTracked
BY DEF Init, ContainersTracked, FindsNone, EveryContainerTracked, Present

\* With at most one failed agent call no agent is left running a container
\* that the panel does not know (the catch blocks of the creations, the
\* delete routes, changeEgg), in every behaviour in which the node that a
\* handler read before its claim is still the node of the row afterwards.
THEOREM NoUntrackedContainerAlways ==
  ASSUME Ordinary
  PROVE  Spec /\ []IdsKeepTheirNode => []NoUntrackedContainer
<1>1. Init => RowsBacked /\ ContainersTracked
  BY RowsBackedInit, TrackedInit
<1>2. /\ TypeInv /\ LockInv /\ RowsBacked /\ ContainersTracked /\ IdsKeepTheirNode
      /\ [Next]_vars
      => (RowsBacked /\ ContainersTracked)'
  BY RowsBackedStep, TrackedStep
<1>3. ContainersTracked => NoUntrackedContainer
  BY DEF ContainersTracked, EveryContainerTracked, NoUntrackedContainer, Present
<1>. QED BY <1>1, <1>2, <1>3, Reachable, PTL DEF Spec

\* On a panel with one node that hypothesis is void.
THEOREM OneNodeTracksItsContainers ==
  ASSUME Ordinary, \A m, n \in Nodes : m = n
  PROVE  Spec => []NoUntrackedContainer
<1>1. TypeInv => IdsKeepTheirNode
  <2>. SUFFICES ASSUME TypeInv, NEW p \in Procs, proc[p] # None, proc[p].pc \notin ObservePoints,
                       Exists(proc[p].s)
       PROVE  servers[proc[p].s].node = proc[p].snap.node
    BY DEF IdsKeepTheirNode
  <2>1. proc[p].s \in Servers /\ proc[p].snap.node \in Nodes
    BY DEF TypeInv, RequestsOK, WellFormed, Request, Row
  <2>2. servers[proc[p].s].node \in Nodes
    BY <2>1, RowRead DEF TypeInv, Row
  <2>. QED BY <2>1, <2>2
<1>. QED BY <1>1, Reachable, NoUntrackedContainerAlways, PTL

=============================================================================
