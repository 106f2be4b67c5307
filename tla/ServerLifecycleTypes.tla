------------------------ MODULE ServerLifecycleTypes ------------------------
(***************************************************************************)
(* TypeOK is an invariant of ServerLifecycle for every set of operations,   *)
(* and so is UniquePorts.                                                  *)
(*                                                                         *)
(* First, what each transaction of ServerRegistry does to the table, seen  *)
(* as a set of locks: it keeps the table well typed, and it changes the    *)
(* lock of the row it names in one known way and of no other row.  The     *)
(* handlers' proofs cite these lemmas and never look into a transaction.   *)
(*                                                                         *)
(* TypeOK alone is not inductive: a handler writes back parts of the row   *)
(* it read and of the claim it made, so TypeInv adds what the handler      *)
(* knows of its own request at each point (WellFormed).  One lemma per     *)
(* action shows that the action keeps TypeInv.                             *)
(***************************************************************************)
EXTENDS ServerLifecycle, TLAPS

-----------------------------------------------------------------------------
(* The transactions and the locks.                                         *)

\* The transitional status of a row is its lock; other rows are open.
Lock(s) == IF HasStatus(s, Transitional) THEN servers[s].status ELSE "none"

SameLocksExcept(s) == \A t \in Servers \ {s} : Lock(t)' = Lock(t)

SameLocks == \A t \in Servers : Lock(t)' = Lock(t)

\* A write of a stable status to one row.
LEMMA SetStatusLocks ==
  ASSUME RegistryTypeOK, NEW s \in Servers, NEW status \in Stable,
         SetStatus(s, status)
  PROVE  RegistryTypeOK' /\ SameLocks
BY NoneAssumption DEF RegistryTypeOK, SetStatus, WriteStatus, HasStatus, Exists, Lock,
   SameLocks, Row, Statuses, Stable, Transitional

\* A write of the variables, guarded by the status or not.
LEMMA UpdateVariablesLocks ==
  ASSUME RegistryTypeOK, NEW s \in Servers, NEW frozen \in BOOLEAN,
         UpdateVariables(s, frozen) \/ AssignPortAllocations(s, frozen)
  PROVE  RegistryTypeOK' /\ SameLocks
BY NoneAssumption DEF RegistryTypeOK, UpdateVariables, AssignPortAllocations, HasStatus,
   Exists, Lock, SameLocks, Row, Statuses, Stable, Transitional

\* A reservation closes the lock of an id that had no row.
LEMMA ReserveLocks ==
  ASSUME RegistryTypeOK, NEW s \in Servers, NEW n \in Nodes, ReserveRandomPort(s, n)
  PROVE  /\ RegistryTypeOK' /\ SameLocksExcept(s)
         /\ Lock(s) = "none" /\ Lock(s)' = "provisioning"
         /\ servers'[s] \in Row /\ servers'[s].status = "provisioning"
<1>1. PICK q \in Ports :
        servers' = [servers EXCEPT ![s] =
          [node |-> n, port |-> q, status |-> "provisioning", frozen |-> FALSE]]
  BY DEF ReserveRandomPort
<1>2. [node |-> n, port |-> q, status |-> "provisioning", frozen |-> FALSE] \in Row
  BY DEF Row, Statuses, Transitional
<1>3. servers[s] = None
  BY DEF ReserveRandomPort, Exists
<1>. QED
  BY <1>1, <1>2, <1>3, NoneAssumption DEF RegistryTypeOK, HasStatus, Exists, Lock,
     SameLocksExcept, Transitional

\* The row that a creation or an egg change writes back.
LEMMA CreatedRow ==
  ASSUME NEW row \in Row, NEW port \in Ports \cup {None}
  PROVE  /\ CreatedAt(row, port) \in Row
         /\ CreatedAt(row, port).status = "created"
         /\ CreatedAt(row, port).node = row.node
         /\ CreatedAt(row, port).port = port
BY DEF Row, CreatedAt, Statuses, Stable

\* The ports that an agent may report to a creation.
LEMMA ReportedPorts ==
  ASSUME NEW r \in Request, r.snap \in Row
  PROVE  Reported(r) \subseteq Ports \cup {None}
BY DEF Reported, Row

\* Finalizing, and releasing, open a lock that was "provisioning".
LEMMA FinalizeLocks ==
  ASSUME RegistryTypeOK, NEW s \in Servers, NEW reported \in Ports \cup {None},
         FinalizeProvisioning(s, reported)
  PROVE  /\ RegistryTypeOK' /\ SameLocksExcept(s)
         /\ Lock(s) = "provisioning" /\ Lock(s)' = "none"
<1>. DEFINE row == CreatedAt(servers[s], PortAfter(s, reported))
<1>1. servers[s] \in Row /\ servers[s].status = "provisioning"
  BY DEF RegistryTypeOK, FinalizeProvisioning, HasStatus, Exists
<1>2. row \in Row /\ row.status = "created"
  BY <1>1, CreatedRow DEF PortAfter, Row
<1>3. servers' = [servers EXCEPT ![s] = row]
  BY DEF FinalizeProvisioning
<1>. QED BY <1>1, <1>2, <1>3, NoneAssumption DEF RegistryTypeOK, HasStatus, Exists,
       Lock, SameLocksExcept, Transitional

LEMMA ReleaseLocks ==
  ASSUME RegistryTypeOK, NEW s \in Servers, ReleaseProvisioning(s)
  PROVE  /\ RegistryTypeOK' /\ SameLocksExcept(s)
         /\ Lock(s)' = IF Lock(s) = "provisioning" THEN "none" ELSE Lock(s)
BY NoneAssumption DEF RegistryTypeOK, ReleaseProvisioning, HasStatus, Exists,
   Lock, SameLocksExcept, Row, Statuses, Stable, Transitional

\* A deletion without the recovery flag takes an open lock (or one that a
\* transfer holds) and closes it for itself.
LEMMA ClaimDeletionLocks ==
  ASSUME RegistryTypeOK, NEW s \in Servers, NEW allow \in BOOLEAN,
         ClaimDeletion(s, allow)
  PROVE  /\ RegistryTypeOK' /\ SameLocksExcept(s)
         /\ ~allow => Lock(s) \in {"none", "transferring"}
         /\ Lock(s)' = "deleting"
         /\ servers[s] \in Row
BY NoneAssumption DEF RegistryTypeOK, ClaimDeletion, MayClaimDeletion, WriteStatus, HasStatus,
   Exists, Lock, SameLocksExcept, Row, Statuses, Stable, Transitional

LEMMA RestoreDeletionLocks ==
  ASSUME RegistryTypeOK, NEW s \in Servers, NEW status \in Statuses,
         RestoreDeletion(s, status)
  PROVE  /\ RegistryTypeOK' /\ SameLocksExcept(s)
         /\ Lock(s)' = IF Lock(s) # "deleting" THEN Lock(s)
                       ELSE IF status \in Transitional THEN status ELSE "none"
BY NoneAssumption DEF RegistryTypeOK, RestoreDeletion, HasStatus, Exists,
   Lock, SameLocksExcept, Row, Statuses, Stable, Transitional

LEMMA RemoveLocks ==
  ASSUME RegistryTypeOK, NEW s \in Servers, Remove(s)
  PROVE  RegistryTypeOK' /\ SameLocksExcept(s) /\ Lock(s)' = "none"
BY NoneAssumption DEF RegistryTypeOK, Remove, HasStatus, Exists,
   Lock, SameLocksExcept, Row, Statuses, Stable, Transitional

\* Another workflow takes an open lock of an existing row.
LEMMA ClaimTransitionLocks ==
  ASSUME RegistryTypeOK, NEW s \in Servers, NEW transition \in Transitional,
         ClaimTransition(s, transition)
  PROVE  /\ RegistryTypeOK' /\ SameLocksExcept(s)
         /\ Lock(s) = "none" /\ Lock(s)' = transition
         /\ servers[s].status \in Stable
BY NoneAssumption DEF RegistryTypeOK, ClaimTransition, WriteStatus, HasStatus, Exists,
   Lock, SameLocksExcept, Row, Statuses, Stable, Transitional

LEMMA RestoreTransitionLocks ==
  ASSUME RegistryTypeOK, NEW s \in Servers, NEW transition \in Transitional,
         NEW status \in Stable, RestoreTransition(s, transition, status)
  PROVE  /\ RegistryTypeOK' /\ SameLocksExcept(s)
         /\ Lock(s)' = IF Lock(s) = transition THEN "none" ELSE Lock(s)
BY NoneAssumption DEF RegistryTypeOK, RestoreTransition, HasStatus, Exists,
   Lock, SameLocksExcept, Row, Statuses, Stable, Transitional

\* A whole-row write opens the lock, whoever holds it, unless the unique
\* index refuses it.
LEMMA UpsertLocks ==
  ASSUME RegistryTypeOK, NEW s \in Servers, NEW row \in Row, row.status \in Stable,
         Upsert(s, row)
  PROVE  /\ RegistryTypeOK' /\ SameLocksExcept(s)
         /\ Lock(s)' = IF PortTaken(s, row.node, row.port) THEN Lock(s) ELSE "none"
<1>1. CASE PortTaken(s, row.node, row.port)
  BY <1>1 DEF RegistryTypeOK, Upsert, HasStatus, Exists, Lock, SameLocksExcept
<1>2. CASE ~PortTaken(s, row.node, row.port)
  <2>1. servers' = [servers EXCEPT ![s] = row]
    BY <1>2 DEF Upsert
  <2>. QED BY <1>2, <2>1, NoneAssumption DEF RegistryTypeOK, HasStatus, Exists, Lock,
         SameLocksExcept, Row, Statuses, Stable, Transitional
<1>. QED BY <1>1, <1>2

-----------------------------------------------------------------------------
(* Requests that are well formed at their point.                           *)

ObservePoints == {"observeRead", "observeWrite"}
EggPoints == {"eggDelete", "eggRestore", "eggCreate", "eggUpsert"}

\* No handler of this module starts a transfer, so none reads or writes one.
NoTransfer == \A s \in Servers : Lock(s) # "transferring"

WellFormed(r) ==
  /\ r.op \in Ops
  /\ r.pc \notin ObservePoints =>
       r.snap \in Row /\ r.snap.status # "transferring"
  /\ r.pc \in EggPoints \cup ObservePoints => r.prev \in Stable
  /\ r.pc \in DeletingPoints \cup {"lateRestore"} =>
       r.prev \in Statuses \ {"transferring"}

RequestsOK ==
  /\ proc \in [Procs -> Request \cup {None}]
  /\ \A p \in Procs : proc[p] # None => WellFormed(proc[p])

TableOK == RegistryTypeOK /\ NoTransfer

AgentsOK ==
  /\ container \in [Nodes \X Servers -> ContainerStates]
  /\ faults \in 0 .. MaxFaults

HistoryOK ==
  /\ stranded \subseteq Servers
  /\ skipped \subseteq Servers
  /\ crashes \in 0 .. MaxCrashes

TypeInv == RequestsOK /\ TableOK /\ AgentsOK /\ HistoryOK

\* The strengthened invariant implies the type invariant of the module.
LEMMA TypeInvImpliesTypeOK == TypeInv => TypeOK
BY DEF TypeInv, TypeOK, RequestsOK, TableOK, AgentsOK, HistoryOK

\* A handler that returns.
LEMMA DoneOK ==
  ASSUME RequestsOK, NEW p \in Procs, Done(p)
  PROVE  RequestsOK'
BY DEF RequestsOK, Done, WellFormed

\* A handler whose request becomes r.
LEMMA BecomeOK ==
  ASSUME RequestsOK, NEW p \in Procs, NEW r \in Request, WellFormed(r),
         proc' = [proc EXCEPT ![p] = r]
  PROVE  RequestsOK'
BY IdleAssumption DEF RequestsOK, WellFormed

\* A handler that moves on to a point where its request is well formed.
LEMMA GotoOK ==
  ASSUME RequestsOK, NEW p \in Procs, proc[p] # None, NEW point \in Points,
         Goto(p, point), WellFormed([proc[p] EXCEPT !.pc = point])
  PROVE  RequestsOK'
<1>1. [proc[p] EXCEPT !.pc = point] \in Request
  BY DEF RequestsOK, Request
<1>2. proc' = [proc EXCEPT ![p] = [proc[p] EXCEPT !.pc = point]]
  BY DEF Goto
<1>. QED BY <1>1, <1>2, IdleAssumption DEF RequestsOK, WellFormed

\* A handler that returns, or moves on to a point that asks nothing more of
\* its request than the point it leaves.
PlainPoints ==
  Points \ (DeletingPoints \cup EggPoints \cup ObservePoints \cup {"lateRestore"})

LEMMA PlainMoveOK ==
  ASSUME RequestsOK, NEW p \in Procs, proc[p] # None,
         \/ Done(p)
         \/ proc[p].pc \notin ObservePoints /\ \E point \in PlainPoints : Goto(p, point)
  PROVE  RequestsOK'
<1>1. CASE Done(p)
  BY <1>1, DoneOK
<1>2. ASSUME proc[p].pc \notin ObservePoints, NEW point \in PlainPoints, Goto(p, point)
      PROVE  RequestsOK'
  <2>1. proc[p] \in Request /\ WellFormed(proc[p])
    BY DEF RequestsOK
  <2>2. WellFormed([proc[p] EXCEPT !.pc = point])
    BY <1>2, <2>1 DEF WellFormed, Request, PlainPoints
  <2>. QED BY <1>2, <2>2, GotoOK DEF PlainPoints
<1>. QED BY <1>1, <1>2

\* A handler that returns, or moves on within its deletion or egg change.
LEMMA PhaseMoveOK ==
  ASSUME RequestsOK, NEW p \in Procs, proc[p] # None,
         \/ Done(p)
         \/ /\ proc[p].pc \in DeletingPoints
            /\ \E point \in DeletingPoints \cup {"lateRestore"} : Goto(p, point)
         \/ proc[p].pc \in EggPoints /\ \E point \in EggPoints : Goto(p, point)
  PROVE  RequestsOK'
<1>. DEFINE moved(point) == [proc[p] EXCEPT !.pc = point]
<1>1. proc[p] \in Request /\ WellFormed(proc[p])
  BY DEF RequestsOK
<1>2. CASE Done(p)
  BY <1>2, DoneOK
<1>3. ASSUME proc[p].pc \in DeletingPoints,
             NEW point \in DeletingPoints \cup {"lateRestore"}, Goto(p, point)
      PROVE  RequestsOK'
  <2>1. WellFormed(moved(point))
    BY <1>1, <1>3 DEF WellFormed, Request, DeletingPoints, EggPoints, ObservePoints
  <2>. QED BY <1>3, <2>1, GotoOK DEF Points, OtherPoints
<1>4. ASSUME proc[p].pc \in EggPoints, NEW point \in EggPoints, Goto(p, point)
      PROVE  RequestsOK'
  <2>1. WellFormed(moved(point))
    BY <1>1, <1>4 DEF WellFormed, Request, DeletingPoints, EggPoints, ObservePoints
  <2>. QED BY <1>4, <2>1, GotoOK DEF Points, ProvisioningPoints, EggPoints
<1>. QED BY <1>2, <1>3, <1>4

\* A step that leaves the table alone.
LEMMA SameTable ==
  ASSUME RegistryTypeOK, UNCHANGED servers
  PROVE  RegistryTypeOK' /\ SameLocks
BY DEF RegistryTypeOK, SameLocks, Lock, HasStatus, Exists

\* A step that changes no lock, or leaves one of them without a transfer.
LEMMA SameLocksOK ==
  ASSUME TableOK, RegistryTypeOK', SameLocks
  PROVE  TableOK'
BY DEF TableOK, NoTransfer, SameLocks

LEMMA OneLockOK ==
  ASSUME TableOK, RegistryTypeOK', NEW s \in Servers, SameLocksExcept(s),
         Lock(s)' # "transferring"
  PROVE  TableOK'
BY DEF TableOK, NoTransfer, SameLocksExcept

\* What a handler reads is a row, and not one that is being transferred.
LEMMA RowRead ==
  ASSUME TableOK, NEW s \in Servers, Exists(s)
  PROVE  servers[s] \in Row /\ servers[s].status # "transferring"
BY DEF TableOK, RegistryTypeOK, NoTransfer, Lock, HasStatus, Exists, Transitional

\* An agent call touches the container it names and nothing else.
LEMMA AgentCallOK ==
  ASSUME AgentsOK, NEW n \in Nodes, NEW s \in Servers, NEW outcome \in Outcomes,
         NEW state \in ContainerStates, AgentCall(n, s, outcome, state)
  PROVE  /\ AgentsOK'
         /\ \A ns \in (Nodes \X Servers) \ {<<n, s>>} : container'[ns] = container[ns]
BY BoundsAssumption DEF AgentsOK, AgentCall, Outcomes

\* A power command creates and destroys nothing.
LEMMA AgentPowerOK ==
  ASSUME AgentsOK, NEW r \in Request, r.snap \in Row, NEW outcome \in Outcomes,
         NEW state \in {"stopped", "running"}, AgentPower(r, outcome, state)
  PROVE  /\ AgentsOK'
         /\ \A ns \in Nodes \X Servers :
              container'[ns] = "none" <=> container[ns] = "none"
<1>1. r.snap.node \in Nodes /\ r.s \in Servers
  BY DEF Request, Row
<1>. QED BY <1>1, BoundsAssumption DEF AgentsOK, AgentPower, AgentCall, Outcomes, agents,
       ContainerStates

\* A request that starts from a row it has just read.
LEMMA ReadOK ==
  ASSUME RequestsOK, TableOK, NEW p \in Procs, NEW s \in Servers, Exists(s), NEW op,
         NEW point \in OtherPoints \ (ObservePoints \cup {"lateRestore"}),
         Begin(p, [op |-> op, pc |-> point, s |-> s, snap |-> servers[s], prev |-> "none"])
  PROVE  RequestsOK'
<1>. DEFINE r == [op |-> op, pc |-> point, s |-> s, snap |-> servers[s], prev |-> "none"]
<1>1. servers[s] \in Row /\ servers[s].status # "transferring"
  BY RowRead
<1>2. r \in Request
  BY <1>1, OpsAssumption DEF Begin, Request, Points, Statuses
<1>3. WellFormed(r)
  BY <1>1 DEF Begin, WellFormed, OtherPoints, ObservePoints, EggPoints, DeletingPoints
<1>. QED BY <1>2, <1>3, BecomeOK DEF Begin

LEMMA AssignPortsOK ==
  ASSUME TypeInv, NEW p \in Procs, AssignPorts(p)
  PROVE  TypeInv'
<1>. USE DEF TypeInv, At
<1>1. RequestsOK'
  <2>1. proc[p] # None /\ proc[p].pc \notin ObservePoints
    BY DEF AssignPorts, ObservePoints
  <2>2. Done(p) \/ \E point \in PlainPoints : Goto(p, point)
    BY DEF AssignPorts, PlainPoints, Points, ProvisioningPoints, DeletingPoints,
       OtherPoints, ObservePoints, EggPoints
  <2>. QED BY <2>1, <2>2, PlainMoveOK
<1>2. TableOK'
  BY SameTable, SameLocksOK DEF TableOK, AssignPorts, agents, history
<1>3. AgentsOK' /\ HistoryOK'
  BY IdleAssumption, BoundsAssumption DEF AgentsOK, HistoryOK, AssignPorts, agents, history, RequestsOK, Request
<1>. QED BY <1>1, <1>2, <1>3

LEMMA ResolveEggOK ==
  ASSUME TypeInv, NEW p \in Procs, ResolveEgg(p)
  PROVE  TypeInv'
<1>. USE DEF TypeInv, At
<1>1. RequestsOK'
  <2>1. proc[p] # None /\ proc[p].pc \notin ObservePoints
    BY DEF ResolveEgg, ObservePoints
  <2>2. Done(p) \/ \E point \in PlainPoints : Goto(p, point)
    BY DEF ResolveEgg, PlainPoints, Points, ProvisioningPoints, DeletingPoints,
       OtherPoints, ObservePoints, EggPoints
  <2>. QED BY <2>1, <2>2, PlainMoveOK
<1>2. TableOK'
  BY SameTable, SameLocksOK DEF TableOK, ResolveEgg, agents, history
<1>3. AgentsOK' /\ HistoryOK'
  BY IdleAssumption, BoundsAssumption DEF AgentsOK, HistoryOK, ResolveEgg, agents, history, RequestsOK, Request
<1>. QED BY <1>1, <1>2, <1>3

LEMMA CreateContainerOK ==
  ASSUME TypeInv, NEW p \in Procs, CreateContainer(p)
  PROVE  TypeInv'
<1>. USE DEF TypeInv, At
<1>1. RequestsOK'
  <2>1. proc[p] # None /\ proc[p].pc \in {"create"}
    BY DEF CreateContainer
  <2>2. \E point \in {"recordRead", "finalize", "release", "cleanup"} : Goto(p, point)
    BY DEF CreateContainer
  <2>3. PICK point \in {"recordRead", "finalize", "release", "cleanup"} : Goto(p, point)
    BY <2>2
  <2>4. WellFormed(proc[p])
    BY <2>1 DEF RequestsOK
  <2>5. WellFormed([proc[p] EXCEPT !.pc = point])
    BY <2>1, <2>4 DEF WellFormed, RequestsOK, Request, ObservePoints, EggPoints, DeletingPoints
  <2>. QED BY <2>1, <2>3, <2>5, GotoOK DEF Points, ProvisioningPoints, OtherPoints
<1>2. TableOK'
  BY SameTable, SameLocksOK DEF TableOK, CreateContainer, agents, history
<1>3. AgentsOK' /\ HistoryOK'
  BY AgentCallOK, IdleAssumption DEF AgentsOK, HistoryOK, CreateContainer, RequestsOK, WellFormed, Request, Row,
     ContainerStates, history, agents, ObservePoints
<1>. QED BY <1>1, <1>2, <1>3

LEMMA RecordReadOK ==
  ASSUME TypeInv, NEW p \in Procs, RecordRead(p)
  PROVE  TypeInv'
<1>. USE DEF TypeInv, At
<1>1. RequestsOK'
  <2>1. proc[p] # None /\ proc[p].pc \notin ObservePoints
    BY DEF RecordRead, ObservePoints
  <2>2. Done(p) \/ \E point \in PlainPoints : Goto(p, point)
    BY DEF RecordRead, PlainPoints, Points, ProvisioningPoints, DeletingPoints,
       OtherPoints, ObservePoints, EggPoints
  <2>. QED BY <2>1, <2>2, PlainMoveOK
<1>2. TableOK'
  BY SameTable, SameLocksOK DEF TableOK, RecordRead, agents, history
<1>3. AgentsOK' /\ HistoryOK'
  BY IdleAssumption, BoundsAssumption DEF AgentsOK, HistoryOK, RecordRead, agents, history, RequestsOK, Request
<1>. QED BY <1>1, <1>2, <1>3

LEMMA FinalizeOK ==
  ASSUME TypeInv, NEW p \in Procs, Finalize(p)
  PROVE  TypeInv'
<1>. USE DEF TypeInv, At
<1>1. RequestsOK'
  <2>1. proc[p] # None /\ proc[p].pc \notin ObservePoints
    BY DEF Finalize, ObservePoints
  <2>2. Done(p) \/ \E point \in PlainPoints : Goto(p, point)
    BY DEF Finalize, PlainPoints, Points, ProvisioningPoints, DeletingPoints,
       OtherPoints, ObservePoints, EggPoints
  <2>. QED BY <2>1, <2>2, PlainMoveOK
<1>2. TableOK'
  <2>1. PICK s \in Servers : s = proc[p].s
    BY IdleAssumption DEF RequestsOK, Request, Finalize
  <2>2. Reported(proc[p]) \subseteq Ports \cup {None}
    BY IdleAssumption, ReportedPorts DEF RequestsOK, Finalize, WellFormed, ObservePoints
  <2>3. CASE UNCHANGED servers
    BY <2>3, SameTable, SameLocksOK DEF TableOK
  <2>4. ASSUME NEW reported \in Reported(proc[p]), FinalizeProvisioning(s, reported)
        PROVE  TableOK'
    BY <2>2, <2>4, FinalizeLocks, OneLockOK DEF TableOK, Transitional
  <2>. QED BY <2>1, <2>3, <2>4 DEF Finalize
<1>3. AgentsOK' /\ HistoryOK'
  BY IdleAssumption, BoundsAssumption DEF AgentsOK, HistoryOK, Finalize, agents, history, RequestsOK, Request
<1>. QED BY <1>1, <1>2, <1>3

LEMMA RecordUpsertOK ==
  ASSUME TypeInv, NEW p \in Procs, RecordUpsert(p)
  PROVE  TypeInv'
<1>. USE DEF TypeInv, At
<1>1. RequestsOK'
  <2>1. proc[p] # None /\ proc[p].pc \notin ObservePoints
    BY DEF RecordUpsert, ObservePoints
  <2>2. Goto(p, "cleanup") \/ Goto(p, "notify")
    BY DEF RecordUpsert
  <2>3. "cleanup" \in PlainPoints /\ "notify" \in PlainPoints
    BY DEF PlainPoints, Points, ProvisioningPoints, DeletingPoints, OtherPoints,
       ObservePoints, EggPoints
  <2>. QED BY <2>1, <2>2, <2>3, PlainMoveOK
<1>2. TableOK'
  <2>1. PICK s \in Servers : s = proc[p].s
    BY IdleAssumption DEF RequestsOK, Request, RecordUpsert
  <2>2. Lock(s) # "transferring" /\ proc[p].snap \in Row
    BY IdleAssumption DEF RequestsOK, TableOK, NoTransfer, RecordUpsert, WellFormed, ObservePoints
  <2>3. PICK row \in Row : Upsert(s, row) /\ row.status = "created"
    BY <2>1, <2>2, CreatedRow, ReportedPorts, IdleAssumption DEF RecordUpsert, RequestsOK
  <2>4. RegistryTypeOK' /\ SameLocksExcept(s) /\ Lock(s)' # "transferring"
    BY <2>2, <2>3, UpsertLocks DEF TableOK, Stable
  <2>. QED BY <2>4, OneLockOK
<1>3. AgentsOK' /\ HistoryOK'
  BY IdleAssumption, BoundsAssumption DEF AgentsOK, HistoryOK, RecordUpsert, agents, history, RequestsOK, Request
<1>. QED BY <1>1, <1>2, <1>3

LEMMA NotifyOK ==
  ASSUME TypeInv, NEW p \in Procs, Notify(p)
  PROVE  TypeInv'
<1>. USE DEF TypeInv, At
<1>1. RequestsOK'
  <2>1. proc[p] # None /\ proc[p].pc \notin ObservePoints
    BY DEF Notify, ObservePoints
  <2>2. Done(p) \/ \E point \in PlainPoints : Goto(p, point)
    BY DEF Notify, PlainPoints, Points, ProvisioningPoints, DeletingPoints,
       OtherPoints, ObservePoints, EggPoints
  <2>. QED BY <2>1, <2>2, PlainMoveOK
<1>2. TableOK'
  BY SameTable, SameLocksOK DEF TableOK, Notify, agents, history
<1>3. AgentsOK' /\ HistoryOK'
  BY IdleAssumption, BoundsAssumption DEF AgentsOK, HistoryOK, Notify, agents, history, RequestsOK, Request
<1>. QED BY <1>1, <1>2, <1>3

LEMMA CleanupOK ==
  ASSUME TypeInv, NEW p \in Procs, Cleanup(p)
  PROVE  TypeInv'
<1>. USE DEF TypeInv, At
<1>1. RequestsOK'
  <2>1. proc[p] # None /\ proc[p].pc \in {"cleanup", "lateCleanup"}
    BY DEF Cleanup
  <2>2. \E point \in {"release", "lateRelease"} : Goto(p, point)
    BY DEF Cleanup
  <2>3. PICK point \in {"release", "lateRelease"} : Goto(p, point)
    BY <2>2
  <2>4. WellFormed(proc[p])
    BY <2>1 DEF RequestsOK
  <2>5. WellFormed([proc[p] EXCEPT !.pc = point])
    BY <2>1, <2>4 DEF WellFormed, RequestsOK, Request, ObservePoints, EggPoints, DeletingPoints
  <2>. QED BY <2>1, <2>3, <2>5, GotoOK DEF Points, ProvisioningPoints, OtherPoints
<1>2. TableOK'
  BY SameTable, SameLocksOK DEF TableOK, Cleanup, agents, history
<1>3. AgentsOK' /\ HistoryOK'
  BY AgentCallOK, IdleAssumption DEF AgentsOK, HistoryOK, Cleanup, RequestsOK, WellFormed, Request, Row,
     ContainerStates, history, agents, ObservePoints
<1>. QED BY <1>1, <1>2, <1>3

LEMMA ReleaseOK ==
  ASSUME TypeInv, NEW p \in Procs, Release(p)
  PROVE  TypeInv'
<1>. USE DEF TypeInv, At
<1>1. RequestsOK'
  <2>1. proc[p] # None /\ proc[p].pc \notin ObservePoints
    BY DEF Release, ObservePoints
  <2>2. Done(p) \/ \E point \in PlainPoints : Goto(p, point)
    BY DEF Release, PlainPoints, Points, ProvisioningPoints, DeletingPoints,
       OtherPoints, ObservePoints, EggPoints
  <2>. QED BY <2>1, <2>2, PlainMoveOK
<1>2. TableOK'
  <2>1. PICK s \in Servers : s = proc[p].s
    BY IdleAssumption DEF RequestsOK, Request, Release
  <2>2. Lock(s) # "transferring"
    BY DEF TableOK, NoTransfer
  <2>3. /\ RegistryTypeOK'
        /\ SameLocks \/ (SameLocksExcept(s) /\ Lock(s)' # "transferring")
    BY <2>1, <2>2, SameTable, ReleaseLocks DEF TableOK, Release, agents, history, Transitional
  <2>. QED BY <2>3, SameLocksOK, OneLockOK
<1>3. AgentsOK' /\ HistoryOK'
  BY IdleAssumption, BoundsAssumption DEF AgentsOK, HistoryOK, Release, agents, history, RequestsOK, Request
<1>. QED BY <1>1, <1>2, <1>3

LEMMA ClaimDeleteOK ==
  ASSUME TypeInv, NEW p \in Procs, ClaimDelete(p)
  PROVE  TypeInv'
<1>. USE DEF TypeInv, At
<1>. DEFINE r == proc[p]
            claimed == [r EXCEPT !.pc = "deleteDatabases", !.prev = servers[r.s].status]
<1>1. RequestsOK'
  <2>1. r \in Request /\ WellFormed(r) /\ r.pc = "claimDelete"
    BY IdleAssumption DEF ClaimDelete, RequestsOK
  <2>2. CASE Done(p)
    BY <2>2, DoneOK
  <2>3. CASE Exists(r.s) /\ proc' = [proc EXCEPT ![p] = claimed]
    <3>1. servers[r.s] \in Row /\ servers[r.s].status # "transferring"
      BY <2>1, <2>3, RowRead DEF Request
    <3>2. claimed \in Request /\ WellFormed(claimed)
      BY <2>1, <3>1 DEF Request, WellFormed, Row, Points, DeletingPoints, ObservePoints, EggPoints
    <3>. QED BY <2>3, <3>2, BecomeOK
  <2>. QED BY <2>2, <2>3 DEF ClaimDelete, ClaimDeletion, MayClaimDeletion, HasStatus
<1>2. TableOK'
  <2>1. PICK s \in Servers : s = r.s
    BY IdleAssumption DEF RequestsOK, Request, ClaimDelete
  <2>2. PICK allow \in BOOLEAN : UNCHANGED servers \/ ClaimDeletion(s, allow)
    BY <2>1 DEF ClaimDelete, ProvisioningRecovery
  <2>3. CASE UNCHANGED servers
    BY <2>3, SameTable, SameLocksOK DEF TableOK
  <2>4. CASE ClaimDeletion(s, allow)
    BY <2>4, ClaimDeletionLocks, OneLockOK DEF TableOK
  <2>. QED BY <2>2, <2>3, <2>4
<1>3. AgentsOK' /\ HistoryOK'
  BY IdleAssumption, BoundsAssumption DEF AgentsOK, HistoryOK, ClaimDelete, agents, history, RequestsOK, Request
<1>. QED BY <1>1, <1>2, <1>3

LEMMA DeleteDatabasesOK ==
  ASSUME TypeInv, NEW p \in Procs, DeleteDatabases(p)
  PROVE  TypeInv'
<1>. USE DEF TypeInv, At
<1>1. RequestsOK'
  <2>1. proc[p] # None /\ proc[p].pc \in DeletingPoints
    BY DEF DeleteDatabases, DeletingPoints
  <2>2. Done(p) \/ \E point \in DeletingPoints \cup {"lateRestore"} : Goto(p, point)
    BY DEF DeleteDatabases, DeletingPoints
  <2>. QED BY <2>1, <2>2, PhaseMoveOK
<1>2. TableOK'
  BY SameTable, SameLocksOK DEF TableOK, DeleteDatabases, agents, history
<1>3. AgentsOK' /\ HistoryOK'
  BY IdleAssumption, BoundsAssumption DEF AgentsOK, HistoryOK, DeleteDatabases, agents, history, RequestsOK, Request
<1>. QED BY <1>1, <1>2, <1>3

LEMMA DeleteContainerOK ==
  ASSUME TypeInv, NEW p \in Procs, DeleteContainer(p)
  PROVE  TypeInv'
<1>. USE DEF TypeInv, At
<1>1. RequestsOK'
  <2>1. proc[p] # None /\ proc[p].pc \in DeletingPoints
    BY DEF DeleteContainer, DeletingPoints
  <2>2. Done(p) \/ \E point \in DeletingPoints \cup {"lateRestore"} : Goto(p, point)
    BY DEF DeleteContainer, DeletingPoints
  <2>. QED BY <2>1, <2>2, PhaseMoveOK
<1>2. TableOK'
  BY SameTable, SameLocksOK DEF TableOK, DeleteContainer, agents, history
<1>3. AgentsOK' /\ HistoryOK'
  BY AgentCallOK, IdleAssumption DEF AgentsOK, HistoryOK, DeleteContainer, RequestsOK, WellFormed, Request, Row,
     ContainerStates, history, agents, ObservePoints
<1>. QED BY <1>1, <1>2, <1>3

LEMMA RemoveRowOK ==
  ASSUME TypeInv, NEW p \in Procs, RemoveRow(p)
  PROVE  TypeInv'
<1>. USE DEF TypeInv, At
<1>1. RequestsOK'
  <2>1. proc[p] # None /\ proc[p].pc \in DeletingPoints
    BY DEF RemoveRow, DeletingPoints
  <2>2. Done(p) \/ \E point \in DeletingPoints \cup {"lateRestore"} : Goto(p, point)
    BY DEF RemoveRow, DeletingPoints
  <2>. QED BY <2>1, <2>2, PhaseMoveOK
<1>2. TableOK'
  <2>1. PICK s \in Servers : s = proc[p].s
    BY IdleAssumption DEF RequestsOK, Request, RemoveRow
  <2>2. Lock(s) # "transferring"
    BY DEF TableOK, NoTransfer
  <2>3. /\ RegistryTypeOK'
        /\ SameLocks \/ (SameLocksExcept(s) /\ Lock(s)' # "transferring")
    BY <2>1, <2>2, SameTable, RemoveLocks DEF TableOK, RemoveRow, agents, history, Transitional
  <2>. QED BY <2>3, SameLocksOK, OneLockOK
<1>3. AgentsOK' /\ HistoryOK'
  BY IdleAssumption, BoundsAssumption DEF AgentsOK, HistoryOK, RemoveRow, agents, history, RequestsOK, Request
<1>. QED BY <1>1, <1>2, <1>3

LEMMA RestoreRowOK ==
  ASSUME TypeInv, NEW p \in Procs, RestoreRow(p)
  PROVE  TypeInv'
<1>. USE DEF TypeInv, At
<1>1. RequestsOK'
  BY DoneOK DEF RestoreRow
<1>2. TableOK'
  <2>1. PICK s \in Servers : s = proc[p].s
    BY IdleAssumption DEF RequestsOK, Request, RestoreRow
  <2>2. PICK status \in Statuses \ {"transferring"} : status = RestoreStatus(proc[p])
    BY IdleAssumption DEF RequestsOK, RestoreRow, WellFormed, RestoreStatus, Row, ObservePoints,
       DeletingPoints
  <2>3. RegistryTypeOK' /\ SameLocksExcept(s) /\ Lock(s)' # "transferring"
    BY <2>1, <2>2, RestoreDeletionLocks DEF TableOK, NoTransfer, RestoreRow
  <2>. QED BY <2>3, OneLockOK
<1>3. AgentsOK' /\ HistoryOK'
  BY IdleAssumption, BoundsAssumption DEF AgentsOK, HistoryOK, RestoreRow, agents, history, RequestsOK, Request
<1>. QED BY <1>1, <1>2, <1>3

LEMMA EggClaimOK ==
  ASSUME TypeInv, NEW p \in Procs, EggClaim(p)
  PROVE  TypeInv'
<1>. USE DEF TypeInv, At
<1>. DEFINE r == proc[p]
            claimed == [r EXCEPT !.pc = "eggDelete", !.prev = servers[r.s].status]
<1>1. RequestsOK'
  <2>1. r \in Request /\ WellFormed(r) /\ r.pc = "claimEgg"
    BY IdleAssumption DEF EggClaim, RequestsOK
  <2>2. CASE Done(p)
    BY <2>2, DoneOK
  <2>3. CASE HasStatus(r.s, Stable) /\ proc' = [proc EXCEPT ![p] = claimed]
    <3>1. servers[r.s].status \in Stable
      BY <2>3 DEF HasStatus
    <3>2. claimed \in Request /\ WellFormed(claimed)
      BY <2>1, <3>1 DEF Request, WellFormed, Row, Points, ProvisioningPoints, DeletingPoints,
         ObservePoints, EggPoints, Statuses
    <3>. QED BY <2>3, <3>2, BecomeOK
  <2>. QED BY <2>2, <2>3 DEF EggClaim, ClaimTransition
<1>2. TableOK'
  <2>1. PICK s \in Servers : s = proc[p].s
    BY IdleAssumption DEF RequestsOK, Request, EggClaim
  <2>2. UNCHANGED servers \/ ClaimTransition(s, "provisioning")
    BY <2>1 DEF EggClaim
  <2>3. CASE UNCHANGED servers
    BY <2>3, SameTable, SameLocksOK DEF TableOK
  <2>4. CASE ClaimTransition(s, "provisioning")
    BY <2>4, ClaimTransitionLocks, OneLockOK DEF TableOK, Transitional
  <2>. QED BY <2>2, <2>3, <2>4
<1>3. AgentsOK' /\ HistoryOK'
  BY IdleAssumption, BoundsAssumption DEF AgentsOK, HistoryOK, EggClaim, agents, history, RequestsOK, Request
<1>. QED BY <1>1, <1>2, <1>3

LEMMA EggDeleteOK ==
  ASSUME TypeInv, NEW p \in Procs, EggDelete(p)
  PROVE  TypeInv'
<1>. USE DEF TypeInv, At
<1>1. RequestsOK'
  <2>1. proc[p] # None /\ proc[p].pc \in EggPoints
    BY DEF EggDelete, EggPoints
  <2>2. Done(p) \/ \E point \in EggPoints : Goto(p, point)
    BY DEF EggDelete, EggPoints
  <2>. QED BY <2>1, <2>2, PhaseMoveOK
<1>2. TableOK'
  BY SameTable, SameLocksOK DEF TableOK, EggDelete, agents, history
<1>3. AgentsOK' /\ HistoryOK'
  BY AgentCallOK, IdleAssumption DEF AgentsOK, HistoryOK, EggDelete, RequestsOK, WellFormed, Request, Row,
     ContainerStates, history, agents, ObservePoints
<1>. QED BY <1>1, <1>2, <1>3

LEMMA EggCreateOK ==
  ASSUME TypeInv, NEW p \in Procs, EggCreate(p)
  PROVE  TypeInv'
<1>. USE DEF TypeInv, At
<1>1. RequestsOK'
  <2>1. proc[p] # None /\ proc[p].pc = "eggCreate"
    BY DEF EggCreate
  <2>2. CASE Goto(p, "eggUpsert")
    BY <2>1, <2>2, GotoOK DEF RequestsOK, WellFormed, Request, Points, ProvisioningPoints,
       DeletingPoints, ObservePoints, EggPoints
  <2>3. CASE Done(p)
    BY <2>3, DoneOK
  <2>. QED BY <2>2, <2>3 DEF EggCreate
<1>2. TableOK'
  BY SameTable, SameLocksOK DEF TableOK, EggCreate, agents, history
<1>3. AgentsOK' /\ HistoryOK'
  BY AgentCallOK, IdleAssumption DEF AgentsOK, HistoryOK, EggCreate, RequestsOK, WellFormed, Request, Row,
     ContainerStates, history, agents, ObservePoints
<1>. QED BY <1>1, <1>2, <1>3

LEMMA EggRestoreOK ==
  ASSUME TypeInv, NEW p \in Procs, EggRestore(p)
  PROVE  TypeInv'
<1>. USE DEF TypeInv, At
<1>1. RequestsOK'
  BY DoneOK DEF EggRestore
<1>2. TableOK'
  <2>1. PICK s \in Servers : s = proc[p].s
    BY IdleAssumption DEF RequestsOK, Request, EggRestore
  <2>2. PICK status \in Stable : status = proc[p].prev
    BY IdleAssumption DEF RequestsOK, EggRestore, WellFormed, EggPoints
  <2>3. RegistryTypeOK' /\ SameLocksExcept(s) /\ Lock(s)' # "transferring"
    BY <2>1, <2>2, RestoreTransitionLocks DEF TableOK, NoTransfer, EggRestore, Transitional
  <2>. QED BY <2>3, OneLockOK
<1>3. AgentsOK' /\ HistoryOK'
  BY IdleAssumption, BoundsAssumption DEF AgentsOK, HistoryOK, EggRestore, agents, history, RequestsOK, Request
<1>. QED BY <1>1, <1>2, <1>3

\* What the three writes that carry a reported port come to, for a request
\* that keeps a row.
LEMMA FinalizeWrites ==
  ASSUME NEW p \in Procs, proc[p] \in Request, proc[p].snap \in Row, Finalize(p)
  PROVE  \/ /\ \E reported \in Ports \cup {None} : FinalizeProvisioning(proc[p].s, reported)
            /\ Goto(p, "notify") \/ Done(p)
            /\ UNCHANGED <<faults, container, history>>
         \/ /\ Goto(p, "cleanup") /\ UNCHANGED <<servers, container, history>>
            /\ \/ faults' = faults + 1
               \/ ~HasStatus(proc[p].s, {"provisioning"}) /\ UNCHANGED faults
BY ReportedPorts DEF Finalize

LEMMA RecordUpsertWrites ==
  ASSUME NEW p \in Procs, proc[p] \in Request, proc[p].snap \in Row, RecordUpsert(p)
  PROVE  \E row \in Row :
           /\ row.status = "created" /\ row.node = proc[p].snap.node
           /\ Upsert(proc[p].s, row)
           /\ Goto(p, IF PortTaken(proc[p].s, row.node, row.port) THEN "cleanup" ELSE "notify")
           /\ UNCHANGED <<agents, history>>
<1>1. PICK port \in Ports \cup {None} :
        /\ Upsert(proc[p].s, CreatedAt(proc[p].snap, port))
        /\ Goto(p, IF PortTaken(proc[p].s, proc[p].snap.node, port) THEN "cleanup" ELSE "notify")
  BY ReportedPorts DEF RecordUpsert
<1>. QED BY <1>1, CreatedRow DEF RecordUpsert

LEMMA EggUpsertWrites ==
  ASSUME NEW p \in Procs, proc[p].snap \in Row, EggUpsert(p)
  PROVE  \E row \in Row :
           /\ row.status = "created" /\ row.node = proc[p].snap.node
           /\ Upsert(proc[p].s, row)
           /\ stranded' = IF /\ PortTaken(proc[p].s, row.node, row.port)
                             /\ HasStatus(proc[p].s, {"provisioning"})
                          THEN stranded \cup {proc[p].s} ELSE stranded
<1>1. PICK port \in Ports \cup {None} :
        /\ Upsert(proc[p].s, CreatedAt(proc[p].snap, port))
        /\ stranded' = IF /\ PortTaken(proc[p].s, proc[p].snap.node, port)
                          /\ HasStatus(proc[p].s, {"provisioning"})
                       THEN stranded \cup {proc[p].s} ELSE stranded
  BY DEF EggUpsert, Row
<1>. QED BY <1>1, CreatedRow

LEMMA EggUpsertOK ==
  ASSUME TypeInv, NEW p \in Procs, EggUpsert(p)
  PROVE  TypeInv'
<1>. USE DEF TypeInv, At
<1>1. RequestsOK'
  BY DoneOK DEF EggUpsert
<1>2. TableOK'
  <2>1. PICK s \in Servers : s = proc[p].s
    BY IdleAssumption DEF RequestsOK, Request, EggUpsert
  <2>2. Lock(s) # "transferring" /\ proc[p].snap \in Row
    BY IdleAssumption DEF RequestsOK, TableOK, NoTransfer, EggUpsert, WellFormed, ObservePoints
  <2>3. PICK row \in Row : Upsert(s, row) /\ row.status = "created"
    BY <2>1, <2>2, CreatedRow DEF EggUpsert, Row
  <2>4. RegistryTypeOK' /\ SameLocksExcept(s) /\ Lock(s)' # "transferring"
    BY <2>2, <2>3, UpsertLocks DEF TableOK, Stable
  <2>. QED BY <2>4, OneLockOK
<1>3. AgentsOK' /\ HistoryOK'
  BY IdleAssumption, BoundsAssumption DEF AgentsOK, HistoryOK, EggUpsert, agents, history, RequestsOK, Request
<1>. QED BY <1>1, <1>2, <1>3

LEMMA ReconcilePortsOK ==
  ASSUME TypeInv, NEW p \in Procs, ReconcilePorts(p)
  PROVE  TypeInv'
<1>. USE DEF TypeInv, At
<1>1. RequestsOK'
  <2>1. proc[p] # None /\ proc[p].pc \notin ObservePoints
    BY DEF ReconcilePorts, ObservePoints
  <2>2. Done(p) \/ \E point \in PlainPoints : Goto(p, point)
    BY DEF ReconcilePorts, PlainPoints, Points, ProvisioningPoints, DeletingPoints,
       OtherPoints, ObservePoints, EggPoints
  <2>. QED BY <2>1, <2>2, PlainMoveOK
<1>2. TableOK'
  BY SameTable, UpdateVariablesLocks, SameLocksOK, IdleAssumption DEF TableOK, ReconcilePorts, RequestsOK, Request, WellFormed,
     Row, Stable, agents, history, ObservePoints
<1>3. AgentsOK' /\ HistoryOK'
  BY IdleAssumption, BoundsAssumption DEF AgentsOK, HistoryOK, ReconcilePorts, agents, history, RequestsOK, Request
<1>. QED BY <1>1, <1>2, <1>3

LEMMA SettingsWriteOK ==
  ASSUME TypeInv, NEW p \in Procs, SettingsWrite(p)
  PROVE  TypeInv'
<1>. USE DEF TypeInv, At
<1>1. RequestsOK'
  <2>1. proc[p] # None /\ proc[p].pc \notin ObservePoints
    BY DEF SettingsWrite, ObservePoints
  <2>2. Done(p) \/ \E point \in PlainPoints : Goto(p, point)
    BY DEF SettingsWrite, PlainPoints, Points, ProvisioningPoints, DeletingPoints,
       OtherPoints, ObservePoints, EggPoints
  <2>. QED BY <2>1, <2>2, PlainMoveOK
<1>2. TableOK'
  BY SameTable, UpdateVariablesLocks, SameLocksOK, IdleAssumption DEF TableOK, SettingsWrite, RequestsOK, Request, WellFormed,
     Row, Stable, agents, history, ObservePoints
<1>3. AgentsOK' /\ HistoryOK'
  BY IdleAssumption, BoundsAssumption DEF AgentsOK, HistoryOK, SettingsWrite, agents, history, RequestsOK, Request
<1>. QED BY <1>1, <1>2, <1>3

LEMMA WriteFlagOK ==
  ASSUME TypeInv, NEW p \in Procs, WriteFlag(p)
  PROVE  TypeInv'
<1>. USE DEF TypeInv, At
<1>1. RequestsOK'
  <2>1. proc[p] # None /\ proc[p].pc \notin ObservePoints
    BY DEF WriteFlag, ObservePoints
  <2>2. Done(p) \/ \E point \in PlainPoints : Goto(p, point)
    BY DEF WriteFlag, PlainPoints, Points, ProvisioningPoints, DeletingPoints,
       OtherPoints, ObservePoints, EggPoints
  <2>. QED BY <2>1, <2>2, PlainMoveOK
<1>2. TableOK'
  BY SameTable, UpdateVariablesLocks, SameLocksOK, IdleAssumption DEF TableOK, WriteFlag, RequestsOK, Request, WellFormed,
     Row, Stable, agents, history, ObservePoints
<1>3. AgentsOK' /\ HistoryOK'
  BY IdleAssumption, BoundsAssumption DEF AgentsOK, HistoryOK, WriteFlag, agents, history, RequestsOK, Request
<1>. QED BY <1>1, <1>2, <1>3

LEMMA FreezeStatusOK ==
  ASSUME TypeInv, NEW p \in Procs, FreezeStatus(p)
  PROVE  TypeInv'
<1>. USE DEF TypeInv, At
<1>1. RequestsOK'
  <2>1. proc[p] # None /\ proc[p].pc \notin ObservePoints
    BY DEF FreezeStatus, ObservePoints
  <2>2. Done(p) \/ \E point \in PlainPoints : Goto(p, point)
    BY DEF FreezeStatus, PlainPoints, Points, ProvisioningPoints, DeletingPoints,
       OtherPoints, ObservePoints, EggPoints
  <2>. QED BY <2>1, <2>2, PlainMoveOK
<1>2. TableOK'
  BY SameTable, SetStatusLocks, SameLocksOK, IdleAssumption DEF TableOK, FreezeStatus, RequestsOK, Request, WellFormed,
     Row, Stable, agents, history, ObservePoints
<1>3. AgentsOK' /\ HistoryOK'
  BY IdleAssumption, BoundsAssumption DEF AgentsOK, HistoryOK, FreezeStatus, agents, history, RequestsOK, Request
<1>. QED BY <1>1, <1>2, <1>3

LEMMA UnfreezeStatusOK ==
  ASSUME TypeInv, NEW p \in Procs, UnfreezeStatus(p)
  PROVE  TypeInv'
<1>. USE DEF TypeInv, At
<1>1. RequestsOK'
  <2>1. proc[p] # None /\ proc[p].pc \notin ObservePoints
    BY DEF UnfreezeStatus, ObservePoints
  <2>2. Done(p) \/ \E point \in PlainPoints : Goto(p, point)
    BY DEF UnfreezeStatus, PlainPoints, Points, ProvisioningPoints, DeletingPoints,
       OtherPoints, ObservePoints, EggPoints
  <2>. QED BY <2>1, <2>2, PlainMoveOK
<1>2. TableOK'
  BY SameTable, SetStatusLocks, SameLocksOK, IdleAssumption DEF TableOK, UnfreezeStatus, RequestsOK, Request, WellFormed,
     Row, Stable, agents, history, ObservePoints
<1>3. AgentsOK' /\ HistoryOK'
  BY IdleAssumption, BoundsAssumption DEF AgentsOK, HistoryOK, UnfreezeStatus, agents, history, RequestsOK, Request
<1>. QED BY <1>1, <1>2, <1>3

LEMMA ObserveWriteOK ==
  ASSUME TypeInv, NEW p \in Procs, ObserveWrite(p)
  PROVE  TypeInv'
<1>. USE DEF TypeInv, At
<1>1. RequestsOK'
  BY DoneOK DEF ObserveWrite
<1>2. TableOK'
  BY SameTable, SetStatusLocks, SameLocksOK, IdleAssumption DEF TableOK, ObserveWrite, RequestsOK, Request, WellFormed,
     Row, Stable, agents, history, ObservePoints
<1>3. AgentsOK' /\ HistoryOK'
  BY IdleAssumption, BoundsAssumption DEF AgentsOK, HistoryOK, ObserveWrite, agents, history, RequestsOK, Request
<1>. QED BY <1>1, <1>2, <1>3

LEMMA PowerStatusOK ==
  ASSUME TypeInv, NEW p \in Procs, PowerStatus(p)
  PROVE  TypeInv'
<1>. USE DEF TypeInv, At
<1>1. RequestsOK'
  <2>1. proc[p] # None /\ proc[p].pc \notin ObservePoints
    BY DEF PowerStatus, ObservePoints
  <2>2. Done(p) \/ \E point \in PlainPoints : Goto(p, point)
    BY DEF PowerStatus, PlainPoints, Points, ProvisioningPoints, DeletingPoints,
       OtherPoints, ObservePoints, EggPoints
  <2>. QED BY <2>1, <2>2, PlainMoveOK
<1>2. TableOK'
  <2>1. PowerState(proc[p].op) \in Stable /\ proc[p].s \in Servers
    BY IdleAssumption DEF PowerState, Stable, PowerStatus, RequestsOK, Request
  <2>. QED BY <2>1, SameTable, SetStatusLocks, SameLocksOK DEF TableOK, PowerStatus
<1>3. AgentsOK' /\ HistoryOK'
  BY IdleAssumption, BoundsAssumption DEF AgentsOK, HistoryOK, PowerStatus, agents, history, RequestsOK, Request
<1>. QED BY <1>1, <1>2, <1>3

LEMMA FreezeStopOK ==
  ASSUME TypeInv, NEW p \in Procs, FreezeStop(p)
  PROVE  TypeInv'
<1>. USE DEF TypeInv, At
<1>1. RequestsOK'
  <2>1. proc[p] # None /\ proc[p].pc \notin ObservePoints
    BY DEF FreezeStop, ObservePoints
  <2>2. Done(p) \/ \E point \in PlainPoints : Goto(p, point)
    BY DEF FreezeStop, PlainPoints, Points, ProvisioningPoints, DeletingPoints,
       OtherPoints, ObservePoints, EggPoints
  <2>. QED BY <2>1, <2>2, PlainMoveOK
<1>2. TableOK'
  BY SameTable, SameLocksOK DEF TableOK, FreezeStop, agents, history
<1>3. AgentsOK' /\ HistoryOK'
  BY AgentPowerOK, IdleAssumption DEF AgentsOK, HistoryOK, FreezeStop, RequestsOK, WellFormed, Request,
     PowerState, history, agents, ObservePoints
<1>. QED BY <1>1, <1>2, <1>3

LEMMA PowerAgentOK ==
  ASSUME TypeInv, NEW p \in Procs, PowerAgent(p)
  PROVE  TypeInv'
<1>. USE DEF TypeInv, At
<1>1. RequestsOK'
  <2>1. proc[p] # None /\ proc[p].pc \notin ObservePoints
    BY DEF PowerAgent, ObservePoints
  <2>2. Done(p) \/ \E point \in PlainPoints : Goto(p, point)
    BY DEF PowerAgent, PlainPoints, Points, ProvisioningPoints, DeletingPoints,
       OtherPoints, ObservePoints, EggPoints
  <2>. QED BY <2>1, <2>2, PlainMoveOK
<1>2. TableOK'
  BY SameTable, SameLocksOK DEF TableOK, PowerAgent, agents, history
<1>3. AgentsOK' /\ HistoryOK'
  BY AgentPowerOK, IdleAssumption DEF AgentsOK, HistoryOK, PowerAgent, RequestsOK, WellFormed, Request,
     PowerState, history, agents, ObservePoints
<1>. QED BY <1>1, <1>2, <1>3

LEMMA ObserveReadOK ==
  ASSUME TypeInv, NEW p \in Procs, ObserveRead(p)
  PROVE  TypeInv'
<1>. USE DEF TypeInv, At
<1>1. RequestsOK'
  <2>1. proc[p] # None /\ proc[p].pc = "observeRead"
    BY DEF ObserveRead
  <2>2. WellFormed(proc[p])
    BY <2>1 DEF RequestsOK
  <2>3. WellFormed([proc[p] EXCEPT !.pc = "observeWrite"])
    BY <2>1, <2>2 DEF WellFormed, RequestsOK, Request, ObservePoints, EggPoints, DeletingPoints
  <2>4. Done(p) \/ Goto(p, "observeWrite")
    BY DEF ObserveRead
  <2>. QED BY <2>1, <2>3, <2>4, DoneOK, GotoOK DEF Points, OtherPoints
<1>2. TableOK'
  BY SameTable, SameLocksOK DEF TableOK, ObserveRead, agents, history
<1>3. AgentsOK' /\ HistoryOK'
  BY IdleAssumption, BoundsAssumption DEF AgentsOK, HistoryOK, ObserveRead, agents, history, RequestsOK, Request
<1>. QED BY <1>1, <1>2, <1>3

LEMMA CrashOK ==
  ASSUME TypeInv, NEW p \in Procs, Crash(p)
  PROVE  TypeInv'
<1>. USE DEF TypeInv, At
<1>1. RequestsOK'
  BY DoneOK DEF Crash
<1>2. TableOK'
  BY SameTable, SameLocksOK DEF TableOK, Crash, agents, history
<1>3. AgentsOK' /\ HistoryOK'
  BY IdleAssumption, BoundsAssumption DEF AgentsOK, HistoryOK, Crash, agents, history, RequestsOK, Request
<1>. QED BY <1>1, <1>2, <1>3

LEMMA DeleteReadOK ==
  ASSUME TypeInv, NEW p \in Procs,
         NEW s \in Servers, NEW op, DeleteRead(p, s, op)
  PROVE  TypeInv'
<1>. USE DEF TypeInv, At
<1>1. RequestsOK'
  BY ReadOK DEF DeleteRead, OtherPoints, ObservePoints
<1>2. TableOK'
  BY SameTable, SameLocksOK DEF TableOK, DeleteRead, agents, history
<1>3. AgentsOK' /\ HistoryOK'
  BY DEF AgentsOK, HistoryOK, DeleteRead, agents, history
<1>. QED BY <1>1, <1>2, <1>3

LEMMA EggReadOK ==
  ASSUME TypeInv, NEW p \in Procs,
         NEW s \in Servers, EggRead(p, s)
  PROVE  TypeInv'
<1>. USE DEF TypeInv, At
<1>1. RequestsOK'
  BY ReadOK DEF EggRead, OtherPoints, ObservePoints
<1>2. TableOK'
  BY SameTable, SameLocksOK DEF TableOK, EggRead, agents, history
<1>3. AgentsOK' /\ HistoryOK'
  BY DEF AgentsOK, HistoryOK, EggRead, agents, history
<1>. QED BY <1>1, <1>2, <1>3

LEMMA FreezeReadOK ==
  ASSUME TypeInv, NEW p \in Procs,
         NEW s \in Servers, NEW billing \in BOOLEAN, FreezeRead(p, s, billing)
  PROVE  TypeInv'
<1>. USE DEF TypeInv, At
<1>1. RequestsOK'
  BY ReadOK DEF FreezeRead, OtherPoints, ObservePoints
<1>2. TableOK'
  BY SameTable, SameLocksOK DEF TableOK, FreezeRead, agents, history
<1>3. AgentsOK' /\ HistoryOK'
  BY DEF AgentsOK, HistoryOK, FreezeRead, agents, history
<1>. QED BY <1>1, <1>2, <1>3

LEMMA UnfreezeReadOK ==
  ASSUME TypeInv, NEW p \in Procs,
         NEW s \in Servers, UnfreezeRead(p, s)
  PROVE  TypeInv'
<1>. USE DEF TypeInv, At
<1>1. RequestsOK'
  BY ReadOK DEF UnfreezeRead, OtherPoints, ObservePoints
<1>2. TableOK'
  BY SameTable, SameLocksOK DEF TableOK, UnfreezeRead, agents, history
<1>3. AgentsOK' /\ HistoryOK'
  BY DEF AgentsOK, HistoryOK, UnfreezeRead, agents, history
<1>. QED BY <1>1, <1>2, <1>3

LEMMA PowerReadOK ==
  ASSUME TypeInv, NEW p \in Procs,
         NEW s \in Servers, NEW op, PowerRead(p, s, op)
  PROVE  TypeInv'
<1>. USE DEF TypeInv, At
<1>1. RequestsOK'
  BY ReadOK DEF PowerRead, OtherPoints, ObservePoints
<1>2. TableOK'
  BY SameTable, SameLocksOK DEF TableOK, PowerRead, agents, history
<1>3. AgentsOK' /\ HistoryOK'
  BY DEF AgentsOK, HistoryOK, PowerRead, agents, history
<1>. QED BY <1>1, <1>2, <1>3

LEMMA SettingsReadOK ==
  ASSUME TypeInv, NEW p \in Procs,
         NEW s \in Servers, SettingsRead(p, s)
  PROVE  TypeInv'
<1>. USE DEF TypeInv, At
<1>1. RequestsOK'
  BY ReadOK DEF SettingsRead, OtherPoints, ObservePoints
<1>2. TableOK'
  BY SameTable, SameLocksOK DEF TableOK, SettingsRead, agents, history
<1>3. AgentsOK' /\ HistoryOK'
  BY DEF AgentsOK, HistoryOK, SettingsRead, agents, history
<1>. QED BY <1>1, <1>2, <1>3

LEMMA ObservePollOK ==
  ASSUME TypeInv, NEW p \in Procs,
         NEW s \in Servers, NEW n \in Nodes, ObservePoll(p, s, n)
  PROVE  TypeInv'
<1>. USE DEF TypeInv, At
<1>. DEFINE r == [op |-> "observe", pc |-> "observeRead", s |-> s, snap |-> None,
                  prev |-> Observed(container[<<n, s>>])]
<1>1. RequestsOK'
  <2>1. Begin(p, r)
    BY DEF ObservePoll
  <2>2. r \in Request
    BY DEF Request, AllOps, Points, OtherPoints, Observed, Statuses, Stable
  <2>3. WellFormed(r)
    BY <2>1 DEF Begin, WellFormed, ObservePoints, EggPoints, DeletingPoints, Observed, Stable
  <2>. QED BY <2>1, <2>2, <2>3, BecomeOK DEF Begin
<1>2. TableOK'
  BY SameTable, SameLocksOK DEF TableOK, ObservePoll, agents, history
<1>3. AgentsOK' /\ HistoryOK'
  BY DEF AgentsOK, HistoryOK, ObservePoll, agents, history
<1>. QED BY <1>1, <1>2, <1>3

LEMMA ReserveOK ==
  ASSUME TypeInv, NEW p \in Procs,
         NEW s \in Servers, NEW n \in Nodes, NEW op, Reserve(p, s, n, op)
  PROVE  TypeInv'
<1>. USE DEF TypeInv, At
<1>. DEFINE r == [op |-> op, pc |-> "assignPorts", s |-> s, snap |-> servers'[s], prev |-> "none"]
<1>1. RequestsOK'
  <2>1. Begin(p, r)
    BY DEF Reserve
  <2>2. servers'[s] \in Row /\ servers'[s].status = "provisioning"
    BY ReserveLocks DEF Reserve, TableOK
  <2>3. r \in Request /\ WellFormed(r)
    BY <2>1, <2>2, OpsAssumption DEF Begin, Request, WellFormed, Points, ProvisioningPoints,
       ObservePoints, EggPoints, DeletingPoints
  <2>. QED BY <2>1, <2>3, BecomeOK DEF Begin
<1>2. TableOK'
  BY ReserveLocks, OneLockOK DEF TableOK, Reserve
<1>3. AgentsOK' /\ HistoryOK'
  BY DEF AgentsOK, HistoryOK, Reserve, agents, history
<1>. QED BY <1>1, <1>2, <1>3

LEMMA ClaimRemoveOK ==
  ASSUME TypeInv, NEW p \in Procs,
         NEW s \in Servers, NEW op, ClaimRemove(p, s, op)
  PROVE  TypeInv'
<1>. USE DEF TypeInv, At
<1>. DEFINE r == [op |-> op, s |-> s, snap |-> servers[s], prev |-> servers[s].status,
                  pc |-> IF op = "registryRemove" THEN "deleteDatabases" ELSE "deleteContainer"]
<1>1. RequestsOK'
  <2>1. Begin(p, r)
    BY DEF ClaimRemove
  <2>2. servers[s] \in Row /\ servers[s].status # "transferring"
    BY RowRead DEF ClaimRemove, ClaimDeletion, MayClaimDeletion
  <2>3. r \in Request /\ WellFormed(r)
    BY <2>1, <2>2, OpsAssumption DEF Begin, Request, WellFormed, Row, Points, ObservePoints,
       EggPoints, DeletingPoints
  <2>. QED BY <2>1, <2>3, BecomeOK DEF Begin
<1>2. TableOK'
  BY ClaimDeletionLocks, OneLockOK DEF TableOK, ClaimRemove
<1>3. AgentsOK' /\ HistoryOK'
  BY DEF AgentsOK, HistoryOK, ClaimRemove, agents, history
<1>. QED BY <1>1, <1>2, <1>3

\* Every step of every handler keeps the strengthened type invariant.
LEMMA TypeInvStep == TypeInv /\ [Next]_vars => TypeInv'
<1>. SUFFICES ASSUME TypeInv, [Next]_vars PROVE TypeInv'
  OBVIOUS
<1>1. CASE UNCHANGED vars
  BY <1>1, SameTable, SameLocksOK DEF vars, TypeInv, RequestsOK, WellFormed, TableOK, AgentsOK,
     HistoryOK
<1>2. ASSUME NEW p \in Procs, Arrive(p) PROVE TypeInv'
  BY <1>2, ReserveOK, DeleteReadOK, ClaimRemoveOK, EggReadOK, SettingsReadOK, FreezeReadOK,
     UnfreezeReadOK, PowerReadOK, ObservePollOK DEF Arrive
<1>3. ASSUME NEW p \in Procs, CreateStep(p) PROVE TypeInv'
  BY <1>3, AssignPortsOK, ResolveEggOK, CreateContainerOK, RecordReadOK, FinalizeOK,
     RecordUpsertOK, NotifyOK, CleanupOK, ReleaseOK DEF CreateStep
<1>4. ASSUME NEW p \in Procs, DeleteStep(p) PROVE TypeInv'
  BY <1>4, ClaimDeleteOK, DeleteDatabasesOK, DeleteContainerOK, RemoveRowOK, RestoreRowOK
     DEF DeleteStep
<1>5. ASSUME NEW p \in Procs, EggStep(p) PROVE TypeInv'
  BY <1>5, EggClaimOK, EggDeleteOK, EggRestoreOK, EggCreateOK, EggUpsertOK DEF EggStep
<1>6. ASSUME NEW p \in Procs, WriteStep(p) PROVE TypeInv'
  BY <1>6, ReconcilePortsOK, SettingsWriteOK, WriteFlagOK, FreezeStatusOK, UnfreezeStatusOK,
     FreezeStopOK DEF WriteStep
<1>7. ASSUME NEW p \in Procs, RuntimeStep(p) PROVE TypeInv'
  BY <1>7, PowerAgentOK, PowerStatusOK, ObserveReadOK, ObserveWriteOK DEF RuntimeStep
<1>8. ASSUME NEW p \in Procs, Crash(p) PROVE TypeInv'
  BY <1>8, CrashOK
<1>. QED BY <1>1, <1>2, <1>3, <1>4, <1>5, <1>6, <1>7, <1>8 DEF Next, Step

\* The empty panel is well typed.
LEMMA TypeInvInit == Init => TypeInv
BY BoundsAssumption DEF Init, TypeInv, RequestsOK, TableOK, RegistryTypeOK, NoTransfer, Lock,
   HasStatus, Exists, AgentsOK, HistoryOK, ContainerStates

\* What the handlers of servers.controller.ts and its siblings write is always
\* a row of the table: no interleaving of them stores a status that is none,
\* or a row rebuilt from a request that never read one.
THEOREM TypeCorrect == Spec => []TypeOK
<1>1. TypeInv /\ [Next]_vars => TypeInv'
  BY TypeInvStep
<1>2. Init => TypeInv
  BY TypeInvInit
<1>. QED BY <1>1, <1>2, TypeInvImpliesTypeOK, PTL DEF Spec
-----------------------------------------------------------------------------
(* The host ports.  Seen from the unique index, a step writes at most one  *)
(* row at a place it did not have before, and every such write compares    *)
(* the port with those of the node in the transaction that makes it.       *)

\* The row of s was not created by the step, and is where it was.
StaysPut(s) ==
  Exists(s)' => /\ Exists(s)
                /\ servers'[s].node = servers[s].node
                /\ servers'[s].port = servers[s].port

\* The row of s, if the step leaves one, has a port that no other row had.
TakesFreePort(s) ==
  Exists(s)' => ~PortTaken(s, servers'[s].node, servers'[s].port)

\* The one row that request p puts somewhere: a reservation, or a row that a
\* creation or an egg change writes with the port that an agent reports.
Places(p, s) ==
  /\ \A t \in Servers \ {s} : StaysPut(t)
  /\ TakesFreePort(s)
  /\ \/ ~Exists(s) /\ Lock(s)' = "provisioning"
     \/ /\ proc[p].s = s
        /\ \/ At(p, "finalize") /\ servers'[s].node = servers[s].node
           \/ At(p, "recordUpsert") \/ At(p, "eggUpsert")

\* A write of the status or of the marker of one row, or its removal.
LEMMA RowWriteStays ==
  ASSUME RegistryTypeOK, NEW s \in Servers,
         \/ \E status \in Statuses :
              \/ Exists(s) /\ WriteStatus(s, status)
              \/ SetStatus(s, status) \/ RestoreDeletion(s, status)
              \/ RestoreTransition(s, "provisioning", status)
         \/ \E frozen \in BOOLEAN :
              UpdateVariables(s, frozen) \/ AssignPortAllocations(s, frozen)
         \/ Remove(s) \/ ReleaseProvisioning(s)
  PROVE  \A t \in Servers : StaysPut(t)
BY NoneAssumption DEF RegistryTypeOK, StaysPut, WriteStatus, SetStatus, RestoreDeletion,
   RestoreTransition, UpdateVariables, AssignPortAllocations, Remove,
   ReleaseProvisioning, HasStatus, Exists, Row, Statuses

\* A reservation, or a row written whole: both ask for a port nobody has.
LEMMA ReservePlaces ==
  ASSUME RegistryTypeOK, NEW p \in Procs, NEW s \in Servers, NEW n \in Nodes,
         ReserveRandomPort(s, n)
  PROVE  Places(p, s)
<1>1. PICK q \in Ports :
        /\ ~PortTaken(s, n, q)
        /\ servers' = [servers EXCEPT ![s] =
             [node |-> n, port |-> q, status |-> "provisioning", frozen |-> FALSE]]
  BY DEF ReserveRandomPort
<1>2. \A t \in Servers \ {s} : StaysPut(t)
  BY <1>1 DEF RegistryTypeOK, StaysPut, Exists
<1>3. TakesFreePort(s)
  BY <1>1 DEF RegistryTypeOK, TakesFreePort, Exists
<1>4. ~Exists(s) /\ Lock(s)' = "provisioning"
  BY ReserveLocks DEF ReserveRandomPort
<1>. QED BY <1>2, <1>3, <1>4 DEF Places

LEMMA FinalizePlaces ==
  ASSUME RegistryTypeOK, NEW p \in Procs, proc[p].s \in Servers, At(p, "finalize"),
         NEW reported \in Ports \cup {None}, FinalizeProvisioning(proc[p].s, reported)
  PROVE  Places(p, proc[p].s)
<1>1. PICK s \in Servers : s = proc[p].s
  OBVIOUS
<1>. DEFINE port == PortAfter(s, reported)
            row == CreatedAt(servers[s], port)
<1>2. /\ servers' = [servers EXCEPT ![s] = row]
      /\ servers[s] \in Row /\ ~PortTaken(s, servers[s].node, port)
  BY <1>1 DEF RegistryTypeOK, FinalizeProvisioning, RefusesPort, HasStatus, Exists
<1>3. row.node = servers[s].node /\ row.port = port
  BY <1>2, CreatedRow DEF PortAfter, Row
<1>4. \A t \in Servers \ {s} : StaysPut(t)
  BY <1>2 DEF RegistryTypeOK, StaysPut, Exists
<1>5. TakesFreePort(s)
  BY <1>2, <1>3 DEF RegistryTypeOK, TakesFreePort
<1>6. servers'[s].node = servers[s].node
  BY <1>2, <1>3 DEF RegistryTypeOK
<1>. QED BY <1>1, <1>4, <1>5, <1>6 DEF Places

LEMMA UpsertPlaces ==
  ASSUME RegistryTypeOK, NEW p \in Procs, NEW row \in Row, proc[p].s \in Servers,
         At(p, "recordUpsert") \/ At(p, "eggUpsert"), Upsert(proc[p].s, row)
  PROVE  (\A t \in Servers : StaysPut(t)) \/ \E s \in Servers : Places(p, s)
<1>1. PICK s \in Servers : s = proc[p].s
  OBVIOUS
<1>2. CASE PortTaken(s, row.node, row.port)
  BY <1>1, <1>2 DEF Upsert, StaysPut, Exists
<1>3. CASE ~PortTaken(s, row.node, row.port)
  <2>1. servers' = [servers EXCEPT ![s] = row]
    BY <1>1, <1>3 DEF Upsert
  <2>2. \A t \in Servers \ {s} : StaysPut(t)
    BY <2>1 DEF RegistryTypeOK, StaysPut, Exists
  <2>3. TakesFreePort(s)
    BY <1>3, <2>1 DEF RegistryTypeOK, TakesFreePort
  <2>. QED BY <1>1, <2>2, <2>3 DEF Places
<1>. QED BY <1>2, <1>3

\* A step of a handler leaves every row where it is, or places one.
LEMMA StepPlaces ==
  ASSUME TypeInv, NEW p \in Procs, Arrive(p) \/ Step(p) \/ Crash(p)
  PROVE  (\A t \in Servers : StaysPut(t)) \/ \E s \in Servers : Places(p, s)
<1>. USE DEF TypeInv, At
<1>0. /\ RegistryTypeOK
      /\ proc[p] # None => /\ proc[p].s \in Servers
                           /\ proc[p].pc \in Points
                           /\ WellFormed(proc[p])
  BY DEF TableOK, RequestsOK, Request
<1>1. UNCHANGED servers => \A t \in Servers : StaysPut(t)
  BY DEF StaysPut, Exists
<1>2. CASE Arrive(p)
  <2>1. ASSUME NEW s \in Servers, NEW n \in Nodes, NEW op \in CreateOps, Reserve(p, s, n, op)
        PROVE  Places(p, s)
    BY <1>0, <2>1, ReservePlaces DEF Reserve
  <2>2. ASSUME NEW s \in Servers, NEW op \in RemoveOps, ClaimRemove(p, s, op)
        PROVE  \A t \in Servers : StaysPut(t)
    BY <1>0, <1>1, <2>2, RowWriteStays
       DEF ClaimRemove, ClaimDeletion, MayClaimDeletion, Statuses, Transitional
  <2>3. \/ UNCHANGED servers
        \/ \E s \in Servers : \/ \E n \in Nodes, op \in CreateOps : Reserve(p, s, n, op)
                             \/ \E op \in RemoveOps : ClaimRemove(p, s, op)
    BY <1>2 DEF Arrive, DeleteRead, EggRead, SettingsRead, FreezeRead, UnfreezeRead, PowerRead,
       ObservePoll
  <2>. QED BY <1>1, <2>1, <2>2, <2>3
<1>3. CASE CreateStep(p)
  <2>1. CASE Finalize(p)
    <3>1. Reported(proc[p]) \subseteq Ports \cup {None}
      BY <1>0, <2>1, ReportedPorts, IdleAssumption DEF Finalize, RequestsOK, WellFormed,
         ObservePoints
    <3>. QED BY <1>0, <1>1, <2>1, <3>1, FinalizePlaces DEF Finalize
  <2>2. CASE RecordUpsert(p)
    <3>1. proc[p].snap \in Row
      BY <1>0, <2>2 DEF RecordUpsert, WellFormed, ObservePoints
    <3>2. Reported(proc[p]) \subseteq Ports \cup {None}
      BY <1>0, <2>2, <3>1, ReportedPorts, IdleAssumption DEF RecordUpsert, RequestsOK
    <3>. QED BY <1>0, <2>2, <3>1, <3>2, CreatedRow, UpsertPlaces DEF RecordUpsert
  <2>3. CASE Release(p)
    BY <1>0, <1>1, <2>3, RowWriteStays DEF Release
  <2>. QED BY <1>1, <1>3, <2>1, <2>2, <2>3
         DEF CreateStep, AssignPorts, ResolveEgg, CreateContainer, RecordRead, Notify, Cleanup
<1>4. CASE DeleteStep(p)
  <2>1. CASE ClaimDelete(p)
    BY <1>0, <1>1, <2>1, RowWriteStays
       DEF ClaimDelete, ClaimDeletion, MayClaimDeletion, Statuses, Transitional
  <2>2. CASE RemoveRow(p)
    BY <1>0, <1>1, <2>2, RowWriteStays DEF RemoveRow
  <2>3. CASE RestoreRow(p)
    <3>1. RestoreStatus(proc[p]) \in Statuses
      BY <1>0, <2>3 DEF RestoreRow, RestoreStatus, WellFormed, DeletingPoints, ObservePoints,
         Row
    <3>. QED BY <1>0, <1>1, <2>3, <3>1, RowWriteStays DEF RestoreRow
  <2>. QED BY <1>1, <1>4, <2>1, <2>2, <2>3 DEF DeleteStep, DeleteDatabases, DeleteContainer
<1>5. CASE EggStep(p)
  <2>1. CASE EggClaim(p)
    BY <1>0, <1>1, <2>1, RowWriteStays
       DEF EggClaim, ClaimTransition, HasStatus, Statuses, Transitional
  <2>2. CASE EggRestore(p)
    BY <1>0, <1>1, <2>2, RowWriteStays
       DEF EggRestore, WellFormed, EggPoints, Statuses
  <2>3. CASE EggUpsert(p)
    <3>1. proc[p].snap \in Row
      BY <1>0, <2>3 DEF EggUpsert, WellFormed, ObservePoints
    <3>. QED BY <1>0, <2>3, <3>1, CreatedRow, UpsertPlaces DEF EggUpsert, Row
  <2>. QED BY <1>1, <1>5, <2>1, <2>2, <2>3 DEF EggStep, EggDelete, EggCreate
<1>6. CASE WriteStep(p)
  <2>1. CASE ReconcilePorts(p) \/ SettingsWrite(p)
    <3>1. proc[p].snap.frozen \in BOOLEAN
      BY <1>0, <2>1 DEF ReconcilePorts, SettingsWrite, WellFormed, ObservePoints, Row
    <3>. QED BY <1>0, <1>1, <2>1, <3>1, RowWriteStays DEF ReconcilePorts, SettingsWrite
  <2>2. CASE WriteFlag(p)
    BY <1>0, <1>1, <2>2, RowWriteStays DEF WriteFlag
  <2>3. CASE FreezeStatus(p) \/ UnfreezeStatus(p)
    BY <1>0, <1>1, <2>3, RowWriteStays DEF FreezeStatus, UnfreezeStatus, Statuses, Stable
  <2>. QED BY <1>1, <1>6, <2>1, <2>2, <2>3 DEF WriteStep, FreezeStop
<1>7. CASE RuntimeStep(p)
  <2>1. CASE PowerStatus(p)
    BY <1>0, <1>1, <2>1, RowWriteStays DEF PowerStatus, PowerState, Statuses, Stable
  <2>2. CASE ObserveWrite(p)
    BY <1>0, <1>1, <2>2, RowWriteStays DEF ObserveWrite, WellFormed, ObservePoints, Statuses
  <2>. QED BY <1>1, <1>7, <2>1, <2>2 DEF RuntimeStep, PowerAgent, ObserveRead
<1>8. CASE Crash(p)
  BY <1>1, <1>8 DEF Crash
<1>. QED BY <1>2, <1>3, <1>4, <1>5, <1>6, <1>7, <1>8 DEF Step

\* No two servers of a node ever share a primary host port, whatever ports the
\* agents report to creations and egg changes, and whatever port an egg change
\* reads before its claim or is asked for (finalizeProvisioning, recordServer,
\* changeEgg and the unique index, server-registry.service.ts).
THEOREM UniquePortsAlways == Spec => []UniquePorts
<1>1. Init => UniquePorts
  BY DEF Init, UniquePorts, Exists
<1>2. TypeInv /\ UniquePorts /\ [Next]_vars => UniquePorts'
  <2>1. UniquePorts /\ (\A t \in Servers : StaysPut(t)) => UniquePorts'
    BY DEF UniquePorts, StaysPut
  <2>2. \A p \in Procs, s \in Servers : UniquePorts /\ Places(p, s) => UniquePorts'
    BY DEF UniquePorts, Places, StaysPut, TakesFreePort, PortTaken
  <2>3. UNCHANGED vars => \A t \in Servers : StaysPut(t)
    BY DEF vars, StaysPut, Exists
  <2>. QED BY <2>1, <2>2, <2>3, StepPlaces DEF Next
<1>3. TypeInv /\ [Next]_vars => TypeInv'
  BY TypeInvStep
<1>4. Init => TypeInv
  BY TypeInvInit
<1>. QED BY <1>1, <1>2, <1>3, <1>4, PTL DEF Spec
=============================================================================
