------------------------------ MODULE PlanOrders ------------------------------
(***************************************************************************)
(* Orders of a billing system: the plan that an order names, the node that *)
(* has room for it, and the reservation that takes the room.  Nothing is   *)
(* held between the choice of the node (ServerPlacementService) and the    *)
(* reservation (ServerRegistryService), while plans, nodes and other       *)
(* orders change; a reservation checks ports again, and nothing else.      *)
(* Disk and memory are counted in units; every server takes one port.      *)
(***************************************************************************)
EXTENDS Integers, FiniteSets, FiniteSetsExt, TLC

CONSTANTS
  Plans,       \* ids of plans
  Nodes, Places,   \* registered agents, and their locations
  Servers,     \* ids that orders name for their servers
  Requests,    \* orders under way at the same time
  Asks,        \* the memory and the disk that an order may name in bytes; 0 is none
  Offers,      \* what administrators send for a plan, field by field
  Blank,       \* a plan with the defaults of create()
  Legacy,      \* the plan of an order that names an egg and no known product, or None
  Physical,    \* memory and disk of every node, as it reports them
  PortCount,   \* ports of every node
  Edits,       \* what administrators send for a node, field by field
  None,
  MaxEdits, MaxFaults

Fields == {"key", "enabled", "egg", "allowed", "place", "node", "memory", "disk", "swap", "general"}

PlanOrdersAssumption ==
  /\ DOMAIN Blank = Fields /\ \A o \in Offers : DOMAIN o \subseteq Fields
  /\ Asks \subseteq [memory : Nat, disk : Nat]
  /\ {Physical, PortCount} \subseteq Nat \ {0}
  /\ {MaxEdits, MaxFaults} \subseteq Nat

VARIABLES
  plans,       \* ServerPlansService.plans
  node,        \* AgentsService: the policy of each node
  report,      \* NodeStatsService: is the node healthy, and the memory in use
  rows,        \* the table of servers
  request,     \* the orders
  excused,     \* history: rows whose room was no longer there when it was taken, or
               \* was never looked for, and nodes whose limits were lowered
  edits, faults

vars == <<plans, node, report, rows, request, excused, edits, faults>>

Edit == edits < MaxEdits /\ edits' = edits + 1
Fault == faults < MaxFaults /\ faults' = faults + 1
Known == {i \in Plans : plans[i] # None}
Held(n) == {s \in Servers : rows[s] # None /\ rows[s].node = n}

\* Orders that chose node n and have not taken the room yet.
Waiting(n) == {q \in Requests : request[q] # None /\ request[q].pc = "reserve" /\ request[q].node = n}
Disturbed(qs) == [q \in Requests |-> IF q \in qs THEN [request[q] EXCEPT !.stale = TRUE] ELSE request[q]]

-----------------------------------------------------------------------------
(* Plans. *)

\* allowedEggIds(): the egg of the plan is always among those it allows.
\* validateSwap(): swap that is charged to the server leaves room for files.
Checked(plan) ==
  LET next == [plan EXCEPT !.allowed = @ \cup {plan.egg}] IN
  IF ~plan.general /\ plan.swap >= plan.disk /\ plan.swap > 0 THEN None ELSE next

\* validatePlanTarget(): the node of a plan is in its location, if it has one.
TargetFits(plan) == plan.node # None /\ plan.place # None => node[plan.node].place = plan.place

\* create() and update(): the plan is replaced as a whole.
SavePlan(i, plan) ==
  /\ TargetFits(plan) /\ Checked(plan) # None
  /\ plans' = [plans EXCEPT ![i] = Checked(plan)]

CreatePlan(i, offer) ==
  /\ Edit /\ i \notin Known
  /\ SavePlan(i, offer @@ Blank)
  /\ UNCHANGED <<node, report, rows, request, excused, faults>>

UpdatePlan(i, offer) ==
  /\ Edit /\ i \in Known
  /\ SavePlan(i, offer @@ plans[i])
  /\ UNCHANGED <<node, report, rows, request, excused, faults>>

RemovePlan(i) ==
  /\ Edit /\ i \in Known
  /\ plans' = [plans EXCEPT ![i] = None]
  /\ UNCHANGED <<node, report, rows, request, excused, faults>>

-----------------------------------------------------------------------------
(* Nodes. *)

\* effectiveLimit(): a limit is no more than there is; 0 is no limit.
CapacityOf(policy) ==
  (IF policy.limit = 0 \/ policy.limit > Physical THEN Physical ELSE policy.limit) + policy.over
Capacity(n) == CapacityOf(node[n])

\* updatePlacementPolicy().
EditNode(n, change) ==
  /\ Edit
  /\ node' = [node EXCEPT ![n] = change @@ @]
  /\ excused' = IF CapacityOf(node'[n]) < Capacity(n) THEN excused \cup {n} ELSE excused
  /\ UNCHANGED <<plans, report, rows, request, faults>>

\* What a node says of itself at the next poll.
Report(n, healthy, used) ==
  /\ Edit
  /\ report' = [report EXCEPT ![n] = [healthy |-> healthy, used |-> used]]
  /\ report' # report
  /\ UNCHANGED <<plans, node, rows, request, excused, faults>>

\* allocatedServerStorage(): swap counts unless it is part of the disk.
Storage(r) == r.disk + (IF r.general THEN r.swap ELSE 0)
\* allocationFor(): servers that are being deleted do not count.
Counted(n) == {s \in Held(n) : rows[s].status # "deleting"}
MemoryFree(n) == Capacity(n) - MapThenSumSet(LAMBDA s : rows[s].memory, Counted(n))
DiskFree(n) == Capacity(n) - MapThenSumSet(LAMBDA s : Storage(rows[s]), Counted(n))

-----------------------------------------------------------------------------
(* Orders. *)

\* findByExternalId(): one of the enabled plans with that key.
Matching(key) == {i \in Known : plans[i].enabled /\ plans[i].key = key}

\* resolvePlan(), and the account of the customer.
Order(q, s, key, ask) ==
  /\ request[q] = None
  /\ \E plan \in IF Matching(key) # {} THEN {plans[i] : i \in Matching(key)} ELSE {Legacy} \ {None} :
       request' = [request EXCEPT ![q] = [pc |-> "place", plan |-> plan, server |-> s, ask |-> ask, node |-> None, stale |-> FALSE]]
  /\ UNCHANGED <<plans, node, report, rows, excused, edits, faults>>

\* Seeded fault: the swap of a plan is not counted.
NeededDisk_NoSwap(plan) == plan.disk
\* nodeId().
NeededDisk(plan) == Storage(plan)

\* rankLeastMemoryUtilized(): the nodes that may take the server ...
Candidates(plan) ==
  {n \in Nodes :
    /\ plan.place # None => node[n].place = plan.place
    /\ plan.node # None => n = plan.node
    /\ report[n].healthy /\ ~node[n].maintenance
    /\ MemoryFree(n) >= plan.memory
    /\ DiskFree(n) >= NeededDisk(plan)
    /\ Cardinality(Held(n)) < PortCount}
\* ... and the first of them.  Their names decide between equals; either may
\* be first here.
First(ns) == {n \in ns : \A m \in ns : report[n].used <= report[m].used}

Place(q) ==
  /\ request[q] # None /\ request[q].pc = "place"
  /\ LET ns == First(Candidates(request[q].plan)) IN
     IF ns = {} THEN request' = [request EXCEPT ![q] = None]
     ELSE \E n \in ns : request' = [request EXCEPT ![q] = [@ EXCEPT !.pc = "reserve", !.node = n]]
  /\ UNCHANGED <<plans, node, report, rows, excused, edits, faults>>

\* memoryBytes(), diskLimitBytes(): bytes that the order names go before the
\* plan's megabytes, which nodeId() has looked for.
Taken(asked, planned) == IF asked > 0 THEN asked ELSE planned

\* reserveRandomPort(): a replay of an earlier order is answered with its
\* server.
Reserve(q) ==
  LET r == request[q]
      memory == Taken(r.ask.memory, r.plan.memory)
      disk == Taken(r.ask.disk, r.plan.disk)
  IN
  /\ r # None /\ r.pc = "reserve"
  /\ IF rows[r.server] # None \/ Cardinality(Held(r.node)) >= PortCount
     THEN request' = [request EXCEPT ![q] = None] /\ UNCHANGED <<rows, excused>>
     ELSE /\ rows' = [rows EXCEPT ![r.server] =
                [node |-> r.node, memory |-> memory, disk |-> disk, swap |-> r.plan.swap,
                 general |-> r.plan.general, status |-> "provisioning"]]
          /\ request' = [Disturbed(Waiting(r.node)) EXCEPT ![q] =
                [@ EXCEPT !.pc = "create", !.plan = None, !.ask = None, !.node = None, !.stale = FALSE]]
          /\ excused' = IF r.stale \/ memory > r.plan.memory \/ disk > r.plan.disk
                        THEN excused \cup {r.server} ELSE excused
  /\ UNCHANGED <<plans, node, report, edits, faults>>

\* The agent creates the server: finalizeProvisioning(), or the reservation is
\* released.  A plan whose egg does not resolve keeps it.
Finish(q) ==
  LET r == request[q] IN
  /\ r # None /\ r.pc = "create"
  /\ request' = [request EXCEPT ![q] = None]
  /\ \/ rows' = [rows EXCEPT ![r.server].status = "created"] /\ UNCHANGED <<excused, faults>>
     \/ Fault /\ rows' = [rows EXCEPT ![r.server] = None] /\ excused' = excused \ {r.server}
     \/ Fault /\ UNCHANGED <<rows, excused>>
  /\ UNCHANGED <<plans, node, report, edits>>

\* remove(): the room is free while the agent deletes the server ...
StartRemove(s) ==
  /\ Edit /\ rows[s] # None /\ rows[s].status = "created"
  /\ rows' = [rows EXCEPT ![s].status = "deleting"]
  /\ UNCHANGED <<plans, node, report, request, excused, faults>>

\* ... and is taken back when the deletion fails.
EndRemove(s) ==
  /\ rows[s] # None /\ rows[s].status = "deleting"
  /\ \/ /\ rows' = [rows EXCEPT ![s] = None] /\ excused' = excused \ {s}
        /\ UNCHANGED <<request, faults>>
     \/ /\ Fault
        /\ rows' = [rows EXCEPT ![s].status = "created"] /\ excused' = excused \cup {s}
        /\ request' = Disturbed(Waiting(rows[s].node))
  /\ UNCHANGED <<plans, node, report, edits>>

Init ==
  /\ plans = [i \in Plans |-> None]
  /\ \E place \in [Nodes -> Places] :
       node = [n \in Nodes |-> [place |-> place[n], maintenance |-> FALSE, limit |-> 0, over |-> 0]]
  /\ report = [n \in Nodes |-> [healthy |-> TRUE, used |-> 0]]
  /\ rows = [s \in Servers |-> None]
  /\ request = [q \in Requests |-> None]
  /\ excused = {} /\ edits = 0 /\ faults = 0

Next ==
  \/ \E i \in Plans : RemovePlan(i) \/ \E o \in Offers : CreatePlan(i, o) \/ UpdatePlan(i, o)
  \/ \E n \in Nodes :
       \/ \E change \in Edits : EditNode(n, change)
       \/ \E healthy \in BOOLEAN, used \in {0, Physical} : Report(n, healthy, used)
  \/ \E q \in Requests :
       \/ \E s \in Servers, ask \in Asks : Order(q, s, Blank.key, ask)
       \/ Place(q) \/ Reserve(q) \/ Finish(q)
  \/ \E s \in Servers : StartRemove(s) \/ EndRemove(s)

Spec == Init /\ [][Next]_vars

-----------------------------------------------------------------------------
(* Properties. *)

\* Every plan allows its own egg and has room beside its swap.
TypeOK ==
  /\ \A i \in Known : plans[i].egg \in plans[i].allowed
                      /\ (plans[i].general \/ plans[i].swap = 0 \/ plans[i].swap < plans[i].disk)
  /\ \A s \in Servers : rows[s] # None => rows[s].node \in Nodes /\ rows[s].status \in {"provisioning", "created", "deleting"}
  /\ edits \in 0..MaxEdits /\ faults \in 0..MaxFaults

\* No node is promised more memory or disk than it may give away, but for
\* servers whose room was taken by another order between the choice of the
\* node and the reservation, or whose order names more bytes than its plan has,
\* servers that came back from a deletion, and nodes whose limit was lowered
\* (nodeId, memoryBytes, rankLeastMemoryUtilized, reserveRandomPort).
PromisesKept ==
  \A n \in Nodes \ excused :
    /\ MapThenSumSet(LAMBDA s : rows[s].memory, Counted(n) \ excused) <= Capacity(n)
    /\ MapThenSumSet(LAMBDA s : Storage(rows[s]), Counted(n) \ excused) <= Capacity(n)
===============================================================================
