----------------------------- MODULE ServerBackups -----------------------------
(***************************************************************************)
(* The backups of one server: the agent has them, the table server_backups *)
(* catalogues them, one row each, and holds a pending row as a reservation *)
(* while one is made.  Every creation and every listing copies what the    *)
(* agent listed into the table (BackupCatalogService.sync); a row that was *)
(* not listed is deleted if it is older than the listing.                  *)
(*                                                                         *)
(* Transactions take the advisory lock of the server, so each is one step; *)
(* between them and the agent's calls anything may happen.  Local storage; *)
(* time is a counter that the events whose times are compared advance.     *)
(***************************************************************************)
EXTENDS FiniteSets, FiniteSetsExt, Naturals

CONSTANTS
  Creations,   \* calls of ServerBackupOperationsService.create
  Listings,    \* calls of ServerBackupsController.listBackups
  Deletions,   \* calls of ServerBackupOperationsService.delete
  Limit,       \* backup_limit of the server
  None

Ops == Creations \cup Listings \cup Deletions

BackupsAssumption ==
  /\ Limit \in Nat
  /\ Creations \cap Listings = {} /\ Creations \cap Deletions = {}
  /\ Listings \cap Deletions = {}
  /\ None \notin Ops

\* A backup is named after the creation that made it, and so is its row.
Row == [of : Creations, status : {"pending", "active"}, at : Nat]

VARIABLES
  rows,      \* server_backups: at most one row for each creation
  stored,    \* the backups at the agent
  made,      \* when the agent made each of them
  op,        \* the calls in progress
  clock,
  overlaid   \* history: creations that something overtook after they listed

vars == <<rows, stored, made, op, clock, overlaid>>

Call == [pc : {"idle", "observed", "listed", "synced", "creating", "created",
               "completing", "failing", "deleting", "removing", "done", "dead"},
         seen : SUBSET Creations, at : Nat, target : Creations \cup {None}]

At(o, pc) == op[o].pc = pc
Go(o, pc) == op' = [op EXCEPT ![o].pc = pc]
Tick == clock' = clock + 1

Active == {row.of : row \in {r \in rows : r.status = "active"}}
RowOf(c) == {r \in rows : r.of = c}

\* What others do while a creation stands between its listing and its decision.
Overtakes(o) ==
  overlaid' = overlaid \cup
    {c \in Creations \ {o} : op[c].pc \in {"listed", "synced"}}

-----------------------------------------------------------------------------
(* sync(). *)

\* The insertions of the transaction: a row that is there becomes active.
Catalogued(seen) ==
  {row \in rows : row.of \notin seen \/ row.status = "pending"}
    \cup {[of |-> c, status |-> "active",
           at |-> IF c \in Active
                  THEN Max({r.at : r \in {x \in rows : x.of = c /\ x.status = "active"}})
                  ELSE made[c]] : c \in seen}

\* Seeded fault: rows are only ever added.
Sync_OnlyAdds(o) == rows' = Catalogued(op[o].seen)

\* The deletion behind them: active, not seen, created before observedAt.
Sync(o) ==
  rows' = {row \in Catalogued(op[o].seen) :
    \/ row.of \in op[o].seen \/ row.status = "pending"
    \/ row.at >= op[o].at}

\* The agent's answer to listBackups.
Listed(o, at) ==
  op' = [op EXCEPT ![o] = [@ EXCEPT !.pc = "listed", !.seen = stored, !.at = at]]

\* listBackups of the controller: observedAt is taken before the call.
Observe(l) ==
  /\ At(l, "idle")
  /\ op' = [op EXCEPT ![l] = [@ EXCEPT !.pc = "observed", !.at = clock]]
  /\ Tick
  /\ UNCHANGED <<rows, stored, made, overlaid>>

ListAnswers(l) ==
  /\ At(l, "observed")
  /\ Listed(l, op[l].at)
  /\ UNCHANGED <<rows, stored, made, clock, overlaid>>

ListSyncs(l) ==
  /\ At(l, "listed")
  /\ Sync(l)
  /\ Go(l, "done")
  /\ Overtakes(l)
  /\ UNCHANGED <<stored, made, clock>>

-----------------------------------------------------------------------------
(* create(). *)

\* list(), then sync() with observedAt taken after the answer.
CreateLists(c) ==
  /\ At(c, "idle") /\ Limit > 0
  /\ Listed(c, clock)
  /\ Tick
  /\ UNCHANGED <<rows, stored, made, overlaid>>

CreateSyncs(c) ==
  /\ At(c, "listed")
  /\ Sync(c)
  /\ Go(c, IF Cardinality(op[c].seen) >= Limit THEN "done" ELSE "synced")
  /\ Overtakes(c)
  /\ UNCHANGED <<stored, made, clock>>

\* Seeded fault: reservations do not count.
Reserve_ActiveOnly(c) ==
  /\ At(c, "synced")
  /\ IF Cardinality(Active) >= Limit
     THEN Go(c, "done") /\ UNCHANGED rows
     ELSE /\ rows' = rows \cup {[of |-> c, status |-> "pending", at |-> clock]}
          /\ Go(c, "creating")
  /\ Tick
  /\ Overtakes(c)
  /\ UNCHANGED <<stored, made>>

\* reserve(): drop reservations of an hour ago (left by calls that died),
\* count pending and active rows, insert one.
Reserve(c) ==
  /\ At(c, "synced")
  /\ \E stale \in SUBSET {r \in rows : r.status = "pending" /\ At(r.of, "dead")} :
       IF Cardinality(rows \ stale) >= Limit
       THEN Go(c, "done") /\ rows' = rows
       ELSE /\ rows' = (rows \ stale) \cup {[of |-> c, status |-> "pending", at |-> clock]}
            /\ Go(c, "creating")
  /\ Tick
  /\ Overtakes(c)
  /\ UNCHANGED <<stored, made>>

AgentCreates(c) ==
  /\ At(c, "creating")
  /\ stored' = stored \cup {c}
  /\ made' = [made EXCEPT ![c] = clock]
  /\ Go(c, "created")
  /\ Tick
  /\ Overtakes(c)
  /\ UNCHANGED rows

\* The agent's answer: done; refused; or lost after it was done.
AgentAnswers(c) ==
  /\ \/ At(c, "created") /\ (Go(c, "completing") \/ Go(c, "failing"))
     \/ At(c, "creating") /\ Go(c, "failing")
  /\ UNCHANGED <<rows, stored, made, clock, overlaid>>

\* complete(): UPDATE ... status = 'pending'.  When a sync catalogued the
\* backup meanwhile the row would be there twice, and the update fails.
Complete(c) ==
  /\ At(c, "completing")
  /\ IF c \in Active
     THEN Go(c, "failing") /\ UNCHANGED rows
     ELSE /\ rows' = {IF r.of = c THEN [r EXCEPT !.status = "active"] ELSE r : r \in rows}
          /\ Go(c, "done")
  /\ Overtakes(c)
  /\ UNCHANGED <<stored, made, clock>>

\* Seeded fault: the reservation of a creation that failed stays.
Fail_Keeps(c) ==
  /\ At(c, "failing")
  /\ Go(c, "done")
  /\ Overtakes(c)
  /\ UNCHANGED <<rows, stored, made, clock>>

\* fail(): DELETE the reservation if it is still pending.
Fail(c) ==
  /\ At(c, "failing")
  /\ rows' = {r \in rows : ~(r.of = c /\ r.status = "pending")}
  /\ Go(c, "done")
  /\ Overtakes(c)
  /\ UNCHANGED <<stored, made, clock>>

\* The process dies in the middle of a creation.
Die(c) ==
  /\ op[c].pc \in {"creating", "created", "completing", "failing"}
  /\ Go(c, "dead")
  /\ UNCHANGED <<rows, stored, made, clock, overlaid>>

-----------------------------------------------------------------------------
(* delete() and deleteOldest(). *)

Delete(d, b) ==
  /\ At(d, "idle") /\ b \in stored
  /\ op' = [op EXCEPT ![d] = [@ EXCEPT !.pc = "deleting", !.target = b]]
  /\ UNCHANGED <<rows, stored, made, clock, overlaid>>

AgentDeletes(d) ==
  /\ At(d, "deleting")
  /\ stored' = stored \ {op[d].target}
  /\ Go(d, "removing")
  /\ Overtakes(d)
  /\ UNCHANGED <<rows, made, clock>>

RemoveRow(d) ==
  /\ At(d, "removing")
  /\ rows' = {r \in rows : ~(r.of = op[d].target /\ r.status = "active")}
  /\ Go(d, "done")
  /\ Overtakes(d)
  /\ UNCHANGED <<stored, made, clock>>

Init ==
  /\ rows = {} /\ stored = {} /\ clock = 0 /\ overlaid = {}
  /\ made = [c \in Creations |-> 0]
  /\ op = [o \in Ops |-> [pc |-> "idle", seen |-> {}, at |-> 0, target |-> None]]

Create(c) ==
  \/ CreateLists(c) \/ CreateSyncs(c) \/ Reserve(c) \/ AgentCreates(c)
  \/ AgentAnswers(c) \/ Complete(c) \/ Fail(c) \/ Die(c)

List(l) == Observe(l) \/ ListAnswers(l) \/ ListSyncs(l)

Next ==
  \/ \E c \in Creations : Create(c)
  \/ \E l \in Listings : List(l)
  \/ \E d \in Deletions : (\E b \in Creations : Delete(d, b)) \/ AgentDeletes(d) \/ RemoveRow(d)

Spec == Init /\ [][Next]_vars

-----------------------------------------------------------------------------
(* Properties. *)

TypeOK ==
  /\ rows \subseteq Row
  /\ stored \subseteq Creations
  /\ made \in [Creations -> Nat]
  /\ op \in [Ops -> Call]
  /\ clock \in Nat
  /\ overlaid \subseteq Creations

\* The catalogue repairs itself: whatever listings, deletions, lost answers
\* and crashes left behind, a creation that nothing overtook since it listed
\* decides on exactly the backups the agent has.
ExactWhenDeciding ==
  \A c \in Creations :
    At(c, "synced") /\ c \notin overlaid => Active = stored

\* No reservation is leaked: a pending row belongs to a creation that is
\* still under way or whose process died.
ReservationsOwned ==
  \A r \in rows : r.status = "pending" =>
    op[r.of].pc \in {"creating", "created", "completing", "failing", "dead"}

\* "backup limit of ${limit} reached": the server never has more backups
\* than its limit allows while every creation gets its answer.
WithinLimit ==
  (\A c \in Creations : op[c].pc \notin {"failing", "dead"})
    => Cardinality(stored) <= Limit

=============================================================================
