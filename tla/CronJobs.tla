------------------------------- MODULE CronJobs -------------------------------
(***************************************************************************)
(* CronJobsService over PostgreSQL on several replicas.  Every replica has *)
(* a timer of its own for each job; the timer's callback takes the lock    *)
(* cron:<id> in Redis (RedisService.withLock), executes the job, lets the  *)
(* lock go, persists the run and arms the next timer.  The lock is a lease *)
(* that may end before the execution does.  A job created or removed is    *)
(* made known to no other replica, and an execution that throws takes the  *)
(* callback with it: no further timer is armed.                            *)
(***************************************************************************)
EXTENDS FiniteSets, Naturals

CONSTANTS
  Replicas,     \* API processes
  Jobs,         \* ids of enabled jobs, none of them ever used twice
  None,         \* nobody
  MaxManual,    \* bound on manual runs
  MaxRestarts   \* bound on restarts

CronAssumption ==
  /\ None \notin Replicas
  /\ MaxManual \in Nat /\ MaxRestarts \in Nat

VARIABLES
  rows,       \* the table cron_jobs
  chain,      \* the timer and callback of each job on each replica
  lock,       \* the key cron:<id>: the replica whose token it holds
  lapsed,     \* history: the executions whose lease ended before them
  removing,   \* DELETEs on their way
  manual,     \* manual executions under way
  lost,       \* history: the replicas that have a reason to have no timer
  used,       \* history: ids given out
  manuals, restarts

history == <<lost, used>>
bounds == <<manuals, restarts>>
vars == <<rows, chain, lock, lapsed, removing, manual, history, bounds>>

\* none: no timer.  locking: the timer fired, SET NX is on its way.
Points == {"none", "armed", "locking", "executing", "executed", "persisting"}

At(r, j, point) == chain[r][j] = point
Go(r, j, point) == chain' = [chain EXCEPT ![r][j] = point]

-----------------------------------------------------------------------------
(* Requests. *)

\* create(): the row, then a timer on this replica only.
Create(r, j) ==
  /\ j \notin used
  /\ used' = used \cup {j}
  /\ rows' = rows \cup {j}
  /\ Go(r, j, "armed")
  /\ lost' = [lost EXCEPT ![j] = Replicas \ {r}]
  /\ UNCHANGED <<lock, lapsed, removing, manual, bounds>>

\* remove(): this replica's timer is cleared; a callback under way goes on.
Remove(r, j) ==
  /\ j \in rows /\ j \notin removing
  /\ removing' = removing \cup {j}
  /\ chain' = [chain EXCEPT ![r][j] = IF @ = "armed" THEN "none" ELSE @]
  /\ lost' = [lost EXCEPT ![j] = @ \cup {r}]
  /\ UNCHANGED <<rows, lock, lapsed, manual, used, bounds>>

RowDeleted(j) ==
  /\ j \in removing
  /\ removing' = removing \ {j}
  /\ rows' = rows \ {j}
  /\ UNCHANGED <<chain, lock, lapsed, manual, history, bounds>>

\* runNow(): reads the row and executes it, lock or no lock.
RunNow(j) ==
  /\ j \in rows /\ j \notin manual /\ manuals < MaxManual
  /\ manual' = manual \cup {j}
  /\ manuals' = manuals + 1
  /\ UNCHANGED <<rows, chain, lock, lapsed, removing, history, restarts>>

\* Seeded fault: the run is upserted, not updated.
Persist_Upsert(j) == rows' = rows \cup {j}

\* persistRun(): UPDATE ... WHERE id, which changes no row that is gone.
Persist(j) == rows' = rows

ManualEnds(j) ==
  /\ j \in manual
  /\ manual' = manual \ {j}
  /\ Persist(j) \/ UNCHANGED rows
  /\ UNCHANGED <<chain, lock, lapsed, removing, history, bounds>>

-----------------------------------------------------------------------------
(* Timers. *)

Fire(r, j) ==
  /\ At(r, j, "armed")
  /\ Go(r, j, "locking")
  /\ UNCHANGED <<rows, lock, lapsed, removing, manual, history, bounds>>

Acquire(r, j) ==
  /\ At(r, j, "locking") /\ lock[j] = None
  /\ lock' = [lock EXCEPT ![j] = r]
  /\ lapsed' = lapsed \ {<<r, j>>}
  /\ Go(r, j, "executing")
  /\ UNCHANGED <<rows, removing, manual, history, bounds>>

\* Seeded fault: who does not get the lock leaves the job to the others.
Denied_NotAgain(r, j) ==
  /\ At(r, j, "locking") /\ lock[j] # None
  /\ Go(r, j, "none")
  /\ UNCHANGED <<rows, lock, lapsed, removing, manual, history, bounds>>

\* Not acquired: schedule() one interval later.
Denied(r, j) ==
  /\ At(r, j, "locking") /\ lock[j] # None
  /\ Go(r, j, "armed")
  /\ UNCHANGED <<rows, lock, lapsed, removing, manual, history, bounds>>

\* executeAction, the webhooks and the first persistRun, all done.
Execute(r, j) ==
  /\ At(r, j, "executing")
  /\ Persist(j)
  /\ Go(r, j, "executed")
  /\ UNCHANGED <<lock, lapsed, removing, manual, history, bounds>>

\* Seeded fault: the key is deleted, whoever's token it holds.
Unlock_NoToken(r, j) == lock' = [lock EXCEPT ![j] = None]

\* withLock's finally: compare the token, delete the key.
Unlock(r, j) == lock' = [lock EXCEPT ![j] = IF @ = r THEN None ELSE @]

Release(r, j) ==
  /\ At(r, j, "executed")
  /\ Unlock(r, j)
  /\ Go(r, j, "persisting")
  /\ UNCHANGED <<rows, lapsed, removing, manual, history, bounds>>

\* The execution throws: the lock goes, the callback rejects.
Throw(r, j) ==
  /\ At(r, j, "executing")
  /\ Unlock(r, j)
  /\ Go(r, j, "none")
  /\ lost' = [lost EXCEPT ![j] = @ \cup {r}]
  /\ UNCHANGED <<rows, lapsed, removing, manual, used, bounds>>

\* The second persistRun, then schedule(next): also when the job was removed
\* meanwhile.
Rearm(r, j) ==
  /\ At(r, j, "persisting")
  /\ Persist(j)
  /\ Go(r, j, "armed")
  /\ UNCHANGED <<lock, lapsed, removing, manual, history, bounds>>

\* The lease runs out: PX max(30 s, interval).
Expire(j) ==
  /\ lock[j] # None
  /\ lock' = [lock EXCEPT ![j] = None]
  /\ lapsed' = lapsed \cup {<<lock[j], j>>}
  /\ UNCHANGED <<rows, chain, removing, manual, history, bounds>>

\* The process stops; onModuleInit arms a timer for every row.
Restart(r) ==
  /\ restarts < MaxRestarts
  /\ restarts' = restarts + 1
  /\ chain' = [chain EXCEPT ![r] = [j \in Jobs |-> IF j \in rows THEN "armed" ELSE "none"]]
  /\ lost' = [j \in Jobs |-> IF j \in rows THEN lost[j] \ {r} ELSE lost[j] \cup {r}]
  /\ UNCHANGED <<rows, lock, lapsed, removing, manual, used, manuals>>

Init ==
  /\ rows = {} /\ removing = {} /\ manual = {}
  /\ chain = [r \in Replicas |-> [j \in Jobs |-> "none"]]
  /\ lock = [j \in Jobs |-> None]
  /\ lapsed = {} /\ used = {}
  /\ lost = [j \in Jobs |-> Replicas]
  /\ manuals = 0 /\ restarts = 0

Callback(r, j) ==
  Fire(r, j) \/ Acquire(r, j) \/ Denied(r, j) \/ Execute(r, j) \/ Release(r, j) \/ Rearm(r, j)

Next ==
  \/ \E r \in Replicas, j \in Jobs :
       Create(r, j) \/ Remove(r, j) \/ Callback(r, j) \/ Throw(r, j)
  \/ \E j \in Jobs : RowDeleted(j) \/ RunNow(j) \/ ManualEnds(j) \/ Expire(j)
  \/ \E r \in Replicas : Restart(r)

Spec == Init /\ [][Next]_vars

\* Timers fire, calls return, leases end.
Fairness ==
  /\ \A r \in Replicas, j \in Jobs : WF_vars(Callback(r, j))
  /\ \A j \in Jobs : WF_vars(Expire(j)) /\ WF_vars(RowDeleted(j))

FairSpec == Spec /\ Fairness

-----------------------------------------------------------------------------
(* Properties. *)

TypeOK ==
  /\ rows \subseteq Jobs /\ removing \subseteq Jobs /\ manual \subseteq Jobs
  /\ used \subseteq Jobs
  /\ chain \in [Replicas -> [Jobs -> Points]]
  /\ lock \in [Jobs -> Replicas \cup {None}]
  /\ lapsed \subseteq Replicas \X Jobs
  /\ lost \in [Jobs -> SUBSET Replicas]
  /\ manuals \in 0 .. MaxManual /\ restarts \in 0 .. MaxRestarts

\* Timers never execute a job on two replicas at once while both leases are
\* good: an execution that outlives its lease does not take the lock of its
\* successor away.
LeasesExclude ==
  \A j \in Jobs :
    Cardinality({r \in Replicas :
      chain[r][j] \in {"executing", "executed"} /\ <<r, j>> \notin lapsed}) <= 1

\* A removed job is not brought back by an execution that outlives it.
RemovedStaysRemoved ==
  [][\A j \in Jobs : j \in used /\ j \notin rows => j \notin rows']_vars

\* A job is executed again and again as long as one replica has no reason to
\* have lost its timer: contention for the lock never stops it everywhere.
JobKeepsRunning ==
  \A j \in Jobs :
    []<>(lost[j] = Replicas \/ \E r \in Replicas : At(r, j, "executing"))

=============================================================================
