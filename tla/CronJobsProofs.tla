---------------------------- MODULE CronJobsProofs ----------------------------
(***************************************************************************)
(* For any number of replicas and jobs: what the leases of the cron locks  *)
(* guarantee, and that a removed job stays removed.                        *)
(***************************************************************************)
EXTENDS CronJobs, FiniteSetTheorems, TLAPS

CellsOK ==
  /\ chain \in [Replicas -> [Jobs -> Points]]
  /\ lock \in [Jobs -> Replicas \cup {None}]

\* An execution whose lease is good.
Good(r, j) == chain[r][j] \in {"executing", "executed"} /\ <<r, j>> \notin lapsed

\* ... has the key.
GoodHoldsKey == \A r \in Replicas, j \in Jobs : Good(r, j) => lock[j] = r

LeaseInv == CellsOK /\ GoodHoldsKey

\* Writing the point of one chain leaves the others.
LEMMA GoCell ==
  ASSUME NEW r \in Replicas, NEW j \in Jobs, NEW point \in Points, CellsOK, Go(r, j, point)
  PROVE  /\ chain' \in [Replicas -> [Jobs -> Points]]
         /\ \A q \in Replicas, i \in Jobs :
              chain'[q][i] = IF q = r /\ i = j THEN point ELSE chain[q][i]
BY DEF CellsOK, Go

\* A step that lets nobody execute and leaves locks and leases alone.
LEMMA NobodyStarts ==
  ASSUME LeaseInv, UNCHANGED <<lock, lapsed>>,
         chain' \in [Replicas -> [Jobs -> Points]],
         \A q \in Replicas, i \in Jobs :
           chain'[q][i] \in {"executing", "executed"} => chain[q][i] \in {"executing", "executed"}
  PROVE  LeaseInv'
BY DEF LeaseInv, CellsOK, GoodHoldsKey, Good

\* A step that ends the execution of one replica and gives its key back.
LEMMA OneEnds ==
  ASSUME LeaseInv, NEW r \in Replicas, NEW j \in Jobs, NEW point \in Points \ {"executing", "executed"},
         Go(r, j, point), Unlock(r, j), UNCHANGED lapsed
  PROVE  LeaseInv'
<1>1. CellsOK
  BY DEF LeaseInv
<1>2. point \in Points
  OBVIOUS
<1>3. /\ chain' \in [Replicas -> [Jobs -> Points]]
      /\ \A q \in Replicas, i \in Jobs :
           chain'[q][i] = IF q = r /\ i = j THEN point ELSE chain[q][i]
  BY <1>1, <1>2, GoCell
<1>4. /\ lock' \in [Jobs -> Replicas \cup {None}]
      /\ \A i \in Jobs : lock'[i] = IF i = j /\ lock[j] = r THEN None ELSE lock[i]
  BY <1>1 DEF CellsOK, Unlock
<1>5. ASSUME NEW q \in Replicas, NEW i \in Jobs, Good(q, i)' PROVE lock'[i] = q
  <2>1. ~(q = r /\ i = j)
    BY <1>3, <1>5 DEF Good
  <2>2. Good(q, i)
    BY <1>3, <1>5, <2>1 DEF Good
  <2>3. lock[i] = q
    BY <2>2 DEF LeaseInv, GoodHoldsKey
  <2>. QED BY <1>4, <2>1, <2>3
<1>. QED BY <1>3, <1>4, <1>5 DEF LeaseInv, CellsOK, GoodHoldsKey

LEMMA AcquireKeeps ==
  ASSUME CronAssumption, LeaseInv, NEW r \in Replicas, NEW j \in Jobs, Acquire(r, j)
  PROVE  LeaseInv'
<1>1. CellsOK /\ "executing" \in Points
  BY DEF LeaseInv, Points
<1>2. /\ chain' \in [Replicas -> [Jobs -> Points]]
      /\ \A q \in Replicas, i \in Jobs :
           chain'[q][i] = IF q = r /\ i = j THEN "executing" ELSE chain[q][i]
  BY <1>1, GoCell DEF Acquire
<1>3. /\ lock' \in [Jobs -> Replicas \cup {None}]
      /\ \A i \in Jobs : lock'[i] = IF i = j THEN r ELSE lock[i]
      /\ lapsed' = lapsed \ {<<r, j>>} /\ lock[j] = None
  BY <1>1 DEF CellsOK, Acquire
<1>4. ASSUME NEW q \in Replicas, NEW i \in Jobs, Good(q, i)' PROVE lock'[i] = q
  <2>1. CASE q = r /\ i = j
    BY <1>3, <2>1
  <2>2. CASE ~(q = r /\ i = j)
    <3>1. Good(q, i)
      BY <1>2, <1>3, <1>4, <2>2 DEF Good
    <3>2. lock[i] = q /\ q # None
      BY <3>1 DEF LeaseInv, GoodHoldsKey, CronAssumption
    <3>. QED BY <1>3, <3>2
  <2>. QED BY <2>1, <2>2
<1>. QED BY <1>2, <1>3, <1>4 DEF LeaseInv, CellsOK, GoodHoldsKey

\* The lease that runs out is the key holder's.
LEMMA ExpireKeeps ==
  ASSUME LeaseInv, NEW j \in Jobs, Expire(j)
  PROVE  LeaseInv'
<1>1. /\ lock' \in [Jobs -> Replicas \cup {None}]
      /\ \A i \in Jobs : lock'[i] = IF i = j THEN None ELSE lock[i]
      /\ lapsed' = lapsed \cup {<<lock[j], j>>} /\ chain' = chain
  BY DEF LeaseInv, CellsOK, Expire
<1>2. ASSUME NEW q \in Replicas, NEW i \in Jobs, Good(q, i)' PROVE lock'[i] = q
  <2>1. Good(q, i) /\ <<q, i>> # <<lock[j], j>>
    BY <1>1, <1>2 DEF Good
  <2>2. lock[i] = q
    BY <2>1 DEF LeaseInv, GoodHoldsKey
  <2>. QED BY <1>1, <2>1, <2>2
<1>. QED BY <1>1, <1>2 DEF LeaseInv, CellsOK, GoodHoldsKey

LEMMA TimersKeep ==
  ASSUME CronAssumption, LeaseInv, NEW r \in Replicas, NEW j \in Jobs,
         Callback(r, j) \/ Throw(r, j)
  PROVE  LeaseInv'
<1>1. CellsOK /\ {"none", "armed", "locking", "executing", "executed", "persisting"} \subseteq Points
  BY DEF LeaseInv, Points
<1>2. CASE Fire(r, j)
  BY <1>1, <1>2, GoCell, NobodyStarts DEF Fire
<1>3. CASE Acquire(r, j)
  BY <1>3, AcquireKeeps
<1>4. CASE Denied(r, j)
  BY <1>1, <1>4, GoCell, NobodyStarts DEF Denied
<1>5. CASE Execute(r, j)
  BY <1>1, <1>5, GoCell, NobodyStarts DEF Execute, At
<1>6. CASE Release(r, j)
  BY <1>1, <1>6, OneEnds DEF Release
<1>7. CASE Rearm(r, j)
  BY <1>1, <1>7, GoCell, NobodyStarts DEF Rearm
<1>8. CASE Throw(r, j)
  BY <1>1, <1>8, OneEnds DEF Throw
<1>. QED BY <1>2, <1>3, <1>4, <1>5, <1>6, <1>7, <1>8 DEF Callback

\* Requests stop timers and start them, and execute nothing.
LEMMA RequestsKeep ==
  ASSUME LeaseInv, NEW r \in Replicas, NEW j \in Jobs,
         Create(r, j) \/ Remove(r, j)
  PROVE  LeaseInv'
<1>1. CellsOK /\ "armed" \in Points
  BY DEF LeaseInv, Points
<1>2. CASE Create(r, j)
  BY <1>1, <1>2, GoCell, NobodyStarts DEF Create
<1>3. CASE Remove(r, j)
  <2>1. /\ chain' \in [Replicas -> [Jobs -> Points]]
        /\ \A q \in Replicas, i \in Jobs : chain'[q][i] \in {chain[q][i], "none"}
    BY <1>1, <1>3 DEF CellsOK, Remove, Points
  <2>. QED BY <1>3, <2>1, NobodyStarts DEF Remove
<1>. QED BY <1>2, <1>3

LEMMA LeaseStep ==
  ASSUME CronAssumption, LeaseInv, [Next]_vars
  PROVE  LeaseInv'
<1>1. CASE \E r \in Replicas, j \in Jobs :
             Create(r, j) \/ Remove(r, j) \/ Callback(r, j) \/ Throw(r, j)
  BY <1>1, TimersKeep, RequestsKeep
<1>2. ASSUME NEW j \in Jobs, RowDeleted(j) \/ RunNow(j) \/ ManualEnds(j)
      PROVE  LeaseInv'
  BY <1>2 DEF RowDeleted, RunNow, ManualEnds, LeaseInv, CellsOK, GoodHoldsKey, Good
<1>3. ASSUME NEW j \in Jobs, Expire(j) PROVE LeaseInv'
  BY <1>3, ExpireKeeps
<1>4. ASSUME NEW r \in Replicas, Restart(r) PROVE LeaseInv'
  <2>1. /\ chain' \in [Replicas -> [Jobs -> Points]]
        /\ \A q \in Replicas, i \in Jobs : chain'[q][i] \in {chain[q][i], "none", "armed"}
    BY <1>4 DEF LeaseInv, CellsOK, Restart, Points
  <2>. QED BY <1>4, <2>1, NobodyStarts DEF Restart
<1>5. CASE UNCHANGED vars
  BY <1>5 DEF vars, LeaseInv, CellsOK, GoodHoldsKey, Good
<1>. QED BY <1>1, <1>2, <1>3, <1>4, <1>5 DEF Next

\* One key, one holder: two good executions of a job would both have it.
LEMMA KeysExclude ==
  ASSUME LeaseInv
  PROVE  LeasesExclude
<1>. SUFFICES ASSUME NEW j \in Jobs
     PROVE  Cardinality({r \in Replicas :
              chain[r][j] \in {"executing", "executed"} /\ <<r, j>> \notin lapsed}) <= 1
  BY DEF LeasesExclude
<1>. DEFINE Running == {r \in Replicas :
              chain[r][j] \in {"executing", "executed"} /\ <<r, j>> \notin lapsed}
<1>1. \A r \in Running : lock[j] = r
  BY DEF LeaseInv, GoodHoldsKey, Good
<1>2. Running \subseteq {lock[j]}
  BY <1>1
<1>3. IsFiniteSet({lock[j]}) /\ Cardinality({lock[j]}) = 1
  BY FS_Singleton
<1>4. IsFiniteSet(Running) /\ Cardinality(Running) <= 1
  BY <1>2, <1>3, FS_Subset
<1>. QED BY <1>4

\* For any number of replicas: timers never execute a job on two of them while
\* both leases are good (withLock), however often leases end before the
\* executions they guard, replicas restart and jobs are run by hand.
THEOREM LeasesExcludeAlways ==
  ASSUME CronAssumption
  PROVE  Spec => []LeasesExclude
<1>1. Init => LeaseInv
  BY DEF Init, LeaseInv, CellsOK, GoodHoldsKey, Good, Points
<1>2. LeaseInv /\ [Next]_vars => LeaseInv'
  BY LeaseStep
<1>3. LeaseInv => LeasesExclude
  BY KeysExclude
<1>. QED BY <1>1, <1>2, <1>3, PTL DEF Spec

\* For any number of replicas: a job that was removed is never brought back by
\* an execution or a timer that outlives it (persistRun updates, it inserts
\* nothing).
THEOREM RemovedStaysRemovedAlways ==
  Spec => RemovedStaysRemoved
<1>1. [Next]_vars => [\A j \in Jobs : j \in used /\ j \notin rows => j \notin rows']_vars
  <2>. SUFFICES ASSUME Next PROVE \A j \in Jobs : j \in used /\ j \notin rows => j \notin rows'
    OBVIOUS
  <2>1. ASSUME NEW r \in Replicas, NEW j \in Jobs, Create(r, j)
        PROVE  rows' = rows \cup {j} /\ j \notin used
    BY <2>1 DEF Create
  <2>2. ASSUME NEW r \in Replicas, NEW j \in Jobs, Remove(r, j) \/ Callback(r, j) \/ Throw(r, j)
        PROVE  rows' = rows
    BY <2>2 DEF Remove, Callback, Fire, Acquire, Denied, Execute, Release, Rearm, Throw, Persist
  <2>3. ASSUME NEW j \in Jobs, RowDeleted(j) \/ RunNow(j) \/ ManualEnds(j) \/ Expire(j)
        PROVE  rows' \subseteq rows
    BY <2>3 DEF RowDeleted, RunNow, ManualEnds, Expire, Persist
  <2>4. ASSUME NEW r \in Replicas, Restart(r) PROVE rows' = rows
    BY <2>4 DEF Restart
  <2>. QED BY <2>1, <2>2, <2>3, <2>4 DEF Next
<1>. QED BY <1>1, PTL DEF Spec, RemovedStaysRemoved
==============================================================================
