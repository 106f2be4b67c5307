------------------------- MODULE ServerSchedulesProofs -------------------------
(***************************************************************************)
(* For any number of replicas and schedules: types, and the bookkeeping of *)
(* timers and runs.                                                        *)
(***************************************************************************)
EXTENDS ServerSchedules, SequenceTheorems, TLAPS

\* Writing one cell of a table of cells.
LEMMA SetCell ==
  ASSUME NEW X, NEW f \in [Replicas -> [Ids -> X]],
         NEW r \in Replicas, NEW i \in Ids, NEW v \in X
  PROVE  /\ Set(f, r, i, v) \in [Replicas -> [Ids -> X]]
         /\ \A q \in Replicas, j \in Ids :
              Set(f, r, i, v)[q][j] = IF q = r /\ j = i THEN v ELSE f[q][j]
BY DEF Set

\* Writing the cells of one replica.
LEMMA SetReplica ==
  ASSUME NEW X, NEW f \in [Replicas -> X], NEW r \in Replicas, NEW v \in X
  PROVE  /\ [f EXCEPT ![r] = v] \in [Replicas -> X]
         /\ \A q \in Replicas : [f EXCEPT ![r] = v][q] = IF q = r THEN v ELSE f[q]
OBVIOUS

LEMMA OutdatedType ==
  /\ \A ref \in Refs : Outdated(ref) \in Refs
  /\ \A ref \in Refs \cup {"manual"} : Outdated(ref) \in Refs \cup {"manual"}
  /\ \A ref \in Refs \cup {"manual"} : Outdated(ref) # "current"
<1>. SUFFICES ASSUME NEW ref \in Refs \cup {"manual"}
     PROVE  /\ ref \in Refs => Outdated(ref) \in Refs
            /\ Outdated(ref) \in Refs \cup {"manual"}
            /\ Outdated(ref) # "current"
  OBVIOUS
<1>1. CASE ref = "current"
  BY <1>1 DEF Outdated, Refs
<1>2. CASE ref # "current"
  BY <1>2 DEF Outdated
<1>. QED BY <1>1, <1>2

LEMMA ArmedType == \A schedule \in Schedule : Armed(schedule) \in {"none", "current"}
BY DEF Armed

-----------------------------------------------------------------------------
(* Types.  The last conjunct of TypeOK needs the bounds, the others need   *)
(* what each helper of the module writes.                                  *)

MemoryOK ==
  /\ schedules \in [Replicas -> Collection]
  /\ timers \in [Replicas -> [Ids -> Refs]]
  /\ executions \in [Replicas -> [Ids -> Refs \cup {"manual"}]]
  /\ settled \in [Replicas -> [Ids -> Refs]]

StorageOK ==
  /\ saves \in [Replicas -> Seq(Collection)]
  /\ stored \in Collection

HistoryOK ==
  /\ created \subseteq Ids /\ ended \subseteq Ids
  /\ edits \in 0 .. MaxEdits /\ restarts \in 0 .. MaxRestarts

LEMMA TypeParts ==
  /\ TypeOK <=> MemoryOK /\ StorageOK /\ HistoryOK
  /\ TypeOK' <=> MemoryOK' /\ StorageOK' /\ HistoryOK'
BY DEF TypeOK, MemoryOK, StorageOK, HistoryOK

LEMMA SaveOK ==
  ASSUME StorageOK, schedules' \in [Replicas -> Collection],
         NEW r \in Replicas, Save(r), UNCHANGED stored
  PROVE  StorageOK'
<1>1. saves[r] \in Seq(Collection) /\ schedules'[r] \in Collection
  BY DEF StorageOK
<1>2. Append(saves[r], schedules'[r]) \in Seq(Collection)
  BY <1>1
<1>. QED BY <1>2, SetReplica DEF StorageOK, Save

LEMMA ReplaceOK ==
  ASSUME MemoryOK, StorageOK, NEW r \in Replicas, NEW i \in Ids,
         NEW schedule \in Schedule, Replace(r, i, schedule), UNCHANGED stored
  PROVE  /\ schedules' \in [Replicas -> Collection]
         /\ timers' \in [Replicas -> [Ids -> Refs]]
         /\ StorageOK'
<1>1. schedules' \in [Replicas -> Collection]
  BY SetCell DEF Replace, MemoryOK, Collection
<1>2. timers' \in [Replicas -> [Ids -> Refs]]
  BY SetCell, ArmedType DEF Replace, MemoryOK, Refs
<1>. QED BY <1>1, <1>2, SaveOK DEF Replace

LEMMA DropOK ==
  ASSUME MemoryOK, StorageOK, NEW r \in Replicas, NEW i \in Ids,
         schedules' = Set(schedules, r, i, None), timers' = Set(timers, r, i, "none"),
         Save(r), UNCHANGED stored
  PROVE  /\ schedules' \in [Replicas -> Collection]
         /\ timers' \in [Replicas -> [Ids -> Refs]]
         /\ StorageOK'
<1>1. schedules' \in [Replicas -> Collection]
  BY SetCell DEF MemoryOK, Collection
<1>2. timers' \in [Replicas -> [Ids -> Refs]]
  BY SetCell DEF MemoryOK, Refs
<1>. QED BY <1>1, <1>2, SaveOK

LEMMA OutdateOK ==
  ASSUME MemoryOK, NEW r \in Replicas, NEW i \in Ids
  PROVE  /\ Set(executions, r, i, Outdated(executions[r][i])) \in [Replicas -> [Ids -> Refs \cup {"manual"}]]
         /\ Set(settled, r, i, Outdated(settled[r][i])) \in [Replicas -> [Ids -> Refs]]
<1>1. executions[r][i] \in Refs \cup {"manual"} /\ settled[r][i] \in Refs
  BY DEF MemoryOK
<1>. QED BY <1>1, SetCell, OutdatedType DEF MemoryOK

LEMMA AccountOK ==
  ASSUME MemoryOK, StorageOK, ended \subseteq Ids,
         NEW r \in Replicas, NEW i \in Ids, NEW failed \in BOOLEAN,
         Has(r, i), Account(r, i, failed), UNCHANGED stored
  PROVE  /\ schedules' \in [Replicas -> Collection]
         /\ timers' \in [Replicas -> [Ids -> Refs]]
         /\ executions' \in [Replicas -> [Ids -> Refs \cup {"manual"}]]
         /\ StorageOK' /\ ended' \subseteq Ids
<1> DEFINE old == schedules[r][i]
           failures == old.failures + 1
           new == NextRun(old, IF failed THEN failures ELSE 0)
<1>1. old \in Schedule
  BY DEF MemoryOK, Collection, Has
<1>2. executions' \in [Replicas -> [Ids -> Refs \cup {"manual"}]]
  BY OutdateOK DEF Account
<1>3. CASE failed /\ failures >= MAX_CONSECUTIVE_FAILURES
  BY <1>2, <1>3, DropOK DEF Account
<1>4. CASE ~(failed /\ failures >= MAX_CONSECUTIVE_FAILURES)
  <2>1. new \in Schedule
    BY <1>1, <1>4 DEF Schedule, NextRun, MAX_CONSECUTIVE_FAILURES
  <2>2. Replace(r, i, new) /\ UNCHANGED ended
    BY <1>4 DEF Account
  <2>. QED BY <1>2, <2>1, <2>2, ReplaceOK
<1>. QED BY <1>3, <1>4

LEMMA SettledNone ==
  ASSUME MemoryOK, NEW r \in Replicas, NEW i \in Ids
  PROVE  Set(settled, r, i, "none") \in [Replicas -> [Ids -> Refs]]
BY SetCell DEF MemoryOK, Refs

LEMMA EditOK == ASSUME HistoryOK, Edit PROVE edits' \in 0 .. MaxEdits /\ restarts' \in 0 .. MaxRestarts
BY SchedulesAssumption DEF HistoryOK, Edit

LEMMA InitType == Init => TypeOK
<1>. SUFFICES ASSUME Init PROVE TypeOK
  OBVIOUS
<1>1. MemoryOK
  BY DEF Init, MemoryOK, Refs, Collection
<1>2. StorageOK
  BY DEF Init, StorageOK, Collection
<1>3. HistoryOK
  BY SchedulesAssumption DEF Init, HistoryOK
<1>. QED BY <1>1, <1>2, <1>3, TypeParts

LEMMA RequestsType ==
  ASSUME MemoryOK, StorageOK, HistoryOK, NEW r \in Replicas, NEW i \in Ids, Requests(r, i)
  PROVE  MemoryOK' /\ StorageOK' /\ HistoryOK'
<1>1. ASSUME NEW enabled \in BOOLEAN, Create(r, i, enabled)
      PROVE  MemoryOK' /\ StorageOK' /\ HistoryOK'
  <2>1. [enabled |-> enabled, failures |-> 0] \in Schedule
    BY DEF Schedule, MAX_CONSECUTIVE_FAILURES
  <2>2. Replace(r, i, [enabled |-> enabled, failures |-> 0]) /\ UNCHANGED stored
    BY <1>1 DEF Create
  <2>3. MemoryOK' /\ StorageOK'
    BY <1>1, <2>1, <2>2, ReplaceOK DEF Create, MemoryOK
  <2>. QED BY <1>1, <2>3 DEF Create, HistoryOK, bounds
<1>2. ASSUME NEW enabled \in BOOLEAN, Update(r, i, enabled)
      PROVE  MemoryOK' /\ StorageOK' /\ HistoryOK'
  <2>1. [enabled |-> enabled, failures |-> 0] \in Schedule
    BY DEF Schedule, MAX_CONSECUTIVE_FAILURES
  <2>2. Replace(r, i, [enabled |-> enabled, failures |-> 0]) /\ UNCHANGED stored
    BY <1>2 DEF Update
  <2>3. MemoryOK' /\ StorageOK'
    BY <1>2, <2>1, <2>2, ReplaceOK, OutdateOK DEF Update, Outdate, MemoryOK
  <2>. QED BY <1>2, <2>3, EditOK DEF Update, HistoryOK
<1>3. ASSUME Remove(r, i) PROVE MemoryOK' /\ StorageOK' /\ HistoryOK'
  <2>1. MemoryOK' /\ StorageOK'
    BY <1>3, DropOK, OutdateOK DEF Remove, Outdate, MemoryOK
  <2>. QED BY <1>3, <2>1, EditOK DEF Remove, HistoryOK
<1>4. ASSUME RunNow(r, i) PROVE MemoryOK' /\ StorageOK' /\ HistoryOK'
  <2>1. executions' \in [Replicas -> [Ids -> Refs \cup {"manual"}]]
    BY <1>4, SetCell DEF RunNow, MemoryOK
  <2>. QED BY <1>4, <2>1, EditOK DEF RunNow, MemoryOK, StorageOK, HistoryOK
<1>. QED BY <1>1, <1>2, <1>3, <1>4 DEF Requests

LEMMA WorkType ==
  ASSUME MemoryOK, StorageOK, HistoryOK, NEW r \in Replicas, NEW i \in Ids, Work(r, i),
         settled[r][i] = "current" \/ timers[r][i] = "current" => Has(r, i)
  PROVE  MemoryOK' /\ StorageOK' /\ HistoryOK'
<1>1. CASE Fire(r, i)
  <2>1. timers[r][i] \in Refs /\ "none" \in Refs
    BY DEF MemoryOK, Refs
  <2>2. executions' \in [Replicas -> [Ids -> Refs \cup {"manual"}]]
        /\ timers' \in [Replicas -> [Ids -> Refs]]
    BY <1>1, <2>1, SetCell DEF Fire, MemoryOK
  <2>. QED BY <1>1, <2>2 DEF Fire, MemoryOK, StorageOK, HistoryOK, bounds
<1>2. CASE FireBusy(r, i)
  <2>1. CASE timers[r][i] = "current"
    <3>1. Account(r, i, TRUE) /\ UNCHANGED stored /\ Has(r, i)
          /\ settled' = Set(settled, r, i, Outdated(settled[r][i]))
      BY <1>2, <2>1 DEF FireBusy
    <3>. QED BY <1>2, <3>1, AccountOK, OutdateOK DEF FireBusy, MemoryOK, HistoryOK, bounds
  <2>2. CASE timers[r][i] # "current"
    <3>1. "none" \in Refs /\ timers' = Set(timers, r, i, "none")
      BY <1>2, <2>2 DEF FireBusy, Refs
    <3>2. timers' \in [Replicas -> [Ids -> Refs]]
      BY <3>1, SetCell DEF MemoryOK
    <3>. QED BY <1>2, <2>2, <3>2 DEF FireBusy, MemoryOK, StorageOK, HistoryOK, bounds
  <2>. QED BY <2>1, <2>2
<1>3. CASE Finish(r, i)
  <2>1. executions' \in [Replicas -> [Ids -> Refs \cup {"manual"}]]
    BY <1>3, SetCell DEF Finish, MemoryOK, Refs
  <2>2. settled' \in [Replicas -> [Ids -> Refs]]
    <3>1. CASE executions[r][i] = "manual"
      BY <1>3, <3>1 DEF Finish, MemoryOK
    <3>2. CASE executions[r][i] # "manual"
      <4>1. executions[r][i] \in Refs
        BY <3>2 DEF MemoryOK
      <4>. QED BY <1>3, <3>2, <4>1, SetCell DEF Finish, MemoryOK
    <3>. QED BY <3>1, <3>2
  <2>. QED BY <1>3, <2>1, <2>2 DEF Finish, MemoryOK, StorageOK, HistoryOK, bounds
<1>4. CASE Settle(r, i)
  <2>1. settled' \in [Replicas -> [Ids -> Refs]]
    BY <1>4, SettledNone DEF Settle
  <2>2. CASE settled[r][i] = "current"
    <3>1. PICK failed \in BOOLEAN : Account(r, i, failed)
      BY <1>4, <2>2 DEF Settle
    <3>2. UNCHANGED stored /\ Has(r, i)
      BY <1>4, <2>2 DEF Settle
    <3>. QED BY <1>4, <2>1, <3>1, <3>2, AccountOK DEF Settle, MemoryOK, HistoryOK, bounds
  <2>3. CASE settled[r][i] # "current"
    BY <1>4, <2>1, <2>3 DEF Settle, MemoryOK, StorageOK, HistoryOK, bounds
  <2>. QED BY <2>2, <2>3
<1>. QED BY <1>1, <1>2, <1>3, <1>4 DEF Work

LEMMA ReplicaType ==
  ASSUME MemoryOK, StorageOK, HistoryOK, NEW r \in Replicas,
         SaveApplies(r) \/ SaveFails(r) \/ Restart(r)
  PROVE  MemoryOK' /\ StorageOK' /\ HistoryOK'
<1>1. ASSUME saves[r] # <<>>
      PROVE  /\ Head(saves[r]) \in Collection
             /\ [saves EXCEPT ![r] = Tail(@)] \in [Replicas -> Seq(Collection)]
  <2>1. saves[r] \in Seq(Collection)
    BY DEF StorageOK
  <2>2. Head(saves[r]) \in Collection /\ Tail(saves[r]) \in Seq(Collection)
    BY <1>1, <2>1
  <2>. QED BY <2>2, SetReplica DEF StorageOK
<1>2. CASE SaveApplies(r)
  BY <1>1, <1>2 DEF SaveApplies, MemoryOK, StorageOK, HistoryOK, memory, bounds
<1>3. CASE SaveFails(r)
  BY <1>1, <1>3 DEF SaveFails, MemoryOK, StorageOK, HistoryOK, memory, bounds
<1>4. CASE Restart(r)
  <2>1. schedules' \in [Replicas -> Collection]
    BY <1>4 DEF Restart, MemoryOK, StorageOK
  <2>2. [i \in Ids |-> IF stored[i] = None THEN "none" ELSE Armed(stored[i])] \in [Ids -> Refs]
    BY ArmedType DEF StorageOK, Collection, Refs
  <2>3. timers' \in [Replicas -> [Ids -> Refs]]
    BY <1>4, <2>2 DEF Restart, MemoryOK
  <2>4. /\ executions' \in [Replicas -> [Ids -> Refs \cup {"manual"}]]
        /\ settled' \in [Replicas -> [Ids -> Refs]]
    BY <1>4 DEF Restart, MemoryOK, Refs
  <2>5. StorageOK'
    BY <1>4 DEF Restart, StorageOK
  <2>6. HistoryOK'
    BY <1>4, SchedulesAssumption DEF Restart, HistoryOK
  <2>. QED BY <2>1, <2>3, <2>4, <2>5, <2>6 DEF MemoryOK
<1>. QED BY <1>2, <1>3, <1>4

-----------------------------------------------------------------------------
(* Bookkeeping: what the four tables say of one schedule on one replica.   *)

Cell(r, i) ==
  /\ Has(r, i) /\ schedules[r][i].enabled =>
       "current" \in {timers[r][i], executions[r][i], settled[r][i]}
  /\ timers[r][i] # "none" =>
       /\ Has(r, i) /\ schedules[r][i].enabled /\ timers[r][i] = "current"
       /\ executions[r][i] # "current" /\ settled[r][i] # "current"
  /\ "current" \in {executions[r][i], settled[r][i]} =>
       Has(r, i) /\ schedules[r][i].enabled
  /\ ~(executions[r][i] = "current" /\ settled[r][i] = "current")

Booked == \A r \in Replicas, i \in Ids : Cell(r, i)

\* Every copy of a schedule is of one that was created.
Known ==
  \A i \in Ids \ created :
    /\ stored[i] = None
    /\ \A r \in Replicas : ~Has(r, i) /\ \A k \in 1 .. Len(saves[r]) : saves[r][k][i] = None

\* A step on one cell leaves the others as they are.
Elsewhere(r, i) ==
  \A q \in Replicas, j \in Ids : ~(q = r /\ j = i) =>
    /\ schedules'[q][j] = schedules[q][j] /\ timers'[q][j] = timers[q][j]
    /\ executions'[q][j] = executions[q][j] /\ settled'[q][j] = settled[q][j]

LEMMA OneCell ==
  ASSUME Booked, NEW r \in Replicas, NEW i \in Ids, Elsewhere(r, i), Cell(r, i)'
  PROVE  Booked'
<1>. SUFFICES ASSUME NEW q \in Replicas, NEW j \in Ids, ~(q = r /\ j = i) PROVE Cell(q, j)'
  BY DEF Booked
<1>. QED BY DEF Booked, Cell, Elsewhere, Has

\* The cell that a call of Replace, Outdate or Account leaves behind.
LEMMA ReplaceCell ==
  ASSUME MemoryOK, NEW r \in Replicas, NEW i \in Ids,
         NEW schedule \in Schedule, Replace(r, i, schedule)
  PROVE  /\ schedules'[r][i] = schedule /\ timers'[r][i] = Armed(schedule)
         /\ \A q \in Replicas, j \in Ids : ~(q = r /\ j = i) =>
              schedules'[q][j] = schedules[q][j] /\ timers'[q][j] = timers[q][j]
<1>1. schedules \in [Replicas -> [Ids -> Schedule \cup {None}]] /\ timers \in [Replicas -> [Ids -> Refs]]
  BY DEF MemoryOK, Collection
<1>2. /\ schedules'[r][i] = schedule
      /\ \A q \in Replicas, j \in Ids : ~(q = r /\ j = i) => schedules'[q][j] = schedules[q][j]
  BY <1>1 DEF Replace, Set
<1>3. /\ timers'[r][i] = Armed(schedule)
      /\ \A q \in Replicas, j \in Ids : ~(q = r /\ j = i) => timers'[q][j] = timers[q][j]
  BY <1>1 DEF Replace, Set
<1>. QED BY <1>2, <1>3

LEMMA DropCell ==
  ASSUME MemoryOK, NEW r \in Replicas, NEW i \in Ids,
         schedules' = Set(schedules, r, i, None), timers' = Set(timers, r, i, "none")
  PROVE  /\ schedules'[r][i] = None /\ timers'[r][i] = "none"
         /\ \A q \in Replicas, j \in Ids : ~(q = r /\ j = i) =>
              schedules'[q][j] = schedules[q][j] /\ timers'[q][j] = timers[q][j]
<1>1. schedules \in [Replicas -> [Ids -> Schedule \cup {None}]] /\ timers \in [Replicas -> [Ids -> Refs]]
  BY DEF MemoryOK, Collection
<1>2. /\ schedules'[r][i] = None
      /\ \A q \in Replicas, j \in Ids : ~(q = r /\ j = i) => schedules'[q][j] = schedules[q][j]
  BY <1>1 DEF Set
<1>3. /\ timers'[r][i] = "none"
      /\ \A q \in Replicas, j \in Ids : ~(q = r /\ j = i) => timers'[q][j] = timers[q][j]
  BY <1>1 DEF Set
<1>. QED BY <1>2, <1>3

LEMMA OutdateCell ==
  ASSUME MemoryOK, NEW r \in Replicas, NEW i \in Ids
  PROVE  /\ LET f == Set(executions, r, i, Outdated(executions[r][i])) IN
              /\ f[r][i] # "current"
              /\ \A q \in Replicas, j \in Ids : ~(q = r /\ j = i) => f[q][j] = executions[q][j]
         /\ LET f == Set(settled, r, i, Outdated(settled[r][i])) IN
              /\ f[r][i] # "current"
              /\ \A q \in Replicas, j \in Ids : ~(q = r /\ j = i) => f[q][j] = settled[q][j]
<1>1. executions[r][i] \in Refs \cup {"manual"} /\ settled[r][i] \in Refs
  BY DEF MemoryOK
<1>2. Outdated(executions[r][i]) # "current" /\ Outdated(settled[r][i]) # "current"
  BY <1>1, OutdatedType
<1>. QED BY <1>2 DEF MemoryOK, Set

\* Armed, and no run that will arm again.
LEMMA FreshCell ==
  ASSUME NEW r \in Replicas, NEW i \in Ids, NEW schedule \in Schedule,
         schedules'[r][i] = schedule, timers'[r][i] = Armed(schedule),
         executions'[r][i] # "current", settled'[r][i] # "current"
  PROVE  Cell(r, i)'
BY SchedulesAssumption DEF Cell, Has, Armed, Schedule

LEMMA EmptyCell ==
  ASSUME NEW r \in Replicas, NEW i \in Ids,
         schedules'[r][i] = None, timers'[r][i] = "none",
         executions'[r][i] # "current", settled'[r][i] # "current"
  PROVE  Cell(r, i)'
BY DEF Cell, Has

LEMMA AccountBooked ==
  ASSUME MemoryOK, Booked, NEW r \in Replicas, NEW i \in Ids, NEW failed \in BOOLEAN,
         Has(r, i), Account(r, i, failed), settled'[r][i] # "current",
         \A q \in Replicas, j \in Ids : ~(q = r /\ j = i) => settled'[q][j] = settled[q][j]
  PROVE  Booked'
<1> DEFINE old == schedules[r][i]
           failures == old.failures + 1
           new == NextRun(old, IF failed THEN failures ELSE 0)
<1>1. old \in Schedule
  BY DEF MemoryOK, Collection, Has
<1>2. /\ executions'[r][i] # "current"
      /\ \A q \in Replicas, j \in Ids : ~(q = r /\ j = i) => executions'[q][j] = executions[q][j]
  BY OutdateCell DEF Account
<1>3. CASE failed /\ failures >= MAX_CONSECUTIVE_FAILURES
  <2>1. schedules' = Set(schedules, r, i, None) /\ timers' = Set(timers, r, i, "none")
    BY <1>3 DEF Account
  <2>2. Cell(r, i)' /\ Elsewhere(r, i)
    BY <1>2, <2>1, DropCell, EmptyCell DEF Elsewhere
  <2>. QED BY <2>2, OneCell
<1>4. CASE ~(failed /\ failures >= MAX_CONSECUTIVE_FAILURES)
  <2>1. new \in Schedule
    BY <1>1, <1>4 DEF Schedule, NextRun, MAX_CONSECUTIVE_FAILURES
  <2>2. Replace(r, i, new)
    BY <1>4 DEF Account
  <2>3. Cell(r, i)' /\ Elsewhere(r, i)
    BY <1>2, <2>1, <2>2, ReplaceCell, FreshCell DEF Elsewhere
  <2>. QED BY <2>3, OneCell
<1>. QED BY <1>3, <1>4

LEMMA RequestsBooked ==
  ASSUME MemoryOK, Booked, Known, NEW r \in Replicas, NEW i \in Ids, Requests(r, i)
  PROVE  Booked'
<1>1. ASSUME NEW enabled \in BOOLEAN, Create(r, i, enabled) PROVE Booked'
  <2>1. [enabled |-> enabled, failures |-> 0] \in Schedule
    BY DEF Schedule, MAX_CONSECUTIVE_FAILURES
  <2>2. executions[r][i] # "current" /\ settled[r][i] # "current"
    BY <1>1 DEF Create, Known, Booked, Cell
  <2>3. Cell(r, i)' /\ Elsewhere(r, i)
    BY <1>1, <2>1, <2>2, ReplaceCell, FreshCell DEF Create, Elsewhere
  <2>. QED BY <2>3, OneCell
<1>2. ASSUME NEW enabled \in BOOLEAN, Update(r, i, enabled) PROVE Booked'
  <2>1. [enabled |-> enabled, failures |-> 0] \in Schedule
    BY DEF Schedule, MAX_CONSECUTIVE_FAILURES
  <2>2. Cell(r, i)' /\ Elsewhere(r, i)
    BY <1>2, <2>1, ReplaceCell, OutdateCell, FreshCell DEF Update, Outdate, Elsewhere
  <2>. QED BY <2>2, OneCell
<1>3. CASE Remove(r, i)
  <2>1. Cell(r, i)' /\ Elsewhere(r, i)
    BY <1>3, DropCell, OutdateCell, EmptyCell DEF Remove, Outdate, Elsewhere
  <2>. QED BY <2>1, OneCell
<1>4. CASE RunNow(r, i)
  <2>1. executions'[r][i] = "manual" /\ Elsewhere(r, i)
    BY <1>4 DEF RunNow, MemoryOK, Elsewhere, Set
  <2>2. Cell(r, i)'
    BY <1>4, <2>1 DEF RunNow, Booked, Cell, Has
  <2>. QED BY <2>1, <2>2, OneCell
<1>. QED BY <1>1, <1>2, <1>3, <1>4 DEF Requests

LEMMA WorkBooked ==
  ASSUME MemoryOK, Booked, NEW r \in Replicas, NEW i \in Ids, Work(r, i)
  PROVE  Booked'
<1>. Cell(r, i)
  BY DEF Booked
<1>1. CASE Fire(r, i)
  <2>1. /\ executions'[r][i] = timers[r][i] /\ timers'[r][i] = "none"
        /\ Elsewhere(r, i)
    BY <1>1 DEF Fire, MemoryOK, Elsewhere, Set
  <2>2. Cell(r, i)'
    BY <1>1, <2>1 DEF Fire, Cell, Has
  <2>. QED BY <2>1, <2>2, OneCell
<1>2. CASE FireBusy(r, i)
  <2>1. timers[r][i] = "current" /\ Has(r, i)
    BY <1>2 DEF FireBusy, Cell
  <2>2. Account(r, i, TRUE) /\ settled' = Set(settled, r, i, Outdated(settled[r][i]))
    BY <1>2, <2>1 DEF FireBusy
  <2>3. /\ settled'[r][i] # "current"
        /\ \A q \in Replicas, j \in Ids : ~(q = r /\ j = i) => settled'[q][j] = settled[q][j]
    BY <2>2, OutdateCell
  <2>. QED BY <2>1, <2>2, <2>3, AccountBooked
<1>3. CASE Finish(r, i)
  <2>1. executions'[r][i] = "none"
        /\ \A q \in Replicas, j \in Ids : ~(q = r /\ j = i) => executions'[q][j] = executions[q][j]
    BY <1>3 DEF Finish, MemoryOK, Set
  <2>2. /\ settled'[r][i] = IF executions[r][i] = "manual" THEN "none" ELSE executions[r][i]
        /\ \A q \in Replicas, j \in Ids : ~(q = r /\ j = i) => settled'[q][j] = settled[q][j]
    BY <1>3 DEF Finish, MemoryOK, Set
  <2>3. Elsewhere(r, i)
    BY <1>3, <2>1, <2>2 DEF Finish, Elsewhere
  <2>4. Cell(r, i)'
    BY <1>3, <2>1, <2>2 DEF Finish, Cell, Has
  <2>. QED BY <2>3, <2>4, OneCell
<1>4. CASE Settle(r, i)
  <2>1. settled'[r][i] = "none"
        /\ \A q \in Replicas, j \in Ids : ~(q = r /\ j = i) => settled'[q][j] = settled[q][j]
    BY <1>4 DEF Settle, MemoryOK, Set
  <2>2. CASE settled[r][i] = "current"
    <3>1. PICK failed \in BOOLEAN : Account(r, i, failed)
      BY <1>4, <2>2 DEF Settle
    <3>2. Has(r, i)
      BY <2>2 DEF Cell
    <3>. QED BY <2>1, <3>1, <3>2, AccountBooked
  <2>3. CASE settled[r][i] # "current"
    <3>0. UNCHANGED <<schedules, timers, executions>>
      BY <1>4, <2>3 DEF Settle
    <3>1. Elsewhere(r, i)
      BY <2>1, <3>0 DEF Elsewhere
    <3>2. Cell(r, i)'
      BY <2>1, <2>3, <3>0 DEF Cell, Has
    <3>. QED BY <3>1, <3>2, OneCell
  <2>. QED BY <2>2, <2>3
<1>. QED BY <1>1, <1>2, <1>3, <1>4 DEF Work

LEMMA RestartBooked ==
  ASSUME MemoryOK, StorageOK, Booked, NEW r \in Replicas, Restart(r)
  PROVE  Booked'
<1>. SUFFICES ASSUME NEW q \in Replicas, NEW j \in Ids PROVE Cell(q, j)'
  BY DEF Booked
<1>1. CASE q = r
  <2>1. /\ schedules'[q][j] = stored[j]
        /\ timers'[q][j] = IF stored[j] = None THEN "none" ELSE Armed(stored[j])
        /\ executions'[q][j] = "none" /\ settled'[q][j] = "none"
    BY <1>1 DEF Restart, MemoryOK
  <2>2. stored[j] = None \/ stored[j] \in Schedule
    BY DEF StorageOK, Collection
  <2>3. CASE stored[j] = None
    BY <2>1, <2>3, EmptyCell
  <2>4. CASE stored[j] # None
    BY <2>1, <2>2, <2>4, FreshCell
  <2>. QED BY <2>3, <2>4
<1>2. CASE q # r
  BY <1>2 DEF Restart, MemoryOK, Booked, Cell, Has
<1>. QED BY <1>1, <1>2

-----------------------------------------------------------------------------
(* The queue of saves.                                                     *)

\* Queueing a copy.
LEMMA SavePushes ==
  ASSUME StorageOK, schedules' \in [Replicas -> Collection], NEW r \in Replicas, Save(r)
  PROVE  /\ Len(saves'[r]) = Len(saves[r]) + 1
         /\ Len(saves[r]) \in Nat
         /\ \A k \in 1 .. Len(saves[r]) : saves'[r][k] = saves[r][k]
         /\ saves'[r][Len(saves[r]) + 1] = schedules'[r]
         /\ \A q \in Replicas \ {r} : saves'[q] = saves[q]
<1>1. saves[r] \in Seq(Collection) /\ schedules'[r] \in Collection
  BY DEF StorageOK
<1>2. saves'[r] = Append(saves[r], schedules'[r]) /\ \A q \in Replicas \ {r} : saves'[q] = saves[q]
  BY DEF Save, StorageOK
<1>. QED BY <1>1, <1>2

\* Taking the oldest copy.
LEMMA TailShifts ==
  ASSUME StorageOK, NEW r \in Replicas, saves[r] # <<>>, saves' = [saves EXCEPT ![r] = Tail(@)]
  PROVE  /\ Len(saves[r]) \in Nat /\ Len(saves[r]) > 0
         /\ Len(saves'[r]) = Len(saves[r]) - 1
         /\ \A k \in 1 .. Len(saves'[r]) : saves'[r][k] = saves[r][k + 1]
         /\ Head(saves[r]) = saves[r][1]
         /\ \A q \in Replicas \ {r} : saves'[q] = saves[q]
<1>1. saves[r] \in Seq(Collection) /\ saves'[r] = Tail(saves[r])
  BY DEF StorageOK
<1>3. Len(saves[r]) \in Nat /\ Len(saves[r]) > 0
  BY <1>1
<1>2. \A q \in Replicas \ {r} : saves'[q] = saves[q]
  BY DEF StorageOK
<1>4. Head(saves[r]) = saves[r][1]
  BY <1>1
<1>5. Len(Tail(saves[r])) = Len(saves[r]) - 1
      /\ \A k \in 1 .. Len(Tail(saves[r])) : Tail(saves[r])[k] = saves[r][k + 1]
  BY <1>1, HeadTailProperties, Zenon
<1>6. Len(saves'[r]) = Len(saves[r]) - 1
      /\ \A k \in 1 .. Len(saves'[r]) : saves'[r][k] = saves[r][k + 1]
  BY <1>1, <1>5, Zenon
<1>. QED BY <1>2, <1>3, <1>4, <1>6

\* What a step does to the map and the queue of a replica: it saves the map
\* it leaves, or it changes neither, or it drops the oldest save, or it
\* starts again from the table.
Saved(r) ==
  /\ Save(r) /\ UNCHANGED stored
  /\ \A q \in Replicas \ {r} : schedules'[q] = schedules[q]
Dropped(r) ==
  /\ saves[r] # <<>> /\ saves' = [saves EXCEPT ![r] = Tail(@)]
  /\ stored' \in {stored, Head(saves[r])}
  /\ UNCHANGED schedules
Reloaded(r) ==
  /\ schedules' = [schedules EXCEPT ![r] = stored]
  /\ saves' = [saves EXCEPT ![r] = <<>>]
  /\ UNCHANGED stored

\* Where a step removes a schedule from a map, it notes that it ended; it
\* puts one back only when it creates it.
Noted(r) ==
  /\ created \subseteq created' /\ ended \subseteq ended'
  /\ \A i \in Ids : schedules'[r][i] = None => schedules[r][i] = None \/ i \in ended'
  /\ \A i \in Ids : schedules'[r][i] # None => schedules[r][i] # None \/ i \in created'

LEMMA ReplaceSaved ==
  ASSUME MemoryOK, NEW r \in Replicas, NEW i \in Ids, NEW schedule \in Schedule,
         Replace(r, i, schedule), UNCHANGED stored,
         created \subseteq created', ended \subseteq ended', Has(r, i) \/ i \in created'
  PROVE  Saved(r) /\ Noted(r)
<1>1. schedule # None
  BY SchedulesAssumption
<1>2. Saved(r)
  BY ReplaceCell DEF Saved, Replace, Set, MemoryOK
<1>3. Noted(r)
  BY <1>1, ReplaceCell DEF Noted, Has
<1>. QED BY <1>2, <1>3

LEMMA DropSaved ==
  ASSUME MemoryOK, NEW r \in Replicas, NEW i \in Ids,
         schedules' = Set(schedules, r, i, None), timers' = Set(timers, r, i, "none"),
         Save(r), UNCHANGED <<stored, created>>, ended' = ended \cup {i}
  PROVE  Saved(r) /\ Noted(r)
<1>1. Saved(r)
  BY DEF Saved, Set, MemoryOK
<1>2. Noted(r)
  BY DropCell DEF Noted
<1>. QED BY <1>1, <1>2

LEMMA AccountSaved ==
  ASSUME MemoryOK, NEW r \in Replicas, NEW i \in Ids, NEW failed \in BOOLEAN,
         Has(r, i), Account(r, i, failed), UNCHANGED <<stored, created>>
  PROVE  Saved(r) /\ Noted(r)
<1> DEFINE old == schedules[r][i]
           new == NextRun(old, IF failed THEN old.failures + 1 ELSE 0)
<1>1. old \in Schedule
  BY DEF MemoryOK, Collection, Has
<1>2. CASE failed /\ old.failures + 1 >= MAX_CONSECUTIVE_FAILURES
  BY <1>2, DropSaved DEF Account
<1>3. CASE ~(failed /\ old.failures + 1 >= MAX_CONSECUTIVE_FAILURES)
  <2>1. new \in Schedule
    BY <1>1, <1>3 DEF Schedule, NextRun, MAX_CONSECUTIVE_FAILURES
  <2>2. Replace(r, i, new) /\ UNCHANGED ended
    BY <1>3 DEF Account
  <2>. QED BY <2>1, <2>2, ReplaceSaved
<1>. QED BY <1>2, <1>3

LEMMA RequestsSaved ==
  ASSUME MemoryOK, NEW r \in Replicas, NEW i \in Ids, Requests(r, i)
  PROVE  (Saved(r) /\ Noted(r)) \/ UNCHANGED <<schedules, saves, stored, created, ended>>
<1>1. ASSUME NEW enabled \in BOOLEAN, Create(r, i, enabled) PROVE Saved(r) /\ Noted(r)
  <2>1. [enabled |-> enabled, failures |-> 0] \in Schedule
    BY DEF Schedule, MAX_CONSECUTIVE_FAILURES
  <2>. QED BY <1>1, <2>1, ReplaceSaved DEF Create
<1>2. ASSUME NEW enabled \in BOOLEAN, Update(r, i, enabled) PROVE Saved(r) /\ Noted(r)
  <2>1. [enabled |-> enabled, failures |-> 0] \in Schedule
    BY DEF Schedule, MAX_CONSECUTIVE_FAILURES
  <2>. QED BY <1>2, <2>1, ReplaceSaved DEF Update
<1>3. CASE Remove(r, i)
  BY <1>3, DropSaved DEF Remove
<1>4. CASE RunNow(r, i)
  BY <1>4 DEF RunNow
<1>. QED BY <1>1, <1>2, <1>3, <1>4 DEF Requests

LEMMA WorkSaved ==
  ASSUME MemoryOK, Booked, NEW r \in Replicas, NEW i \in Ids, Work(r, i)
  PROVE  (Saved(r) /\ Noted(r)) \/ UNCHANGED <<schedules, saves, stored, created, ended>>
<1>. Cell(r, i)
  BY DEF Booked
<1>1. CASE Fire(r, i) \/ Finish(r, i)
  BY <1>1 DEF Fire, Finish
<1>2. CASE FireBusy(r, i)
  <2>1. Has(r, i) /\ Account(r, i, TRUE) /\ UNCHANGED <<stored, created>>
    BY <1>2 DEF FireBusy, Cell
  <2>. QED BY <2>1, AccountSaved
<1>3. CASE Settle(r, i) /\ settled[r][i] = "current"
  <2>1. PICK failed \in BOOLEAN : Account(r, i, failed)
    BY <1>3 DEF Settle
  <2>2. Has(r, i) /\ UNCHANGED <<stored, created>>
    BY <1>3 DEF Settle, Cell
  <2>. QED BY <2>1, <2>2, AccountSaved
<1>4. CASE Settle(r, i) /\ settled[r][i] # "current"
  BY <1>4 DEF Settle
<1>. QED BY <1>1, <1>2, <1>3, <1>4 DEF Work

LEMMA ReplicaSaved ==
  ASSUME NEW r \in Replicas, SaveApplies(r) \/ SaveFails(r) \/ Restart(r)
  PROVE  (Dropped(r) \/ Reloaded(r)) /\ UNCHANGED <<created, ended>>
BY DEF SaveApplies, SaveFails, Restart, Dropped, Reloaded, memory

LEMMA NewestSaveKept ==
  ASSUME TypeOK, SavesUpToDate, NEW r \in Replicas, Saved(r) \/ Dropped(r) \/ Reloaded(r),
         TypeOK'
  PROVE  SavesUpToDate'
<1>. MemoryOK /\ StorageOK /\ MemoryOK' /\ StorageOK'
  BY TypeParts
<1>. SUFFICES ASSUME NEW q \in Replicas, saves'[q] # <<>>
     PROVE  saves'[q][Len(saves'[q])] = schedules'[q]
  BY DEF SavesUpToDate
<1>1. CASE Saved(r)
  <2>1. Save(r) /\ schedules' \in [Replicas -> Collection]
        /\ \A p \in Replicas \ {r} : schedules'[p] = schedules[p]
    BY <1>1 DEF Saved, MemoryOK
  <2>. QED BY <2>1, SavePushes DEF SavesUpToDate
<1>2. CASE Dropped(r)
  <2>1. CASE q = r
    <3>1. saves'[r] \in Seq(Collection) /\ saves'[r] # <<>>
      BY <2>1 DEF StorageOK
    <3>2. Len(saves'[r]) \in Nat \ {0}
      BY <3>1
    <3>3. /\ saves[r] # <<>> /\ Len(saves[r]) \in Nat
          /\ Len(saves'[r]) = Len(saves[r]) - 1
          /\ \A k \in 1 .. Len(saves'[r]) : saves'[r][k] = saves[r][k + 1]
      BY <1>2, TailShifts DEF Dropped
    <3>4. Len(saves'[r]) \in 1 .. Len(saves'[r]) /\ Len(saves'[r]) + 1 = Len(saves[r])
      <4> DEFINE m == Len(saves'[r])
                 n == Len(saves[r])
      <4>1. m \in Nat \ {0} /\ n \in Nat /\ m = n - 1
        BY <3>2, <3>3
      <4>. HIDE DEF m, n
      <4>2. m \in 1 .. m /\ m + 1 = n
        BY <4>1
      <4>. QED BY <4>2 DEF m, n
    <3>5. saves'[r][Len(saves'[r])] = saves[r][Len(saves[r])]
      BY <3>3, <3>4
    <3>. QED BY <1>2, <2>1, <3>3, <3>5 DEF Dropped, SavesUpToDate
  <2>2. CASE q # r
    BY <1>2, <2>2, TailShifts DEF Dropped, SavesUpToDate
  <2>. QED BY <2>1, <2>2
<1>3. CASE Reloaded(r)
  BY <1>3 DEF Reloaded, MemoryOK, StorageOK, SavesUpToDate
<1>. QED BY <1>1, <1>2, <1>3

LEMMA KnownKept ==
  ASSUME TypeOK, TypeOK', Known, NEW r \in Replicas,
         (Saved(r) /\ Noted(r)) \/ ((Dropped(r) \/ Reloaded(r)) /\ UNCHANGED created)
  PROVE  Known'
<1>. MemoryOK /\ StorageOK /\ MemoryOK' /\ StorageOK'
  BY TypeParts
<1>. SUFFICES ASSUME NEW i \in Ids \ created', i \notin created
     PROVE  /\ stored'[i] = None
            /\ \A q \in Replicas : /\ schedules'[q][i] = None
                                   /\ \A k \in 1 .. Len(saves'[q]) : saves'[q][k][i] = None
  BY DEF Known, Has, Noted
<1>0. /\ stored[i] = None
      /\ \A q \in Replicas : /\ schedules[q][i] = None
                             /\ \A k \in 1 .. Len(saves[q]) : saves[q][k][i] = None
  BY DEF Known, Has
<1>1. CASE Saved(r) /\ Noted(r)
  <2>1. stored'[i] = None /\ \A q \in Replicas : schedules'[q][i] = None
    BY <1>0, <1>1 DEF Saved, Noted
  <2>2. Save(r) /\ schedules' \in [Replicas -> Collection]
    BY <1>1 DEF Saved, MemoryOK
  <2>3. ASSUME NEW q \in Replicas, NEW k \in 1 .. Len(saves'[q]) PROVE saves'[q][k][i] = None
    <3>1. /\ Len(saves'[r]) = Len(saves[r]) + 1 /\ Len(saves[r]) \in Nat
          /\ \A m \in 1 .. Len(saves[r]) : saves'[r][m] = saves[r][m]
          /\ saves'[r][Len(saves[r]) + 1] = schedules'[r]
          /\ \A p \in Replicas \ {r} : saves'[p] = saves[p]
      BY <2>2, SavePushes
    <3>2. CASE q # r
      BY <1>0, <2>3, <3>1, <3>2
    <3>3. CASE q = r
      <4>1. k \in 1 .. Len(saves[r]) \/ k = Len(saves[r]) + 1
        <5>. DEFINE n == Len(saves[r])
        <5>1. n \in Nat /\ k \in 1 .. n + 1
          BY <2>3, <3>1, <3>3
        <5>. HIDE DEF n
        <5>2. k \in 1 .. n \/ k = n + 1
          BY <5>1
        <5>. QED BY <5>2 DEF n
      <4>2. \A m \in 1 .. Len(saves[r]) : saves[r][m][i] = None
        BY <1>0
      <4>3. schedules'[r][i] = None
        BY <2>1
      <4>. QED BY <3>1, <3>3, <4>1, <4>2, <4>3
    <3>. QED BY <3>2, <3>3
  <2>. QED BY <2>1, <2>3
<1>2. CASE Dropped(r)
  <2>1. ASSUME NEW q \in Replicas, NEW k \in 1 .. Len(saves'[q]) PROVE saves'[q][k][i] = None
    BY <1>0, <1>2, <2>1, TailShifts DEF Dropped
  <2>2. stored'[i] = None
    BY <1>0, <1>2, TailShifts DEF Dropped
  <2>. QED BY <1>0, <1>2, <2>1, <2>2 DEF Dropped
<1>3. CASE Reloaded(r)
  BY <1>0, <1>3 DEF Reloaded, MemoryOK, StorageOK
<1>. QED BY <1>1, <1>2, <1>3

-----------------------------------------------------------------------------
(* The invariant and the theorems.                                         *)

Invariant == TypeOK /\ Booked /\ Known /\ SavesUpToDate

LEMMA InvariantInit == Init => Invariant
<1>. SUFFICES ASSUME Init PROVE Invariant
  OBVIOUS
<1>1. Booked
  BY DEF Init, Booked, Cell, Has
<1>2. Known /\ SavesUpToDate
  BY DEF Init, Known, Has, SavesUpToDate
<1>. QED BY <1>1, <1>2, InitType DEF Invariant

LEMMA InvariantStep == Invariant /\ [Next]_vars => Invariant'
<1>. SUFFICES ASSUME Invariant, [Next]_vars PROVE Invariant'
  OBVIOUS
<1>. MemoryOK /\ StorageOK /\ HistoryOK /\ TypeOK /\ Booked /\ Known /\ SavesUpToDate
  BY TypeParts DEF Invariant
<1>0. ASSUME UNCHANGED <<schedules, saves, stored, created, ended>> PROVE Known' /\ SavesUpToDate'
  BY <1>0 DEF Known, Has, SavesUpToDate
<1>1. ASSUME NEW r \in Replicas, NEW i \in Ids, Requests(r, i) PROVE Invariant'
  <2>1. TypeOK'
    BY <1>1, RequestsType, TypeParts
  <2>2. Booked'
    BY <1>1, RequestsBooked
  <2>3. Known' /\ SavesUpToDate'
    BY <1>0, <1>1, <2>1, RequestsSaved, KnownKept, NewestSaveKept
  <2>. QED BY <2>1, <2>2, <2>3 DEF Invariant
<1>2. ASSUME NEW r \in Replicas, NEW i \in Ids, Work(r, i) PROVE Invariant'
  <2>1. TypeOK'
    <3>1. settled[r][i] = "current" \/ timers[r][i] = "current" => Has(r, i)
      BY DEF Booked, Cell
    <3>. QED BY <1>2, <3>1, WorkType, TypeParts
  <2>2. Booked'
    BY <1>2, WorkBooked
  <2>3. Known' /\ SavesUpToDate'
    BY <1>0, <1>2, <2>1, WorkSaved, KnownKept, NewestSaveKept
  <2>. QED BY <2>1, <2>2, <2>3 DEF Invariant
<1>3. ASSUME NEW r \in Replicas, SaveApplies(r) \/ SaveFails(r) \/ Restart(r) PROVE Invariant'
  <2>1. TypeOK'
    BY <1>3, ReplicaType, TypeParts
  <2>2. Booked'
    <3>1. CASE Restart(r)
      BY <3>1, RestartBooked
    <3>2. CASE SaveApplies(r) \/ SaveFails(r)
      BY <3>2 DEF SaveApplies, SaveFails, memory, Booked, Cell, Has
    <3>. QED BY <1>3, <3>1, <3>2
  <2>3. Known' /\ SavesUpToDate'
    BY <1>3, <2>1, ReplicaSaved, KnownKept, NewestSaveKept
  <2>. QED BY <2>1, <2>2, <2>3 DEF Invariant
<1>4. CASE UNCHANGED vars
  <2>1. TypeOK'
    BY <1>4 DEF vars, memory, bounds, TypeOK
  <2>2. Booked'
    BY <1>4 DEF vars, memory, Booked, Cell, Has
  <2>. QED BY <1>0, <1>4, <2>1, <2>2 DEF vars, memory, Invariant
<1>. QED BY <1>1, <1>2, <1>3, <1>4 DEF Next

THEOREM InvariantAlways == Spec => []Invariant
<1>. QED BY InvariantInit, InvariantStep, PTL DEF Spec

\* Every reachable state is well typed: in particular no failure counter
\* ever reaches the limit, and no timer run settles a schedule that is gone.
THEOREM SchedulesTypeCorrect == Spec => []TypeOK
<1>1. Invariant => TypeOK
  BY DEF Invariant
<1>. QED BY <1>1, InvariantAlways, PTL

\* An enabled schedule of a replica is always armed or about to be armed
\* again (schedule, runScheduled).
THEOREM ArmedOrRunningAlways == Spec => []ArmedOrRunning
<1>1. Invariant => ArmedOrRunning
  BY DEF Invariant, Booked, Cell, ArmedOrRunning
<1>. QED BY <1>1, InvariantAlways, PTL

\* No timer survives the schedule, or the version of it, that it was armed
\* for (clearTimer).
THEOREM NoStrayTimerAlways == Spec => []NoStrayTimer
<1>1. Invariant => NoStrayTimer
  BY DEF Invariant, Booked, Cell, NoStrayTimer
<1>. QED BY <1>1, InvariantAlways, PTL

\* Timers follow their schedules exactly (schedule, clearTimer, runScheduled).
THEOREM TimersRightAlways == Spec => []TimersRight
<1>1. ArmedOrRunning /\ NoStrayTimer => TimersRight
  BY DEF TimersRight
<1>. QED BY <1>1, ArmedOrRunningAlways, NoStrayTimerAlways, PTL

\* The newest queued save is the replica's map (save).
THEOREM SavesUpToDateAlways == Spec => []SavesUpToDate
<1>1. Invariant => SavesUpToDate
  BY DEF Invariant
<1>. QED BY <1>1, InvariantAlways, PTL

-----------------------------------------------------------------------------
(* One replica alone never loses a stored schedule.  The table, the saves  *)
(* that wait and the map are versions of one collection, oldest first:     *)
(* whatever an older one has and a younger one has not is in `ended`.      *)

Kept(older, younger) == \A i \in Ids : older[i] # None /\ younger[i] = None => i \in ended

Versions(r) ==
  /\ Kept(stored, schedules[r])
  /\ \A k \in 1 .. Len(saves[r]) : Kept(stored, saves[r][k]) /\ Kept(saves[r][k], schedules[r])
  /\ \A j, k \in 1 .. Len(saves[r]) : j < k => Kept(saves[r][j], saves[r][k])

LEMMA VersionsSaved ==
  ASSUME StorageOK, schedules' \in [Replicas -> Collection],
         NEW r \in Replicas, Versions(r), Saved(r), Noted(r)
  PROVE  Versions(r)'
<1> DEFINE n == Len(saves[r])
<1>1. n \in Nat /\ Len(saves'[r]) = n + 1 /\ saves'[r][n + 1] = schedules'[r]
      /\ \A k \in 1 .. n : saves'[r][k] = saves[r][k]
  BY SavePushes DEF Saved
<1>2. Kept(stored, schedules[r]) /\ stored' = stored
      /\ (\A k \in 1 .. n : Kept(stored, saves[r][k]) /\ Kept(saves[r][k], schedules[r]))
      /\ (\A j, k \in 1 .. n : j < k => Kept(saves[r][j], saves[r][k]))
  BY DEF Versions, Saved
<1>. HIDE DEF n
<1>3. \A older : Kept(older, schedules[r]) => \A i \in Ids :
        older[i] # None /\ schedules'[r][i] = None => i \in ended'
  BY DEF Kept, Noted
<1>4. \A older, younger : Kept(older, younger) => \A i \in Ids :
        older[i] # None /\ younger[i] = None => i \in ended'
  BY DEF Kept, Noted
<1>5. Kept(stored, schedules[r])'
  BY <1>2, <1>3 DEF Kept
<1>6. ASSUME NEW k \in 1 .. n + 1
      PROVE  Kept(stored, saves[r][k])' /\ Kept(saves[r][k], schedules[r])'
  <2>1. CASE k \in 1 .. n
    BY <1>1, <1>2, <1>3, <1>4, <2>1 DEF Kept
  <2>2. CASE k = n + 1
    BY <1>1, <1>5, <2>2 DEF Kept
  <2>. QED BY <1>1, <2>1, <2>2
<1>7. ASSUME NEW j \in 1 .. n + 1, NEW k \in 1 .. n + 1, j < k
      PROVE  Kept(saves[r][j], saves[r][k])'
  <2>1. j \in 1 .. n
    BY <1>1, <1>7
  <2>2. CASE k \in 1 .. n
    BY <1>1, <1>2, <1>4, <1>7, <2>1, <2>2 DEF Kept
  <2>3. CASE k = n + 1
    BY <1>1, <1>6, <2>3 DEF Kept
  <2>. QED BY <1>1, <2>2, <2>3
<1>. QED BY <1>1, <1>5, <1>6, <1>7 DEF Versions

LEMMA VersionsDropped ==
  ASSUME StorageOK, NEW r \in Replicas, Versions(r), Dropped(r), UNCHANGED ended
  PROVE  Versions(r)' /\ \A i \in Ids : stored[i] # None /\ stored'[i] = None => i \in ended
<1> DEFINE n == Len(saves[r])
           m == Len(saves'[r])
<1>1. /\ n \in Nat /\ n > 0 /\ m = n - 1
      /\ \A k \in 1 .. m : saves'[r][k] = saves[r][k + 1]
      /\ stored' = stored \/ stored' = saves[r][1]
      /\ schedules' = schedules
  BY TailShifts DEF Dropped
<1>2. Kept(stored, schedules[r])
      /\ (\A k \in 1 .. n : Kept(stored, saves[r][k]) /\ Kept(saves[r][k], schedules[r]))
      /\ (\A j, k \in 1 .. n : j < k => Kept(saves[r][j], saves[r][k]))
  BY DEF Versions
<1>. HIDE DEF n, m
<1>3. 1 \in 1 .. n /\ \A k \in 1 .. m : k + 1 \in 1 .. n /\ 1 < k + 1
  BY <1>1
<1>4. Kept(stored, schedules[r])'
  BY <1>1, <1>2, <1>3 DEF Kept
<1>5. ASSUME NEW k \in 1 .. m
      PROVE  Kept(stored, saves[r][k])' /\ Kept(saves[r][k], schedules[r])'
  <2>1. saves'[r][k] = saves[r][k + 1] /\ k + 1 \in 1 .. n /\ 1 < k + 1
    BY <1>1, <1>3
  <2>2. Kept(stored, saves[r][k + 1]) /\ Kept(saves[r][1], saves[r][k + 1])
        /\ Kept(saves[r][k + 1], schedules[r])
    BY <1>2, <1>3, <2>1
  <2>. QED BY <1>1, <2>1, <2>2 DEF Kept
<1>6. ASSUME NEW j \in 1 .. m, NEW k \in 1 .. m, j < k
      PROVE  Kept(saves[r][j], saves[r][k])'
  <2>1. j + 1 \in 1 .. n /\ k + 1 \in 1 .. n /\ j + 1 < k + 1
    BY <1>3, <1>6
  <2>2. Kept(saves[r][j + 1], saves[r][k + 1])
    BY <1>2, <2>1
  <2>. QED BY <1>1, <2>2 DEF Kept
<1>7. \A i \in Ids : stored[i] # None /\ stored'[i] = None => i \in ended
  BY <1>1, <1>2, <1>3 DEF Kept
<1>8. Versions(r)'
  BY <1>4, <1>5, <1>6 DEF Versions, m
<1>. QED BY <1>7, <1>8

LEMMA VersionsReloaded ==
  ASSUME MemoryOK, StorageOK, NEW r \in Replicas, Reloaded(r)
  PROVE  Versions(r)'
<1>1. schedules'[r] = stored /\ stored' = stored /\ saves'[r] = <<>>
  BY DEF Reloaded, MemoryOK, StorageOK
<1>2. Len(saves'[r]) = 0
  BY <1>1
<1>3. Kept(stored, schedules[r])'
  BY <1>1 DEF Kept
<1>. QED BY <1>2, <1>3 DEF Versions

\* What a stored schedule owes to a step of the only replica.
Lasting == \A i \in Ids : stored[i] # None /\ stored'[i] = None => i \in ended

LEMMA VersionsStep ==
  ASSUME NEW r, Replicas = {r}, Invariant, Invariant', Versions(r), [Next]_vars
  PROVE  Versions(r)' /\ Lasting
<1>. /\ MemoryOK /\ StorageOK /\ Booked /\ r \in Replicas
     /\ schedules' \in [Replicas -> Collection]
  BY TypeParts DEF Invariant, MemoryOK
<1>1. ASSUME Saved(r), Noted(r) PROVE Versions(r)' /\ Lasting
  <2>1. Versions(r)'
    BY <1>1, VersionsSaved
  <2>. QED BY <1>1, <2>1 DEF Saved, Lasting
<1>2. ASSUME UNCHANGED <<schedules, saves, stored, created, ended>>
      PROVE  Versions(r)' /\ Lasting
  BY <1>2 DEF Versions, Kept, Lasting
<1>3. ASSUME NEW i \in Ids, Requests(r, i) \/ Work(r, i) PROVE Versions(r)' /\ Lasting
  BY <1>1, <1>2, <1>3, RequestsSaved, WorkSaved
<1>4. ASSUME SaveApplies(r) \/ SaveFails(r) \/ Restart(r) PROVE Versions(r)' /\ Lasting
  <2>1. CASE Dropped(r)
    BY <1>4, <2>1, ReplicaSaved, VersionsDropped DEF Lasting
  <2>2. CASE Reloaded(r)
    BY <2>2, VersionsReloaded DEF Reloaded, Lasting
  <2>. QED BY <1>4, <2>1, <2>2, ReplicaSaved
<1>5. CASE UNCHANGED vars
  BY <1>2, <1>5 DEF vars, memory
<1>. QED BY <1>3, <1>4, <1>5 DEF Next

\* With one replica a schedule leaves the table only because it was removed
\* or failed too often, whatever saves fail and whenever the replica restarts
\* (save, replaceCollection).  With two the run MCServerSchedules_replicas
\* refutes it.
THEOREM StoredUntilEndedAlone ==
  ASSUME NEW r, Replicas = {r}
  PROVE  Spec => StoredUntilEnded
<1>1. Init => Versions(r)
  BY DEF Init, Versions, Kept
<1>2. Invariant /\ Invariant' /\ Versions(r) /\ [Next]_vars => Versions(r)' /\ Lasting
  BY VersionsStep
<1>3. Lasting => [\A i \in Ids : stored[i] # None /\ stored'[i] = None => i \in ended]_vars
  BY DEF Lasting
<1>. QED BY <1>1, <1>2, <1>3, InvariantAlways, PTL DEF Spec, StoredUntilEnded
=============================================================================
