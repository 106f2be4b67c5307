---------------------------- MODULE ServerSchedules ----------------------------
(***************************************************************************)
(* The schedules of ServerSchedulesService.  Each replica keeps all of     *)
(* them in memory, with one timer and at most one execution per schedule,  *)
(* and saves the whole collection after every change.  A save is queued    *)
(* and not awaited; it may fail, and then only the log says so.            *)
(*                                                                         *)
(* An edit replaces the record object.  Timers and runs hold on to the     *)
(* object they were started with, so each is "current" or "old": the code  *)
(* compares objects (current !== scheduled) where the model compares these *)
(* two words.                                                              *)
(***************************************************************************)
EXTENDS Naturals, Sequences

CONSTANTS
  Replicas,      \* API processes
  Ids,           \* schedule ids, none of them ever used twice
  None,          \* "no such schedule"
  MaxQueue,      \* bound on the saves that wait
  MaxEdits,      \* bound on edits and manual runs
  MaxRestarts    \* bound on restarts of replicas

MAX_CONSECUTIVE_FAILURES == 3

Schedule == [enabled : BOOLEAN, failures : 0 .. MAX_CONSECUTIVE_FAILURES - 1]

ASSUME SchedulesAssumption ==
  /\ None \notin Schedule
  /\ MaxQueue \in Nat /\ MaxEdits \in Nat /\ MaxRestarts \in Nat

VARIABLES
  schedules,    \* the map of each replica
  timers,       \* the armed timers
  executions,   \* the runs in progress, by schedule id
  settled,      \* timer runs that ended and have not been accounted for
  saves,        \* the queue of each replica: copies of its map
  stored,       \* the table server_schedules
  created,      \* history: ids given out
  ended,        \* history: ids removed by users or after failures
  edits, restarts

memory == <<schedules, timers, executions, settled>>
bounds == <<edits, restarts>>
vars == <<memory, saves, stored, created, ended, bounds>>

Refs == {"none", "current", "old"}
Collection == [Ids -> Schedule \cup {None}]

Has(r, i) == schedules[r][i] # None
Set(f, r, i, v) == [f EXCEPT ![r][i] = v]
Outdated(ref) == IF ref = "current" THEN "old" ELSE ref

\* save(): queue a copy of the map.
Save(r) ==
  /\ Len(saves[r]) < MaxQueue
  /\ saves' = [saves EXCEPT ![r] = Append(@, schedules'[r])]

\* schedule(): clear the timer, then arm one if the schedule is enabled.
Armed(schedule) == IF schedule.enabled THEN "current" ELSE "none"

\* Put another record in the map, arm its timer and save.  Runs that are
\* under way keep the old one.
Replace(r, i, schedule) ==
  /\ schedules' = Set(schedules, r, i, schedule)
  /\ timers' = Set(timers, r, i, Armed(schedule))
  /\ Save(r)

Outdate(r, i) ==
  /\ executions' = Set(executions, r, i, Outdated(executions[r][i]))
  /\ settled' = Set(settled, r, i, Outdated(settled[r][i]))

Edit == edits < MaxEdits /\ edits' = edits + 1 /\ UNCHANGED restarts

-----------------------------------------------------------------------------
(* Requests. *)

Create(r, i, enabled) ==
  /\ i \notin created
  /\ Replace(r, i, [enabled |-> enabled, failures |-> 0])
  /\ created' = created \cup {i}
  /\ UNCHANGED <<executions, settled, stored, ended, bounds>>

\* Seeded fault: an edit does not save.
Update_Unsaved(r, i, enabled) ==
  /\ Edit /\ Has(r, i)
  /\ schedules' = Set(schedules, r, i, [enabled |-> enabled, failures |-> 0])
  /\ timers' = Set(timers, r, i, Armed(schedules'[r][i]))
  /\ Outdate(r, i)
  /\ UNCHANGED <<saves, stored, created, ended>>

Update(r, i, enabled) ==
  /\ Edit /\ Has(r, i)
  /\ Replace(r, i, [enabled |-> enabled, failures |-> 0])
  /\ Outdate(r, i)
  /\ UNCHANGED <<stored, created, ended>>

\* Seeded fault: removal forgets the timer.
Remove_KeepsTimer(r, i) ==
  /\ Edit /\ Has(r, i)
  /\ schedules' = Set(schedules, r, i, None)
  /\ timers' = Set(timers, r, i, Outdated(timers[r][i]))
  /\ Save(r)
  /\ Outdate(r, i)
  /\ ended' = ended \cup {i}
  /\ UNCHANGED <<stored, created>>

Remove(r, i) ==
  /\ Edit /\ Has(r, i)
  /\ schedules' = Set(schedules, r, i, None)
  /\ timers' = Set(timers, r, i, "none")
  /\ Save(r)
  /\ Outdate(r, i)
  /\ ended' = ended \cup {i}
  /\ UNCHANGED <<stored, created>>

\* runNow: the failure counter has nothing to do with it.
RunNow(r, i) ==
  /\ Edit /\ Has(r, i)
  /\ executions[r][i] = "none"
  /\ executions' = Set(executions, r, i, "manual")
  /\ UNCHANGED <<schedules, timers, settled, saves, stored, created, ended>>

-----------------------------------------------------------------------------
(* Timers and runs. *)

\* nextRun: the same schedule with another failure count.
NextRun(schedule, failures) == [enabled |-> schedule.enabled, failures |-> failures]

\* Seeded fault: one failure too many.
Account_OneMore(r, i, failed) ==
  LET failures == schedules[r][i].failures + 1 IN
  /\ executions' = Set(executions, r, i, Outdated(executions[r][i]))
  /\ IF failed /\ failures > MAX_CONSECUTIVE_FAILURES
     THEN /\ schedules' = Set(schedules, r, i, None)
          /\ timers' = Set(timers, r, i, "none")
          /\ Save(r)
          /\ ended' = ended \cup {i}
     ELSE /\ Replace(r, i, NextRun(schedules[r][i], IF failed THEN failures ELSE 0))
          /\ UNCHANGED ended

\* Seeded fault: the next run is not scheduled after a failure.
Account_NoRearm(r, i, failed) ==
  LET failures == schedules[r][i].failures + 1 IN
  /\ executions' = Set(executions, r, i, Outdated(executions[r][i]))
  /\ IF failed /\ failures >= MAX_CONSECUTIVE_FAILURES
     THEN /\ schedules' = Set(schedules, r, i, None)
          /\ timers' = Set(timers, r, i, "none")
          /\ Save(r)
          /\ ended' = ended \cup {i}
     ELSE /\ schedules' = Set(schedules, r, i,
               NextRun(schedules[r][i], IF failed THEN failures ELSE 0))
          /\ timers' = Set(timers, r, i,
               IF failed THEN "none" ELSE Armed(schedules[r][i]))
          /\ Save(r)
          /\ UNCHANGED ended

\* The end of runScheduled for the current record.
Account(r, i, failed) ==
  LET failures == schedules[r][i].failures + 1 IN
  /\ executions' = Set(executions, r, i, Outdated(executions[r][i]))
  /\ IF failed /\ failures >= MAX_CONSECUTIVE_FAILURES
     THEN /\ schedules' = Set(schedules, r, i, None)
          /\ timers' = Set(timers, r, i, "none")
          /\ Save(r)
          /\ ended' = ended \cup {i}
     ELSE /\ Replace(r, i, NextRun(schedules[r][i], IF failed THEN failures ELSE 0))
          /\ UNCHANGED ended

\* Seeded fault: a timer that meets another run gives up.
FireBusy_Lost(r, i) ==
  /\ timers[r][i] # "none" /\ executions[r][i] # "none"
  /\ timers' = Set(timers, r, i, "none")
  /\ UNCHANGED <<schedules, executions, settled, saves, stored, created, ended, bounds>>

\* A timer fires while another run is under way: executeExclusive throws,
\* and that counts as a failure at once.
FireBusy(r, i) ==
  /\ timers[r][i] # "none" /\ executions[r][i] # "none"
  /\ IF timers[r][i] = "current"
     THEN /\ Account(r, i, TRUE)
          /\ settled' = Set(settled, r, i, Outdated(settled[r][i]))
     ELSE /\ timers' = Set(timers, r, i, "none")
          /\ UNCHANGED <<schedules, executions, settled, saves, ended>>
  /\ UNCHANGED <<stored, created, bounds>>

\* A timer fires and its run starts.
Fire(r, i) ==
  /\ timers[r][i] # "none" /\ executions[r][i] = "none"
  /\ executions' = Set(executions, r, i, timers[r][i])
  /\ timers' = Set(timers, r, i, "none")
  /\ UNCHANGED <<schedules, settled, saves, stored, created, ended, bounds>>

\* execute() ends, well or badly, and leaves the map of executions.
Finish(r, i) ==
  /\ executions[r][i] # "none" /\ settled[r][i] = "none"
  /\ executions' = Set(executions, r, i, "none")
  /\ settled' = IF executions[r][i] = "manual" THEN settled
                ELSE Set(settled, r, i, executions[r][i])
  /\ UNCHANGED <<schedules, timers, saves, stored, created, ended, bounds>>

\* runScheduled goes on after its run.
Settle(r, i) ==
  /\ settled[r][i] # "none"
  /\ settled' = Set(settled, r, i, "none")
  /\ IF settled[r][i] = "current"
     THEN \E failed \in BOOLEAN : Account(r, i, failed)
     ELSE UNCHANGED <<schedules, timers, executions, saves, ended>>
  /\ UNCHANGED <<stored, created, bounds>>

-----------------------------------------------------------------------------
(* Saving and restarting. *)

\* Seeded fault: the saves of a replica overtake one another.
SaveApplies_LastFirst(r) ==
  /\ saves[r] # <<>>
  /\ stored' = saves[r][Len(saves[r])]
  /\ saves' = [saves EXCEPT ![r] = SubSeq(@, 1, Len(@) - 1)]
  /\ UNCHANGED <<memory, created, ended, bounds>>

\* replaceCollection: delete every row, insert the copy.
SaveApplies(r) ==
  /\ saves[r] # <<>>
  /\ stored' = Head(saves[r])
  /\ saves' = [saves EXCEPT ![r] = Tail(@)]
  /\ UNCHANGED <<memory, created, ended, bounds>>

SaveFails(r) ==
  /\ saves[r] # <<>>
  /\ saves' = [saves EXCEPT ![r] = Tail(@)]
  /\ UNCHANGED <<memory, stored, created, ended, bounds>>

\* The process dies with its timers, runs and waiting saves; onModuleInit
\* reads the table and arms a timer for every enabled schedule.
Restart(r) ==
  /\ restarts < MaxRestarts
  /\ restarts' = restarts + 1
  /\ schedules' = [schedules EXCEPT ![r] = stored]
  /\ timers' = [timers EXCEPT ![r] =
       [i \in Ids |-> IF stored[i] = None THEN "none" ELSE Armed(stored[i])]]
  /\ executions' = [executions EXCEPT ![r] = [i \in Ids |-> "none"]]
  /\ settled' = [settled EXCEPT ![r] = [i \in Ids |-> "none"]]
  /\ saves' = [saves EXCEPT ![r] = <<>>]
  /\ UNCHANGED <<stored, created, ended, edits>>

Init ==
  /\ schedules = [r \in Replicas |-> [i \in Ids |-> None]]
  /\ timers = [r \in Replicas |-> [i \in Ids |-> "none"]]
  /\ executions = [r \in Replicas |-> [i \in Ids |-> "none"]]
  /\ settled = [r \in Replicas |-> [i \in Ids |-> "none"]]
  /\ saves = [r \in Replicas |-> <<>>]
  /\ stored = [i \in Ids |-> None]
  /\ created = {} /\ ended = {}
  /\ edits = 0 /\ restarts = 0

Work(r, i) == Fire(r, i) \/ FireBusy(r, i) \/ Finish(r, i) \/ Settle(r, i)

Requests(r, i) ==
  \/ \E enabled \in BOOLEAN : Create(r, i, enabled) \/ Update(r, i, enabled)
  \/ Remove(r, i) \/ RunNow(r, i)

Next ==
  \E r \in Replicas :
    \/ \E i \in Ids : Requests(r, i) \/ Work(r, i)
    \/ SaveApplies(r) \/ SaveFails(r) \/ Restart(r)

Spec == Init /\ [][Next]_vars

\* Timers fire, runs end (every agent call has a deadline), saves are tried.
Fairness ==
  \A r \in Replicas :
    /\ WF_vars(SaveApplies(r) \/ SaveFails(r))
    /\ \A i \in Ids : WF_vars(Fire(r, i) \/ FireBusy(r, i))
                      /\ WF_vars(Finish(r, i)) /\ WF_vars(Settle(r, i))

FairSpec == Spec /\ Fairness

-----------------------------------------------------------------------------
(* Properties. *)

TypeOK ==
  /\ schedules \in [Replicas -> Collection]
  /\ timers \in [Replicas -> [Ids -> Refs]]
  /\ executions \in [Replicas -> [Ids -> Refs \cup {"manual"}]]
  /\ settled \in [Replicas -> [Ids -> Refs]]
  /\ saves \in [Replicas -> Seq(Collection)]
  /\ stored \in Collection
  /\ created \subseteq Ids /\ ended \subseteq Ids
  /\ edits \in 0 .. MaxEdits /\ restarts \in 0 .. MaxRestarts

\* An enabled schedule is never forgotten: its timer is armed, or a run that
\* its timer started will arm it, whatever edits and manual runs happen
\* between.
ArmedOrRunning ==
  \A r \in Replicas, i \in Ids :
    Has(r, i) /\ schedules[r][i].enabled =>
      "current" \in {timers[r][i], executions[r][i], settled[r][i]}

\* A timer never fires for a schedule that was removed, disabled or edited
\* after it was armed, and never beside a run that will arm another.
NoStrayTimer ==
  \A r \in Replicas, i \in Ids : timers[r][i] # "none" =>
    /\ Has(r, i) /\ schedules[r][i].enabled /\ timers[r][i] = "current"
    /\ executions[r][i] # "current" /\ settled[r][i] # "current"

\* A schedule is run when it is due and only then: its timer is neither
\* forgotten nor left behind (schedule, clearTimer, runScheduled).
TimersRight == ArmedOrRunning /\ NoStrayTimer

\* The newest save that waits is a copy of what the replica has in memory:
\* no change is left out of the queue, and none is queued too early.
SavesUpToDate ==
  \A r \in Replicas : saves[r] # <<>> => saves[r][Len(saves[r])] = schedules[r]

\* A stored schedule leaves the table only because somebody removed it or
\* because it failed three times.
StoredUntilEnded ==
  [][\A i \in Ids : stored[i] # None /\ stored'[i] = None => i \in ended]_vars

\* An enabled schedule is run again and again, until it is disabled or
\* removed: the counter, the edits and the manual runs never stall it.
EnabledRuns ==
  \A r \in Replicas, i \in Ids :
    []<>(\/ ~Has(r, i)
         \/ ~schedules[r][i].enabled
         \/ executions[r][i] = "current")

=============================================================================
