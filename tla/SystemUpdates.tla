----------------------------- MODULE SystemUpdates -----------------------------
(***************************************************************************)
(* An update of the panel: SystemUpdateService downloads a release, writes *)
(* a job and hands it to the supervisor deploy/apply-native-update.sh,     *)
(* which switches the release, restarts the services, checks them and      *)
(* leaves a result, or rolls back.  The API learns the end from the result *)
(* file, from its own version after a restart, or not within an hour.      *)
(*                                                                         *)
(* One API process on the updater's host, over a database.  State changes  *)
(* in memory first; persistState writes later whatever the memory is then, *)
(* and every status request replaces the memory by the row it has read.    *)
(***************************************************************************)
EXTENDS Naturals

CONSTANTS
  Managed,      \* components of this host: "api" and "frontend"
  Automatic,    \* is there a deployment command?  (a subset of BOOLEAN)
  Polls,        \* status requests
  None,
  MaxVersion,   \* bound on releases
  MaxDeploys,   \* bound on deployments
  MaxFaults     \* bound on what goes wrong

UpdatesAssumption ==
  /\ "api" \in Managed /\ Managed \subseteq {"api", "frontend"}
  /\ Automatic \subseteq BOOLEAN
  /\ MaxVersion \in Nat /\ MaxDeploys \in Nat /\ MaxFaults \in Nat

Version == 0 .. MaxVersion
Off == [pc |-> "off", row |-> None, target |-> 0]
Busy == {"staging", "staged", "applying"}
State == [status : {"idle", "completed", "failed"} \cup Busy, target : Version]

VARIABLES
  latest,      \* the newest release
  memory,      \* this.state
  row,         \* ... as it is stored
  poll,        \* what each status request is about to do, and has read
  deploy,      \* deploy(), under its lock
  job, result, \* current-job.json and result.json
  script,      \* the supervisor
  release,     \* the release that current links to, for each component
  running,     \* the release that each service runs
  applied,     \* history: versions that were switched to
  deploys, faults

requests == <<memory, row, poll, deploy>>
host == <<job, result, script, release, running, applied>>
bounds == <<latest, deploys, faults>>
vars == <<requests, host, bounds>>

Ended == [pc |-> "off", target |-> 0, old |-> [c \in Managed |-> 0]]

Fault == faults < MaxFaults /\ faults' = faults + 1

-----------------------------------------------------------------------------
(* The state and its reconciliation. *)

\* Seeded fault: a result counts whatever versions it is about.
External_AnyTarget(state) ==
  IF result = None \/ state.status \notin {"staged", "applying"}
  THEN state ELSE [state EXCEPT !.status = result.status]

\* reconcileExternalResult: a result of these target versions ends the update.
External(state) ==
  IF result = None \/ state.status \notin {"staged", "applying"}
  THEN state
  ELSE IF result.target = state.target THEN [state EXCEPT !.status = result.status]
  ELSE state

\* reconcileState: the result; the versions that run; the hour.
Reconciled(state, versions) ==
  LET after == External(state)
  IN IF after.status \notin {"staged", "applying"} THEN {after}
     ELSE IF \A c \in Managed : versions[c] >= after.target
     THEN {[after EXCEPT !.status = "completed"]}
     ELSE {after} \cup (IF after.status = "applying" THEN {[after EXCEPT !.status = "failed"]} ELSE {})

\* refreshSharedState, from the row it has read; a change is persisted.
Refresh(read) ==
  \E state \in Reconciled(read, running) :
    /\ memory' = state
    /\ state.status = "failed" /\ External(read).status = "applying" => faults < MaxFaults
    /\ faults' = faults +
         (IF state.status = "failed" /\ External(read).status = "applying" THEN 1 ELSE 0)

-----------------------------------------------------------------------------
(* status(). *)

PollReads(p) ==
  /\ poll[p].pc = "off"
  /\ poll' = [poll EXCEPT ![p] = [Off EXCEPT !.pc = "read", !.row = row]]
  /\ UNCHANGED <<memory, row, deploy, host, bounds>>

PollRefreshes(p) ==
  /\ poll[p].pc = "read"
  /\ Refresh(poll[p].row)
  /\ poll' = [poll EXCEPT ![p] =
       [Off EXCEPT !.pc = IF memory' = poll[p].row THEN "off" ELSE "persist"]]
  /\ UNCHANGED <<row, deploy, host, latest, deploys>>

PollPersists(p) ==
  /\ poll[p].pc = "persist"
  /\ row' = memory
  /\ poll' = [poll EXCEPT ![p].pc = "off"]
  /\ UNCHANGED <<memory, deploy, host, bounds>>

-----------------------------------------------------------------------------
(* deploy(). *)

At(pc) == deploy.pc = pc
Go(pc) == deploy' = [deploy EXCEPT !.pc = pc]
Done == deploy' = Off

DeployReads ==
  /\ At("off") /\ deploys < MaxDeploys
  /\ deploys' = deploys + 1
  /\ deploy' = [Off EXCEPT !.pc = "read", !.row = row]
  /\ UNCHANGED <<memory, row, poll, host, latest, faults>>

DeployRefreshes ==
  /\ At("read")
  /\ Refresh(deploy.row)
  /\ deploy' = [Off EXCEPT !.pc = IF memory' = deploy.row THEN "select" ELSE "persist"]
  /\ UNCHANGED <<row, poll, host, latest, deploys>>

\* Refused while an update is in progress or when nothing is newer.
Select ==
  /\ At("select")
  /\ IF memory.status \in Busy \/ \A c \in Managed : running[c] >= latest
     THEN Done /\ UNCHANGED memory
     ELSE /\ memory' = [status |-> "staging", target |-> latest]
          /\ deploy' = [deploy EXCEPT !.pc = "persist staging", !.target = latest]
  /\ UNCHANGED <<row, poll, host, bounds>>

\* persistState(), wherever deploy() awaits it.
DeployPersists ==
  /\ deploy.pc \in {"persist", "persist staging", "persist staged", "persist applying", "persist failed"}
  /\ row' = memory
  /\ CASE At("persist") -> Go("select")
       [] At("persist staging") -> Go("download")
       [] At("persist staged") -> Go("job")
       [] At("persist applying") -> Go("unlink")
       [] At("persist failed") -> Done
  /\ UNCHANGED <<memory, poll, host, bounds>>

\* stage(): downloads, checksums, sizes; or markFailed.
Download ==
  /\ At("download")
  /\ \/ /\ memory' = [memory EXCEPT !.status = "staged"]
        /\ Go("persist staged") /\ UNCHANGED faults
     \/ /\ Fault
        /\ memory' = [memory EXCEPT !.status = "failed"] /\ Go("persist failed")
  /\ UNCHANGED <<row, poll, host, latest, deploys>>

WriteApplyJob ==
  /\ At("job")
  /\ job' = deploy.target
  /\ \/ /\ TRUE \in Automatic
        /\ memory' = [memory EXCEPT !.status = "applying"]
        /\ Go("persist applying")
     \/ FALSE \in Automatic /\ Done /\ UNCHANGED memory
  /\ UNCHANGED <<row, poll, result, script, release, running, applied, bounds>>

\* The rest of scheduleApply: the old result goes, a timer is set.
UnlinkResult ==
  /\ At("unlink")
  /\ result' = None
  /\ Go("spawn")
  /\ UNCHANGED <<memory, row, poll, job, script, release, running, applied, bounds>>

\* systemctl start: a unit that runs already is not started again.  A command
\* that fails is markFailed.
Spawn ==
  /\ At("spawn")
  /\ \/ /\ script' = IF script.pc = "off" THEN [script EXCEPT !.pc = "start"] ELSE script
        /\ Done /\ UNCHANGED <<memory, faults>>
     \/ /\ Fault
        /\ memory' = [memory EXCEPT !.status = "failed"] /\ Go("persist failed")
        /\ UNCHANGED script
  /\ UNCHANGED <<row, poll, job, result, release, running, applied, latest, deploys>>

-----------------------------------------------------------------------------
(* apply-native-update.sh. *)

Step(pc) == script.pc = pc
Goto(pc) == script' = [script EXCEPT !.pc = pc]
hostIdle == <<job, result, release, running, applied>>

\* An administrator starts the unit, for an update that was staged.
StartByHand ==
  /\ Step("off") /\ job # 0
  /\ Goto("start")
  /\ UNCHANGED <<requests, hostIdle, bounds>>

ReadJob ==
  /\ Step("start")
  /\ script' = [pc |-> "build", target |-> job, old |-> release]
  /\ UNCHANGED <<requests, hostIdle, bounds>>

Build ==
  /\ Step("build")
  /\ \/ Goto("switch api") /\ UNCHANGED faults
     \/ Fault /\ Goto("report failed")
  /\ UNCHANGED <<requests, hostIdle, latest, deploys>>

\* The links are moved one after the other; "activated" is set behind both,
\* so a fault between them is not rolled back.
Switch(c, at, next) ==
  /\ Step(at)
  /\ \/ /\ release' = IF c \in Managed THEN [release EXCEPT ![c] = script.target] ELSE release
        /\ applied' = applied \cup {script.target}
        /\ Goto(next) /\ UNCHANGED faults
     \/ Fault /\ Goto("report failed") /\ UNCHANGED <<release, applied>>
  /\ UNCHANGED <<requests, job, result, running, latest, deploys>>

\* The API starts: requests died with the old process, the state is loaded
\* and reconciled with the versions that run now (init persists it).
ApiStarts(versions) ==
  /\ running' = versions
  /\ \E state \in Reconciled(row, versions) :
       /\ state.status = "failed" => External(row).status # "applying"
       /\ memory' = state /\ row' = state
  /\ poll' = [p \in Polls |-> Off]
  /\ deploy' = [Off EXCEPT !.pc = IF At("off") THEN "off" ELSE "locked"]

RestartApi ==
  /\ Step("restart api")
  /\ ApiStarts([running EXCEPT !["api"] = release["api"]])
  /\ Goto("check api")
  /\ UNCHANGED <<job, result, release, applied, bounds>>

Check(at, next) ==
  /\ Step(at)
  /\ \/ Goto(next) /\ UNCHANGED faults
     \/ Fault /\ Goto("rollback")
  /\ UNCHANGED <<requests, hostIdle, latest, deploys>>

RestartFrontend ==
  /\ Step("restart frontend")
  /\ running' = [c \in Managed |-> IF c = "frontend" THEN release[c] ELSE running[c]]
  /\ Goto("check frontend")
  /\ UNCHANGED <<requests, job, result, release, applied, bounds>>

\* rollback(): the links, then the services.
Rollback ==
  /\ Step("rollback")
  /\ release' = script.old
  /\ Goto("restart old")
  /\ UNCHANGED <<requests, job, result, running, applied, bounds>>

RestartOld ==
  /\ Step("restart old")
  /\ ApiStarts(release)
  /\ Goto("report failed")
  /\ UNCHANGED <<job, result, release, applied, bounds>>

Report(at, status) ==
  /\ Step(at)
  /\ result' = [status |-> status, target |-> script.target]
  /\ script' = Ended
  /\ UNCHANGED <<requests, job, release, running, applied, bounds>>

Supervisor ==
  \/ ReadJob \/ Build
  \/ Switch("api", "switch api", "switch frontend")
  \/ Switch("frontend", "switch frontend", "restart api")
  \/ RestartApi \/ Check("check api", "restart frontend")
  \/ RestartFrontend \/ Check("check frontend", "report completed")
  \/ Rollback \/ RestartOld
  \/ Report("report completed", "completed") \/ Report("report failed", "failed")

-----------------------------------------------------------------------------

\* The API stops and starts on its own account.
Crash ==
  /\ Fault
  /\ ApiStarts([running EXCEPT !["api"] = release["api"]])
  /\ UNCHANGED <<job, result, script, release, applied, latest, deploys>>

\* The lock of a deployment that died lasts half an hour.
LockExpires ==
  /\ At("locked")
  /\ Done
  /\ UNCHANGED <<memory, row, poll, host, bounds>>

Publish ==
  /\ latest < MaxVersion
  /\ latest' = latest + 1
  /\ UNCHANGED <<requests, host, deploys, faults>>

Init ==
  /\ latest = 0
  /\ memory = [status |-> "idle", target |-> 0] /\ row = memory
  /\ poll = [p \in Polls |-> Off]
  /\ deploy = Off
  /\ job = 0 /\ result = None
  /\ script = Ended
  /\ release = [c \in Managed |-> 0] /\ running = release
  /\ applied = {0} /\ deploys = 0 /\ faults = 0

Deploy ==
  \/ DeployReads \/ DeployRefreshes \/ Select \/ DeployPersists \/ Download
  \/ WriteApplyJob \/ UnlinkResult \/ Spawn \/ LockExpires

Status(p) == PollReads(p) \/ PollRefreshes(p) \/ PollPersists(p)

Next ==
  \/ Deploy \/ Supervisor \/ StartByHand \/ Crash \/ Publish
  \/ \E p \in Polls : Status(p)

Spec == Init /\ [][Next]_vars

-----------------------------------------------------------------------------
(* Properties. *)

TypeOK ==
  /\ {memory, row} \subseteq State
  /\ job \in Version /\ latest \in Version
  /\ result \in {None} \cup [status : {"completed", "failed"}, target : Version]
  /\ release \in [Managed -> Version] /\ running \in [Managed -> Version]
  /\ applied \subseteq Version
  /\ script.target \in Version /\ deploy.target \in Version
  /\ deploys \in 0 .. MaxDeploys /\ faults \in 0 .. MaxFaults

\* When an update is reported as completed, it or a later one was switched
\* to, whatever an earlier update's result, a crash or a state that a request
\* set back to an older row left behind.
CompletedWasApplied ==
  \A state \in {memory, row} : state.status = "completed" =>
    \E version \in applied : version >= state.target

\* "native panel rollout failed and was rolled back": an update that the
\* supervisor rolled back is not on record as completed.
RolledBackIsNotCompleted ==
  result # None => ~(/\ result.status = "failed" /\ script.pc = "off"
                     /\ row.status = "completed" /\ row.target = result.target
                     /\ \A c \in Managed : running[c] < result.target)

=============================================================================
