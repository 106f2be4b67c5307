--------------------------- MODULE WebhookDispatch ----------------------------
(***************************************************************************)
(* WebhooksService over a database.  A dispatch lists the targets once and *)
(* sends to those that match one after the other; each attempt, good or    *)
(* bad, is recorded before the next one, and a record that the table       *)
(* refuses ends the dispatch and fails its caller.  Targets are created    *)
(* and deleted meanwhile.  Every start-up inserts the targets of the file  *)
(* that the JSON mode has left behind.                                     *)
(***************************************************************************)
EXTENDS FiniteSets, Naturals

CONSTANTS
  Targets,      \* ids of targets, none of them ever used twice
  Filed,        \* those that the file has
  Servers,      \* ids of servers
  Dispatches,   \* dispatches
  None,         \* undefined
  MaxRestarts   \* bound on restarts

WebhooksAssumption ==
  /\ Filed \subseteq Targets /\ Servers # {} /\ None \notin Targets \cup Servers
  /\ MaxRestarts \in Nat

VARIABLES
  file,       \* webhook-targets.json
  targets,    \* the table webhook_targets: what the ids stand for
  log,        \* the table webhook_events: attempts, by dispatch and target
  dispatch,   \* the dispatches
  refused,    \* history: dispatches whose record was refused
  gone,       \* history: targets deleted before a dispatch began
  lasting,    \* history: targets there since a dispatch began
  used,       \* history: ids given out
  restarts

history == <<refused, gone, lasting, used>>
vars == <<file, targets, log, dispatch, history, restarts>>

\* A target belongs to the panel (server None) or to a server, and names events.
Target == [server : Servers \cup {None}, events : {{"*"}, {"server.down"}}, enabled : BOOLEAN]
Existing == {t \in Targets : targets[t] # None}

\* eventNames(): older names under which a target may wait for an event.
EventNames(type) == {type} \cup IF type = "server.deleted" THEN {"server.down"} ELSE {}

\* What a call asks for: a test names its target, a panel event its scope.
Call == {c \in [type : {"server.deleted", "webhook.test"}, server : Servers \cup {None},
                only : Targets \cup {None}, scope : {"admin", None}] :
           (c.only # None) <=> (c.type = "webhook.test" /\ c.scope = None)}

\* The filters of dispatch().
Matches(t, c) ==
  /\ targets[t].enabled
  /\ c.only # None => t = c.only
  /\ c.scope = "admin" => targets[t].server = None
  /\ targets[t].server # None => targets[t].server = c.server
  /\ c.only # None \/ targets[t].events \cap (EventNames(c.type) \cup {"*"}) # {}

Idle == [pc |-> "idle", call |-> None, left |-> {}, at |-> None]
At(d, pc) == dispatch[d].pc = pc

-----------------------------------------------------------------------------
(* Targets. *)

CreateTarget(t, target) ==
  /\ t \notin used
  /\ used' = used \cup {t}
  /\ targets' = [targets EXCEPT ![t] = target]
  /\ UNCHANGED <<file, log, dispatch, refused, gone, lasting, restarts>>

DeleteTarget(t) ==
  /\ t \in Existing
  /\ targets' = [targets EXCEPT ![t] = None]
  /\ lasting' = [d \in Dispatches |-> lasting[d] \ {t}]
  /\ UNCHANGED <<file, log, dispatch, refused, gone, used, restarts>>

-----------------------------------------------------------------------------
(* Dispatches. *)

Dispatch(d, c) ==
  /\ At(d, "idle")
  /\ dispatch' = [dispatch EXCEPT ![d] = [Idle EXCEPT !.pc = "listing", !.call = c]]
  /\ gone' = [gone EXCEPT ![d] = used \ Existing]
  /\ lasting' = [lasting EXCEPT ![d] = {t \in Existing : Matches(t, c)}]
  /\ UNCHANGED <<file, targets, log, refused, used, restarts>>

\* listTargetsFor() and the filters.
List(d) ==
  /\ At(d, "listing")
  /\ dispatch' = [dispatch EXCEPT ![d] = [@ EXCEPT !.pc = "sending",
                                  !.left = {t \in Existing : Matches(t, dispatch[d].call)}]]
  /\ UNCHANGED <<file, targets, log, history, restarts>>

\* Seeded fault: a target that does not answer ends the dispatch.
Send_Throws(d, t) ==
  /\ At(d, "sending") /\ t \in dispatch[d].left
  /\ \/ dispatch' = [dispatch EXCEPT ![d] = [@ EXCEPT !.pc = "recording", !.at = t]]
     \/ dispatch' = [dispatch EXCEPT ![d] = [@ EXCEPT !.pc = "done", !.left = {}]]
  /\ UNCHANGED <<file, targets, log, history, restarts>>

\* send(): the request, answered or not; a failure is only recorded.
Send(d, t) ==
  /\ At(d, "sending") /\ t \in dispatch[d].left
  /\ dispatch' = [dispatch EXCEPT ![d] = [@ EXCEPT !.pc = "recording", !.at = t]]
  /\ UNCHANGED <<file, targets, log, history, restarts>>

\* recordEvent(): then the next target.
RecordEvent(d) ==
  /\ At(d, "recording")
  /\ log' = log \cup {<<d, dispatch[d].at>>}
  /\ dispatch' = [dispatch EXCEPT ![d] = [@ EXCEPT !.pc = "sending", !.left = dispatch[d].left \ {dispatch[d].at}, !.at = None]]
  /\ UNCHANGED <<file, targets, history, restarts>>

\* The INSERT fails: the caller gets the error, the other targets nothing.
RefuseEvent(d) ==
  /\ At(d, "recording")
  /\ dispatch' = [dispatch EXCEPT ![d] = [Idle EXCEPT !.pc = "failed"]]
  /\ refused' = refused \cup {d}
  /\ UNCHANGED <<file, targets, log, gone, lasting, used, restarts>>

Return(d) ==
  /\ At(d, "sending") /\ dispatch[d].left = {}
  /\ dispatch' = [dispatch EXCEPT ![d].pc = "done"]
  /\ UNCHANGED <<file, targets, log, history, restarts>>

\* A replica starts: onModuleInit() inserts the targets of its file that the
\* table does not have.  Its dispatches are gone.
Restart(lost) ==
  /\ restarts < MaxRestarts /\ restarts' = restarts + 1
  /\ targets' = [t \in Targets |-> IF t \in Filed THEN file[t] ELSE targets[t]]
  /\ dispatch' = [d \in Dispatches |->
       IF d \in lost /\ dispatch[d].pc \notin {"idle", "done", "failed"} THEN [Idle EXCEPT !.pc = "failed"] ELSE dispatch[d]]
  /\ refused' = refused \cup {d \in lost : dispatch'[d] # dispatch[d]}
  /\ gone' = [d \in Dispatches |-> gone[d] \ Filed]
  /\ UNCHANGED <<file, log, lasting, used>>

-----------------------------------------------------------------------------
Init ==
  /\ file \in [Filed -> Target]
  /\ targets = [t \in Targets |-> IF t \in Filed THEN file[t] ELSE None]
  /\ log = {}
  /\ dispatch = [d \in Dispatches |-> Idle]
  /\ refused = {}
  /\ gone = [d \in Dispatches |-> {}]
  /\ lasting = [d \in Dispatches |-> {}]
  /\ used = Filed
  /\ restarts = 0

Next ==
  \/ \E t \in Targets : DeleteTarget(t) \/ \E target \in Target : CreateTarget(t, target)
  \/ \E d \in Dispatches :
       \/ \E c \in Call : Dispatch(d, c)
       \/ \E t \in Targets : Send(d, t)
       \/ List(d) \/ RecordEvent(d) \/ RefuseEvent(d) \/ Return(d)
  \/ \E lost \in SUBSET Dispatches : Restart(lost)

Spec == Init /\ [][Next]_vars

-----------------------------------------------------------------------------
(* Properties. *)

TypeOK ==
  /\ targets \in [Targets -> Target \cup {None}] /\ Existing \subseteq used
  /\ log \subseteq Dispatches \X Targets
  /\ \A d \in Dispatches :
       /\ dispatch[d].pc \in {"idle", "listing", "sending", "recording", "done", "failed"}
       /\ dispatch[d].at # None => dispatch[d].at \in dispatch[d].left

Tried(d) == {t \in Targets : <<d, t>> \in log}

\* A dispatch that returns has tried every target that waited for its event
\* from its beginning to its end, whether the others answered or not, and none
\* that was deleted before it began and is not in the file; and it returns
\* unless the log refused a record or its replica died.
TriedExactly ==
  \A d \in Dispatches :
    /\ At(d, "done") => lasting[d] \subseteq Tried(d)
    /\ Tried(d) \cap gone[d] = {}
    /\ At(d, "failed") => d \in refused
===============================================================================
