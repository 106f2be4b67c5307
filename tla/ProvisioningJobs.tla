--------------------------- MODULE ProvisioningJobs ---------------------------
(***************************************************************************)
(* One job of ProvisioningJobsService and the event streams that follow    *)
(* it.  The replica that started the job runs it, keeps it in its map,     *)
(* stores every snapshot in Redis and publishes it there; no replica waits *)
(* for either.  A stream of any replica reads the job, then subscribes; a  *)
(* published snapshot overwrites the map of the replica that receives it,  *)
(* the runner's own map included.                                          *)
(*                                                                         *)
(* Redis is on.  A snapshot is abstracted to its phase: 0 is "queued", a   *)
(* number above it a report of the task, End is complete or failed.        *)
(***************************************************************************)
EXTENDS Naturals, Sequences

CONSTANTS
  Replicas,     \* API processes
  Owner,        \* the one that started the job
  Streams,      \* event stream requests
  ReplicaOf,           \* the replica of each stream
  None,         \* no snapshot
  MaxReports,   \* bound on the reports of the task
  MaxBeats,     \* bound on heartbeats
  Crashes       \* may the owner stop?

JobsAssumption ==
  /\ Owner \in Replicas
  /\ ReplicaOf \in [Streams -> Replicas]
  /\ MaxReports \in Nat /\ MaxBeats \in Nat /\ Crashes \in BOOLEAN

End == MaxReports + 1
Snapshot == 0 .. End

NoneAssumption == None \notin Snapshot

VARIABLES
  run,         \* the task on the owner
  reported,    \* how many reports it made
  beats,       \* heartbeats so far
  copy,        \* the map jobs of each replica
  commands,    \* the SETs on their way to Redis, in order
  stored,      \* what Redis holds for the job
  publishes,   \* the PUBLISHes on their way, each sent after its SET
  inbox,       \* messages on their way to each stream's handler
  stream       \* the requests

jobVars == <<run, reported, beats, copy, commands>>
vars == <<jobVars, stored, publishes, inbox, stream>>

StreamState == [pc : {"idle", "asked", "found", "subscribing", "listening", "off"},
                read : Snapshot \cup {None},
                ending : BOOLEAN,    \* an end was written, cleanup in 50 ms
                closed : BOOLEAN]

Registered(s) == stream[s].pc \in {"subscribing", "listening"}

\* A listener writes the event; after an end it schedules the cleanup.
Hear(state, snapshot) ==
  [state EXCEPT !.ending = @ \/ (snapshot = End /\ ~state.closed)]

\* setJson and publish: nothing is awaited, the two orders are kept.
Persist(snapshot) == commands' = Append(commands, snapshot)

-----------------------------------------------------------------------------
(* The job, on its owner. *)

Alive == run # "crashed"

\* update(): the patch over the copy at hand, which an echo may have set back.
Update(snapshot) ==
  /\ copy' = [copy EXCEPT ![Owner] = snapshot]
  /\ Persist(snapshot)
  /\ stream' = [s \in Streams |->
       IF ReplicaOf[s] = Owner /\ Registered(s) THEN Hear(stream[s], snapshot) ELSE stream[s]]

Start ==
  /\ run = "none"
  /\ run' = "running"
  /\ copy' = [copy EXCEPT ![Owner] = 0]
  /\ Persist(0)
  /\ UNCHANGED <<reported, beats, stored, publishes, inbox, stream>>

Report ==
  /\ run = "running" /\ reported < MaxReports
  /\ reported' = reported + 1
  /\ Update(reported + 1)
  /\ UNCHANGED <<run, beats, stored, publishes, inbox>>

\* Seeded fault: the interval is never cleared, and looks at nothing.
Heartbeat_AfterEnd ==
  /\ run \in {"running", "done"} /\ reported > 0 /\ beats < MaxBeats
  /\ beats' = beats + 1
  /\ Update(IF copy[Owner] \in {End, None} THEN reported ELSE copy[Owner])
  /\ UNCHANGED <<run, reported, stored, publishes, inbox>>

\* The interval of 15 s, while the copy at hand says running.
Heartbeat ==
  /\ run = "running" /\ reported > 0 /\ beats < MaxBeats
  /\ copy[Owner] \in 1 .. MaxReports
  /\ beats' = beats + 1
  /\ Update(copy[Owner])
  /\ UNCHANGED <<run, reported, stored, publishes, inbox>>

\* The task returns or throws: the last update, then the interval is cleared.
Finish ==
  /\ run = "running" /\ reported > 0
  /\ run' = "done"
  /\ Update(End)
  /\ UNCHANGED <<reported, beats, stored, publishes, inbox>>

\* An hour is longer than any message or request takes.
AnHourPasses ==
  /\ run \notin {"none", "running"}
  /\ commands = <<>> /\ publishes = <<>>
  /\ \A s \in Streams : inbox[s] = <<>> /\ stream[s].pc \in {"idle", "listening", "off"}

\* An hour later the owner forgets the job and its local listeners.
CleanUp ==
  /\ run = "done" /\ AnHourPasses
  /\ run' = "forgotten"
  /\ copy' = [copy EXCEPT ![Owner] = None]
  /\ UNCHANGED <<reported, beats, commands, stored, publishes, inbox, stream>>

\* The owner stops: its map, what it had not sent and its streams are gone.
Crash ==
  /\ Crashes /\ Alive /\ run # "none"
  /\ run' = "crashed"
  /\ copy' = [copy EXCEPT ![Owner] = None]
  /\ commands' = <<>> /\ publishes' = <<>>
  /\ stream' = [s \in Streams |-> IF ReplicaOf[s] = Owner /\ stream[s].pc # "idle"
       THEN [stream[s] EXCEPT !.pc = "off", !.closed = TRUE] ELSE stream[s]]
  /\ inbox' = [s \in Streams |-> IF ReplicaOf[s] = Owner THEN <<>> ELSE inbox[s]]
  /\ UNCHANGED <<reported, beats, stored>>

-----------------------------------------------------------------------------
(* Redis. *)

\* Seeded fault: snapshots overtake one another on the way.
SetApplies_AnyOrder ==
  \E i \in 1 .. Len(commands) :
    /\ stored' = commands[i]
    /\ publishes' = Append(publishes, commands[i])
    /\ commands' = SubSeq(commands, 1, i - 1) \o SubSeq(commands, i + 1, Len(commands))
    /\ UNCHANGED <<run, reported, beats, copy, inbox, stream>>

SetApplies ==
  /\ commands # <<>>
  /\ stored' = Head(commands)
  /\ publishes' = Append(publishes, Head(commands))
  /\ commands' = Tail(commands)
  /\ UNCHANGED <<run, reported, beats, copy, inbox, stream>>

\* Seeded fault: the end is stored and not published.
PublishApplies_NoEnd ==
  /\ publishes # <<>>
  /\ inbox' = [s \in Streams |->
       IF stream[s].pc = "listening" /\ Head(publishes) # End
       THEN Append(inbox[s], Head(publishes)) ELSE inbox[s]]
  /\ publishes' = Tail(publishes)
  /\ UNCHANGED <<jobVars, stored, stream>>

PublishApplies ==
  /\ publishes # <<>>
  /\ inbox' = [s \in Streams |->
       IF stream[s].pc = "listening" THEN Append(inbox[s], Head(publishes)) ELSE inbox[s]]
  /\ publishes' = Tail(publishes)
  /\ UNCHANGED <<jobVars, stored, stream>>

\* The key lives one hour after the last SET; heartbeats renew it.
Expire ==
  /\ AnHourPasses /\ stored # None
  /\ stored' = None
  /\ UNCHANGED <<jobVars, publishes, inbox, stream>>

-----------------------------------------------------------------------------
(* Streams. *)

\* findForUser: the map of the replica first, without asking anybody.
Open(s) ==
  /\ stream[s].pc = "idle" /\ run # "none"
  /\ ReplicaOf[s] = Owner => Alive
  /\ stream' = [stream EXCEPT
       ![s] = [@ EXCEPT !.read = copy[ReplicaOf[s]],
       !.pc = IF copy[ReplicaOf[s]] = None THEN "asked" ELSE "found"]]
  /\ UNCHANGED <<jobVars, stored, publishes, inbox>>

\* Redis answers; a job that nobody knows ends the stream.
Answer(s) ==
  /\ stream[s].pc = "asked"
  /\ stream' = [stream EXCEPT
       ![s] = [@ EXCEPT !.read = stored,
       !.pc = IF stored = None THEN "off" ELSE "found",
       !.closed = (stored = None)]]
  /\ UNCHANGED <<jobVars, stored, publishes, inbox>>

\* subscribe(): the local listener, the job as it was read, then Redis.
Register(s) ==
  /\ stream[s].pc = "found"
  /\ stream' = [stream EXCEPT ![s] = [Hear(@, @.read) EXCEPT !.pc = "subscribing"]]
  /\ UNCHANGED <<jobVars, stored, publishes, inbox>>

Subscribed(s) ==
  /\ stream[s].pc = "subscribing"
  /\ stream' = [stream EXCEPT ![s].pc = "listening"]
  /\ UNCHANGED <<jobVars, stored, publishes, inbox>>

\* The handler: the map of this replica is overwritten, then the listener.
Deliver(s) ==
  /\ inbox[s] # <<>>
  /\ inbox' = [inbox EXCEPT ![s] = Tail(@)]
  /\ IF stream[s].pc = "listening"
     THEN /\ copy' = [copy EXCEPT ![ReplicaOf[s]] = Head(inbox[s])]
          /\ stream' = [stream EXCEPT ![s] = Hear(@, Head(inbox[s]))]
     ELSE UNCHANGED <<copy, stream>>
  /\ UNCHANGED <<run, reported, beats, commands, stored, publishes>>

\* cleanup(), 50 ms after an end or when the client goes: once only, and it
\* can unsubscribe only what subscribe() has already returned.
Close(s) ==
  /\ ~stream[s].closed
  /\ stream[s].ending \/ stream[s].pc = "listening"
  /\ stream' = [stream EXCEPT ![s] = [@ EXCEPT !.closed = TRUE,
       !.pc = IF @ = "listening" THEN "off" ELSE @]]
  /\ UNCHANGED <<jobVars, stored, publishes, inbox>>

Init ==
  /\ run = "none" /\ reported = 0 /\ beats = 0
  /\ copy = [r \in Replicas |-> None]
  /\ commands = <<>> /\ stored = None /\ publishes = <<>>
  /\ inbox = [s \in Streams |-> <<>>]
  /\ stream = [s \in Streams |->
       [pc |-> "idle", read |-> None, ending |-> FALSE, closed |-> FALSE]]

Job == Start \/ Report \/ Heartbeat \/ Finish \/ CleanUp \/ Crash
Redis == SetApplies \/ PublishApplies \/ Expire
Follow(s) == Open(s) \/ Answer(s) \/ Register(s) \/ Subscribed(s) \/ Deliver(s) \/ Close(s)

Next == Job \/ Redis \/ \E s \in Streams : Follow(s)

Spec == Init /\ [][Next]_vars

\* The task ends (every agent call has a deadline), Redis answers and passes
\* messages on, the timer of an end fires.  Clients need not leave.
Fairness ==
  /\ WF_vars(Report) /\ WF_vars(Finish)
  /\ WF_vars(SetApplies) /\ WF_vars(PublishApplies)
  /\ \A s \in Streams :
       /\ WF_vars(Answer(s)) /\ WF_vars(Register(s)) /\ WF_vars(Subscribed(s))
       /\ WF_vars(Deliver(s)) /\ WF_vars(stream[s].ending /\ Close(s))

FairSpec == Spec /\ Fairness

-----------------------------------------------------------------------------
(* Properties. *)

TypeOK ==
  /\ run \in {"none", "running", "done", "forgotten", "crashed"}
  /\ reported \in 0 .. MaxReports /\ beats \in 0 .. MaxBeats
  /\ copy \in [Replicas -> Snapshot \cup {None}]
  /\ commands \in Seq(Snapshot) /\ publishes \in Seq(Snapshot)
  /\ stored \in Snapshot \cup {None}
  /\ inbox \in [Streams -> Seq(Snapshot)]
  /\ stream \in [Streams -> StreamState]

\* What Redis says of a finished job never goes back to running, although
\* snapshots are not awaited, echoes set the owner's copy back and heartbeats
\* publish whatever that copy says.
EndSticks ==
  [][stored = End => stored' \in {End, None}]_vars

\* A stream that listened before the job ended gets the end, on whichever
\* replica it is, unless the owner stops.
EndDelivered ==
  \A s \in Streams :
    stream[s].pc = "listening" /\ run = "running"
      ~> stream[s].closed \/ run = "crashed"

\* "SSE and WebSocket clients may reconnect to any healthy replica": a stream
\* that found a job whose end Redis already holds is told of the end.
ReconnectedStreamsEnd ==
  \A s \in Streams :
    stream[s].pc = "found" /\ stored = End
      ~> stream[s].closed \/ run = "crashed"

=============================================================================
