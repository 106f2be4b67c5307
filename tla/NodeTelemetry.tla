----------------------------- MODULE NodeTelemetry -----------------------------
(***************************************************************************)
(* What the panel knows of its nodes: the polls of NodeStatsService with   *)
(* the history kept of each node, the polls of CrowdSecTelemetryService,   *)
(* which run only while somebody watches, and the update of an agent       *)
(* (AgentUpdateService).  Nodes are registered and removed, and viewers    *)
(* come and go, while polls wait for answers.                              *)
(***************************************************************************)
EXTENDS Integers, Sequences, FiniteSetsExt

CONSTANTS
  Nodes, Viewers,
  Window,      \* AGENT_STATS_SAMPLE_WINDOW
  Release,     \* the version of the latest agent release
  None,
  MaxAnswers, MaxEdits

NodeTelemetryAssumption == {Window, Release} \subseteq Nat \ {0} /\ {MaxAnswers, MaxEdits} \subseteq Nat

\* What a node may say of its alerts; no table of these is None.
Statuses == {"active", "unavailable"}
NoAlertsAssumption == \A nodes \in SUBSET Nodes : None \notin [nodes -> Statuses \cup {None}]

VARIABLES
  registered,  \* AgentsService: the nodes
  flight,      \* refreshPromise of NodeStatsService: whom it asked, who answered what
  cache,       \* the last row of each node
  samples,     \* the window of answers of each node
  seen,        \* what each viewer was shown last, or None without a stream
  alerts,      \* refreshPromise and rows of CrowdSecTelemetryService
  timer,       \* ... and whether its timer runs
  watching,    \* what those who watch the alerts were shown last
  agent,       \* agents: version, what is staged, restart asked for by a request that waits
  log,         \* history: every answer of each node
  edits

vars == <<registered, flight, cache, samples, seen, alerts, timer, watching, agent, log, edits>>
statsVars == <<flight, cache, samples, seen, log>>
alertVars == <<alerts, timer, watching>>

Edit == edits < MaxEdits /\ edits' = edits + 1
Answers == FoldFunction(LAMBDA l, n : Len(l) + n, 0, log)

-----------------------------------------------------------------------------
(* NodeStatsService. *)

\* snapshot(): a row for every node of the registry, or that it connects (None).
Snapshot(rows, nodes) == [n \in nodes |-> rows[n]]
Asking(nodes) == [asked |-> nodes, rows |-> [n \in {} |-> None]]
Told(rows, n, row) == [m \in DOMAIN rows \cup {n} |-> IF m = n THEN row ELSE rows[m]]

\* refresh(): one poll at a time.
Refreshed == IF flight = None THEN Asking(registered) ELSE flight

\* The interval, list() and listFresh().
Poll ==
  /\ flight = None /\ Answers < MaxAnswers
  /\ flight' = Refreshed
  /\ UNCHANGED <<registered, cache, samples, seen, log, alertVars, agent, edits>>

\* Seeded fault: the run of equal samples is one too long.
Since_OneMore(h) ==
  LET last == h[Len(h)].healthy
      other == {i \in DOMAIN h : h[i].healthy # last}
  IN h[IF other = {} THEN 1 ELSE Max(other)].at
\* The loop of withAnalytics(): the first sample of the run that goes on.
Since(h) ==
  LET last == h[Len(h)].healthy
      other == {i \in DOMAIN h : h[i].healthy # last}
  IN h[IF other = {} THEN 1 ELSE Max(other) + 1].at

\* withAnalytics(): what is told of a node besides its answer.
Analysed(h) ==
  [at |-> h[Len(h)].at, healthy |-> h[Len(h)].healthy, checks |-> Len(h), since |-> Since(h),
   available |-> Len(SelectSeq(h, LAMBDA e : e.healthy))]

\* readLive(): one node answers, or does not.
Answer(n, healthy) ==
  /\ flight # None /\ n \in flight.asked \ DOMAIN flight.rows
  /\ LET e == [at |-> Len(log[n]) + 1, healthy |-> healthy]
         all == Append(samples[n], e)
         h == SubSeq(all, IF Len(all) > Window THEN 2 ELSE 1, Len(all))
     IN /\ log' = [log EXCEPT ![n] = Append(@, e)]
        /\ samples' = [samples EXCEPT ![n] = h]
        /\ flight' = [flight EXCEPT !.rows = Told(flight.rows, n, Analysed(h))]
  /\ UNCHANGED <<registered, cache, seen, alertVars, agent, edits>>

\* Promise.all(...).then: nodes that were not asked are forgotten, and every
\* viewer is shown the new rows.
EndPoll ==
  /\ flight # None /\ DOMAIN flight.rows = flight.asked
  /\ cache' = [n \in Nodes |-> IF n \in flight.asked THEN flight.rows[n] ELSE None]
  /\ samples' = [n \in Nodes |-> IF n \in flight.asked \/ cache[n] = None THEN samples[n] ELSE <<>>]
  /\ seen' = [v \in Viewers |-> IF seen[v] = None THEN None ELSE Snapshot(cache', registered)]
  /\ flight' = None
  /\ UNCHANGED <<registered, alertVars, agent, log, edits>>

\* subscribe(), and the function it returns.
Subscribe(v) ==
  /\ Edit /\ seen[v] = None /\ Answers < MaxAnswers
  /\ seen' = [seen EXCEPT ![v] = Snapshot(cache, registered)]
  /\ flight' = Refreshed
  /\ UNCHANGED <<registered, cache, samples, log, alertVars, agent>>

Unsubscribe(v) ==
  /\ seen[v] # None
  /\ seen' = [seen EXCEPT ![v] = None]
  /\ UNCHANGED <<registered, flight, cache, samples, log, alertVars, agent, edits>>

-----------------------------------------------------------------------------
(* CrowdSecTelemetryService. *)

Watchers == {v \in Viewers : watching[v] # None}

\* refresh(): by the timer, or for one who asks once (listFresh).
PollAlerts ==
  /\ IF timer THEN UNCHANGED edits ELSE Edit
  /\ alerts.flight = None
  /\ alerts' = [alerts EXCEPT !.flight = Asking(registered)]
  /\ UNCHANGED <<registered, statsVars, timer, watching, agent>>

\* readNode(): alerts, or why there are none.
AnswerAlerts(n, status) ==
  /\ alerts.flight # None /\ n \in alerts.flight.asked \ DOMAIN alerts.flight.rows
  /\ alerts' = [alerts EXCEPT !.flight = [alerts.flight EXCEPT !.rows = Told(alerts.flight.rows, n, status)]]
  /\ UNCHANGED <<registered, statsVars, timer, watching, agent, edits>>

EndAlerts ==
  /\ alerts.flight # None /\ DOMAIN alerts.flight.rows = alerts.flight.asked
  /\ alerts' = [flight |-> None,
                rows |-> [n \in Nodes |-> IF n \in alerts.flight.asked THEN alerts.flight.rows[n] ELSE None]]
  /\ watching' = [v \in Viewers |-> IF watching[v] = None THEN None ELSE Snapshot(alerts'.rows, registered)]
  /\ UNCHANGED <<registered, statsVars, timer, agent, edits>>

\* subscribe(): the first one starts a poll and the timer.
Watch(v) ==
  /\ Edit /\ watching[v] = None
  /\ watching' = [watching EXCEPT ![v] = Snapshot(alerts.rows, registered)]
  /\ IF Watchers = {}
     THEN /\ timer' = TRUE
          /\ alerts' = [alerts EXCEPT !.flight = IF alerts.flight = None THEN Asking(registered) ELSE alerts.flight]
     ELSE UNCHANGED <<timer, alerts>>
  /\ UNCHANGED <<registered, statsVars, agent>>

\* The last one stops the timer.
Unwatch(v) ==
  /\ watching[v] # None
  /\ watching' = [watching EXCEPT ![v] = None]
  /\ timer' = (timer /\ Watchers # {v})
  /\ UNCHANGED <<registered, statsVars, alerts, agent, edits>>

-----------------------------------------------------------------------------
(* AgentUpdateService. *)

\* apply(): the agent verifies and stages the artifact.
StageUpdate(n) ==
  /\ Edit /\ n \in registered
  /\ agent' = [agent EXCEPT ![n].staged = Release]
  /\ UNCHANGED <<registered, statsVars, alertVars>>

\* restart(): the status of the agent and the latest release are looked up ...
CheckRestart(n) ==
  /\ n \in registered /\ ~agent[n].checked
  /\ agent[n].staged # None /\ Release > agent[n].version
  /\ agent' = [agent EXCEPT ![n].checked = TRUE]
  /\ UNCHANGED <<registered, statsVars, alertVars, edits>>

\* ... and the agent asked to restart; it has what it staged, or nothing left to do.
Restart(n) ==
  /\ agent[n].checked
  /\ agent' = [agent EXCEPT ![n] = [version |-> IF agent[n].staged = None THEN agent[n].version ELSE agent[n].staged,
                                 staged |-> None, checked |-> FALSE]]
  /\ UNCHANGED <<registered, statsVars, alertVars, edits>>

-----------------------------------------------------------------------------

\* register() of a node that is new, and remove().
RegisterNode(n) ==
  /\ Edit /\ n \notin registered
  /\ registered' = registered \cup {n}
  /\ UNCHANGED <<statsVars, alertVars, agent>>

RemoveNode(n) ==
  /\ Edit /\ n \in registered
  /\ registered' = registered \ {n}
  /\ UNCHANGED <<statsVars, alertVars, agent>>

Init ==
  /\ registered = Nodes
  /\ flight = Asking(Nodes)
  /\ cache = [n \in Nodes |-> None] /\ samples = [n \in Nodes |-> <<>>]
  /\ seen = [v \in Viewers |-> None]
  /\ alerts = [flight |-> None, rows |-> [n \in Nodes |-> None]]
  /\ timer = FALSE /\ watching = [v \in Viewers |-> None]
  /\ agent = [n \in Nodes |-> [version |-> 0, staged |-> None, checked |-> FALSE]]
  /\ log = [n \in Nodes |-> <<>>] /\ edits = 0

Next ==
  \/ Poll \/ EndPoll \/ PollAlerts \/ EndAlerts
  \/ \E v \in Viewers : Subscribe(v) \/ Unsubscribe(v) \/ Watch(v) \/ Unwatch(v)
  \/ \E n \in Nodes :
       \/ \E healthy \in BOOLEAN : Answer(n, healthy)
       \/ \E status \in Statuses : AnswerAlerts(n, status)
       \/ StageUpdate(n) \/ CheckRestart(n) \/ Restart(n) \/ RegisterNode(n) \/ RemoveNode(n)

Spec == Init /\ [][Next]_vars

-----------------------------------------------------------------------------
(* Properties. *)

\* Windows are never longer than they may be.
TypeOK ==
  /\ registered \subseteq Nodes
  /\ \A n \in Nodes : Len(samples[n]) <= Window /\ (cache[n] # None => cache[n].checks \in 1..Window)
  /\ timer \in BOOLEAN /\ edits \in 0..MaxEdits

\* The status of a node is never said to be older than it is, nor younger than
\* the window shows (withAnalytics, refresh).
StatusSince ==
  \A n \in Nodes : LET r == cache[n] IN r # None =>
    /\ \A i \in r.since..r.at : log[n][i].healthy = r.healthy
    /\ r.since > 1 => (r.since = r.at - r.checks + 1 \/ log[n][r.since - 1].healthy # r.healthy)

\* Everybody with a stream was shown the rows that the panel has, and alerts
\* are polled exactly while somebody watches them.
ViewersHaveLatest ==
  /\ \A v \in Viewers : seen[v] # None => \A n \in DOMAIN seen[v] : seen[v][n] = cache[n]
  /\ \A v \in Viewers : watching[v] # None => \A n \in DOMAIN watching[v] : watching[v][n] = alerts.rows[n]
  /\ timer = (Watchers # {})

TelemetryTrue == StatusSince /\ ViewersHaveLatest
=============================================================================
