------------------------------ MODULE StatsFeeds ------------------------------
(***************************************************************************)
(* The statistics of one server for every browser that watches it:         *)
(* ServerRealtimeService polls the agent once for all the listeners of a   *)
(* feed, stops when the last one leaves, keeps the feed for five seconds   *)
(* and drops it.  A poll is two awaits long, the agent's answer and the    *)
(* recording of the status, and may outlive its feed.                      *)
(***************************************************************************)
EXTENDS FiniteSets, Naturals

CONSTANT Clients    \* requests for the stream, SSE or WebSocket

VARIABLES
  client,      \* the requests
  generation,  \* feeds made so far; the current one has the last number
  live,        \* is there a current feed?
  listeners, timer, polling, stopping, \* ... and its fields
  polls        \* polls under way, by generation

feed == <<generation, live, listeners, timer, polling, stopping>>
vars == <<client, feed, polls>>

Clear == timer' = FALSE /\ polling' = FALSE /\ stopping' = FALSE

\* requestAbort.abort(): the request is cancelled, an answer is not.
Abort == polls' = {IF p.of = generation THEN [p EXCEPT !.aborted = TRUE] ELSE p : p \in polls}

-----------------------------------------------------------------------------
(* Requests. *)

\* The socket closes before the request is authorised: nobody listens yet.
LeaveEarly(c) ==
  /\ client[c] = "authorising"
  /\ client' = [client EXCEPT ![c] = "left early"]
  /\ UNCHANGED <<feed, polls>>

\* Seeded fault: a feed in its grace period is joined as it is.
Subscribe_KeepsStop(c) ==
  /\ client[c] \in {"authorising", "left early"}
  /\ client' = [client EXCEPT ![c] = IF @ = "authorising" THEN "on" ELSE "forgotten"]
  /\ listeners' = listeners \cup {c}
  /\ IF live
     THEN /\ timer' = (timer \/ ~polling)
          /\ UNCHANGED <<generation, live, polling, stopping>>
     ELSE /\ generation' = generation + 1 /\ live' = TRUE
          /\ timer' = TRUE /\ polling' = FALSE /\ stopping' = FALSE
  /\ UNCHANGED polls

\* subscribeStats(), then the handlers: a socket that is closed already will
\* not tell them.
Subscribe(c) ==
  /\ client[c] \in {"authorising", "left early"}
  /\ client' = [client EXCEPT ![c] = IF @ = "authorising" THEN "on" ELSE "forgotten"]
  /\ listeners' = listeners \cup {c}
  /\ stopping' = FALSE
  /\ IF live
     THEN /\ timer' = (timer \/ ~polling)
          /\ UNCHANGED <<generation, live, polling>>
     ELSE /\ generation' = generation + 1 /\ live' = TRUE
          /\ timer' = TRUE /\ polling' = FALSE
  /\ UNCHANGED polls

\* The close event: unsubscribe, and with nobody left scheduleStatsFeedStop.
Leave(c) ==
  /\ client[c] = "on"
  /\ client' = [client EXCEPT ![c] = "off"]
  /\ listeners' = listeners \ {c}
  /\ IF listeners' = {}
     THEN timer' = FALSE /\ stopping' = TRUE /\ Abort
     ELSE UNCHANGED <<timer, stopping, polls>>
  /\ UNCHANGED <<generation, live, polling>>

-----------------------------------------------------------------------------
(* The feed. *)

\* The stop timer: stopStatsFeed, if still nobody is there.
GraceEnds ==
  /\ stopping
  /\ IF listeners = {}
     THEN live' = FALSE /\ Clear /\ Abort
     ELSE stopping' = FALSE /\ UNCHANGED <<live, timer, polling, polls>>
  /\ UNCHANGED <<client, generation, listeners>>

PollStarts ==
  /\ timer
  /\ timer' = FALSE /\ polling' = TRUE
  /\ polls' = polls \cup {[of |-> generation, step |-> "asking", aborted |-> FALSE]}
  /\ UNCHANGED <<client, generation, live, listeners, stopping>>

\* getServerStats answers; applyStatsMetadata awaits the registry.
Answer(p) ==
  /\ p.step = "asking" /\ ~p.aborted
  /\ polls' = (polls \ {p}) \cup {[p EXCEPT !.step = "recording"]}
  /\ UNCHANGED <<client, feed>>

\* Seeded fault: an aborted poll does not schedule the next one.
PollEnds_AbortStops(p) ==
  /\ polls' = polls \ {p}
  /\ IF live /\ p.of = generation
     THEN /\ polling' = FALSE
          /\ timer' = (timer \/ (listeners # {} /\ ~p.aborted))
     ELSE UNCHANGED <<polling, timer>>
  /\ UNCHANGED <<client, generation, live, listeners, stopping>>

\* Answered, failed or cancelled: the finally block.
PollEnds(p) ==
  /\ polls' = polls \ {p}
  /\ IF live /\ p.of = generation
     THEN polling' = FALSE /\ timer' = (timer \/ listeners # {})
     ELSE UNCHANGED <<polling, timer>>
  /\ UNCHANGED <<client, generation, live, listeners, stopping>>

Init ==
  /\ client = [c \in Clients |-> "authorising"]
  /\ generation = 0 /\ live = FALSE /\ listeners = {}
  /\ timer = FALSE /\ polling = FALSE /\ stopping = FALSE
  /\ polls = {}

Request(c) == LeaveEarly(c) \/ Subscribe(c) \/ Leave(c)
Feed == GraceEnds \/ PollStarts \/ \E p \in polls : Answer(p) \/ PollEnds(p)

Next == Feed \/ \E c \in Clients : Request(c)

Spec == Init /\ [][Next]_vars

-----------------------------------------------------------------------------
(* Properties. *)

TypeOK ==
  /\ client \in [Clients -> {"authorising", "left early", "on", "off", "forgotten"}]
  /\ generation \in Nat /\ listeners \subseteq Clients
  /\ {live, timer, polling, stopping} \subseteq BOOLEAN
  /\ polls \subseteq [of : Nat, step : {"asking", "recording"}, aborted : BOOLEAN]

Wanted == {p \in polls : ~p.aborted}

\* The feed follows its listeners through abandoned polls and feeds dropped
\* and made again: while somebody listens a poll is under way or due, and
\* never two that were not aborted; while nobody does there is neither.
FeedFollowsListeners ==
  /\ Cardinality(Wanted) <= 1
  /\ listeners # {} => live /\ ~stopping /\ (timer \/ \E p \in polls : p.of = generation)
  /\ listeners = {} => ~timer /\ Wanted = {}

\* "stop agent work as soon as the final browser leaves this server".
NoWorkForNobody ==
  (\A c \in Clients : client[c] # "on") => ~timer /\ Wanted = {}

=============================================================================
