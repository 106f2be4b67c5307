----------------------------- MODULE ConsoleFeeds -----------------------------
(***************************************************************************)
(* The console of one server for every browser that watches it:            *)
(* ServerRealtimeService opens one stream to the agent for all listeners   *)
(* of a feed, batches its lines, keeps the last batches for who comes      *)
(* later, reconnects after a second and cancels when the last one leaves.  *)
(*                                                                         *)
(* The agent is external: a stream replays the lines the agent has, marks  *)
(* the end of the replay and goes on with new lines.  A line is its        *)
(* number; the character limits of batches and history are those of        *)
(* entries.                                                                *)
(***************************************************************************)
EXTENDS FiniteSets, Naturals, Sequences

CONSTANTS
  Viewers,        \* browsers, each may come and go
  MaxLines,       \* bound on the lines the server prints
  MaxVisits,      \* bound on subscriptions
  MaxFailures,    \* bound on streams that end or do not open
  BatchLimit,     \* SERVER_CONSOLE_BATCH_ENTRY_LIMIT
  HistoryLimit    \* SERVER_CONSOLE_HISTORY_LIMIT, in batches

VARIABLES
  feed,        \* the current feed, or one without listeners
  streams,     \* the streams open to the agent, by number
  forgotten,   \* start timers that are armed and no longer in the feed
  shown,       \* what each viewer was sent: lines, and whether as history
  ready,       \* was each viewer told that the agent's replay is over?
  received,    \* history: the lines this feed was given
  printed, visits, failures, opened

agent == <<streams, printed, opened>>
vars == <<feed, agent, forgotten, shown, ready, received, visits, failures>>

NoFeed == [listeners |-> {}, call |-> 0, start |-> FALSE, retry |-> FALSE,
           flush |-> FALSE, pending |-> <<>>, replay |-> FALSE,
           history |-> <<>>, complete |-> FALSE]

Live == feed.listeners # {}

\* The lines of batches, one after another.
Joined(batches) ==
  LET upTo[k \in 0 .. Len(batches)] == IF k = 0 THEN <<>> ELSE upTo[k - 1] \o batches[k]
  IN upTo[Len(batches)]
Entries(lines, replayed) == [i \in DOMAIN lines |-> [line |-> lines[i], replayed |-> replayed]]

\* broadcast() of a batch.
Show(listeners, lines, replayed) ==
  shown' = [v \in Viewers |->
    IF v \in listeners THEN shown[v] \o Entries(lines, replayed) ELSE shown[v]]

\* flushConsole: the batch goes into the bounded history.
Flushed(f) ==
  [f EXCEPT !.flush = FALSE, !.pending = <<>>,
            !.history = IF f.pending = <<>> THEN @
                        ELSE LET all == Append(@, f.pending)
                             IN IF Len(all) > HistoryLimit THEN Tail(all) ELSE all]
Flush == Show(feed.listeners, feed.pending, feed.replay)

-----------------------------------------------------------------------------
(* Viewers. *)

\* stopConsoleFeed: only the stream the feed knows is cancelled.
Stop ==
  /\ feed' = NoFeed
  /\ streams' = {s \in streams : s.id # feed.call}
  /\ forgotten' = 0
  /\ received' = <<>>

\* Seeded fault: the newcomer is given the pending batch with the history,
\* and again when it is flushed.
Subscribe_WithPending(v) ==
  /\ v \notin feed.listeners /\ visits < MaxVisits
  /\ visits' = visits + 1
  /\ shown' = [shown EXCEPT ![v] =
       Entries(Joined(feed.history) \o feed.pending, TRUE)]
  /\ ready' = [ready EXCEPT ![v] = feed.complete]
  /\ feed' = [feed EXCEPT !.listeners = @ \cup {v}, !.start = @ \/ feed.call = 0]
  /\ UNCHANGED <<agent, forgotten, received, failures>>

\* subscribeConsole: the history, the marker if the agent's replay is over,
\* and the start timer unless there is a stream.
Subscribe(v) ==
  /\ v \notin feed.listeners /\ visits < MaxVisits
  /\ visits' = visits + 1
  /\ shown' = [shown EXCEPT ![v] = Entries(Joined(feed.history), TRUE)]
  /\ ready' = [ready EXCEPT ![v] = feed.complete]
  /\ feed' = [feed EXCEPT !.listeners = @ \cup {v}, !.start = @ \/ feed.call = 0]
  /\ UNCHANGED <<agent, forgotten, received, failures>>

Unsubscribe(v) ==
  /\ v \in feed.listeners
  /\ shown' = [shown EXCEPT ![v] = <<>>]
  /\ ready' = [ready EXCEPT ![v] = FALSE]
  /\ IF feed.listeners = {v}
     THEN Stop
     ELSE feed' = [feed EXCEPT !.listeners = @ \ {v}] /\ UNCHANGED <<streams, forgotten, received>>
  /\ UNCHANGED <<printed, opened, visits, failures>>

\* The registry announces the removal of the server: flush, say so, stop.
ServerRemoved ==
  /\ Live
  /\ Flush
  /\ Stop
  /\ UNCHANGED <<printed, opened, ready, visits, failures>>

-----------------------------------------------------------------------------
(* Starting and ending streams. *)

\* startConsoleFeed: clears the retry timer and forgets the start timer.
Started(id) ==
  [feed EXCEPT !.start = FALSE, !.retry = FALSE, !.complete = FALSE, !.call = id]

OpenStream ==
  \/ /\ opened' = opened + 1
     /\ streams' = streams \cup {[id |-> opened + 1, at |-> 0, upto |-> printed, marked |-> FALSE]}
     /\ feed' = Started(opened + 1)
     /\ UNCHANGED failures
  \/ /\ failures < MaxFailures
     /\ failures' = failures + 1
     /\ feed' = [Started(feed.call) EXCEPT !.retry = TRUE]
     /\ UNCHANGED <<streams, opened>>

StartTimer ==
  /\ feed.start
  /\ OpenStream
  /\ UNCHANGED <<forgotten, shown, ready, received, printed, visits>>

RetryTimer ==
  /\ feed.retry
  /\ OpenStream
  /\ forgotten' = forgotten + (IF feed.start THEN 1 ELSE 0)
  /\ UNCHANGED <<shown, ready, received, printed, visits>>

ForgottenTimer ==
  /\ forgotten > 0
  /\ OpenStream
  /\ forgotten' = forgotten - 1 + (IF feed.start THEN 1 ELSE 0)
  /\ UNCHANGED <<shown, ready, received, printed, visits>>

\* 'error' and 'end': flush, tell the viewers, scheduleConsoleReconnect.
StreamEnds(s) ==
  /\ failures < MaxFailures
  /\ failures' = failures + 1
  /\ streams' = streams \ {s}
  /\ IF s.id = feed.call
     THEN /\ Flush
          /\ feed' = [Flushed(feed) EXCEPT !.call = 0, !.complete = FALSE, !.retry = TRUE]
          /\ ready' = [v \in Viewers |-> ready[v] /\ v \notin feed.listeners]
     ELSE UNCHANGED <<feed, shown, ready>>
  /\ UNCHANGED <<forgotten, received, printed, visits, opened>>

-----------------------------------------------------------------------------
(* Lines. *)

PrintLine ==
  /\ printed < MaxLines
  /\ printed' = printed + 1
  /\ UNCHANGED <<feed, streams, opened, forgotten, shown, ready, received, visits, failures>>

\* queueConsoleLine of one line: a batch is all history or all live, a full
\* one is flushed at once.
Queue(line, replayed) ==
  LET mixed == feed.pending # <<>> /\ feed.replay # replayed
      f == IF mixed THEN Flushed(feed) ELSE feed
      queued == [f EXCEPT !.pending = Append(@, line), !.replay = replayed, !.flush = TRUE]
      full == Len(queued.pending) >= BatchLimit
  IN /\ feed' = IF full THEN Flushed(queued) ELSE queued
     /\ shown' = [v \in Viewers |-> IF v \notin feed.listeners THEN shown[v] ELSE shown[v]
          \o (IF mixed THEN Entries(feed.pending, feed.replay) ELSE <<>>)
          \o (IF full THEN Entries(queued.pending, replayed) ELSE <<>>)]
     /\ received' = Append(received, line)

\* 'data' with a line; a stream that is not the feed's is not listened to.
Data(s) ==
  /\ s.at < IF s.marked THEN printed ELSE s.upto
  /\ streams' = (streams \ {s}) \cup {[s EXCEPT !.at = @ + 1]}
  /\ IF s.id = feed.call
     THEN Queue(s.at + 1, s.at + 1 <= s.upto)
     ELSE UNCHANGED <<feed, shown, received>>
  /\ UNCHANGED <<printed, opened, forgotten, ready, visits, failures>>

\* 'data' with the marker: flush first, then tell every viewer.
HistoryComplete(s) ==
  /\ s.at = s.upto /\ ~s.marked
  /\ streams' = (streams \ {s}) \cup {[s EXCEPT !.marked = TRUE]}
  /\ IF s.id = feed.call
     THEN /\ Flush
          /\ feed' = [Flushed(feed) EXCEPT !.complete = TRUE]
          /\ ready' = [v \in Viewers |-> ready[v] \/ v \in feed.listeners]
     ELSE UNCHANGED <<feed, shown, ready>>
  /\ UNCHANGED <<printed, opened, forgotten, received, visits, failures>>

FlushTimer ==
  /\ feed.flush
  /\ Flush
  /\ feed' = Flushed(feed)
  /\ UNCHANGED <<agent, forgotten, ready, received, visits, failures>>

Init ==
  /\ feed = NoFeed /\ streams = {} /\ forgotten = 0
  /\ shown = [v \in Viewers |-> <<>>] /\ ready = [v \in Viewers |-> FALSE]
  /\ received = <<>>
  /\ printed = 0 /\ visits = 0 /\ failures = 0 /\ opened = 0

Timers == StartTimer \/ RetryTimer \/ ForgottenTimer \/ FlushTimer
Agent == PrintLine \/ \E s \in streams : Data(s) \/ HistoryComplete(s) \/ StreamEnds(s)
Viewing == ServerRemoved \/ \E v \in Viewers : Subscribe(v) \/ Unsubscribe(v)

Next == Timers \/ Agent \/ Viewing

Spec == Init /\ [][Next]_vars

-----------------------------------------------------------------------------
(* Properties. *)

Stream == [id : Nat, at : Nat, upto : Nat, marked : BOOLEAN]

TypeOK ==
  /\ feed.listeners \subseteq Viewers /\ feed.call \in 0 .. opened
  /\ {feed.start, feed.retry, feed.flush, feed.replay, feed.complete} \subseteq BOOLEAN
  /\ feed.pending \in Seq(1 .. printed) /\ feed.history \in Seq(Seq(1 .. printed))
  /\ streams \subseteq Stream
  /\ forgotten \in Nat
  /\ shown \in [Viewers -> Seq([line : 1 .. printed, replayed : BOOLEAN])]
  /\ ready \in [Viewers -> BOOLEAN]
  /\ received \in Seq(1 .. printed)

ShownLines(v) == [i \in DOMAIN shown[v] |-> shown[v][i].line]
LiveLines(v) == SelectSeq(shown[v], LAMBDA entry : ~entry.replayed)

\* What a viewer sees is the end of what the feed was given, whenever it came
\* and however often the stream broke: no gap, nothing twice.  A line is live
\* at most once and in order, and the marker comes after the whole replay.
ViewersSeeTheStream ==
  \A v \in feed.listeners :
    /\ LET seen == ShownLines(v) \o feed.pending IN
         /\ Len(seen) <= Len(received)
         /\ seen = SubSeq(received, Len(received) - Len(seen) + 1, Len(received))
    /\ \A i, k \in DOMAIN LiveLines(v) : i < k => LiveLines(v)[i].line < LiveLines(v)[k].line
    /\ feed.complete => ready[v] /\ ~(feed.pending # <<>> /\ feed.replay)

\* A feed that is watched never falls asleep: it has a stream that is open or
\* a timer that will open one.
NeverStalls ==
  Live => feed.start \/ feed.retry \/ \E s \in streams : s.id = feed.call

\* "a second viewer opened a duplicate console stream".
OneStream == Cardinality({s.id : s \in streams}) <= 1

=============================================================================
