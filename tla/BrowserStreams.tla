---------------------------- MODULE BrowserStreams ----------------------------
(***************************************************************************)
(* One browser that follows a server: its console or its statistics as     *)
(* server-sent events, or its statistics over a WebSocket.  Handlers run to*)
(* their end, one event of the process after the other; in between, the    *)
(* browser may leave.  Frames are numbered in the order in which the feed  *)
(* hands them over; all but the numbers and their bytes is left out.       *)
(***************************************************************************)
EXTENDS Integers, Sequences, Functions

CONSTANTS
  Kinds,      \* of streams: "console", "stats" and "socket"
  Sizes,      \* bytes of a frame
  MaxQueue,   \* MAX_CONSOLE_SSE_QUEUE_BYTES
  MaxFrames

BrowserStreamsAssumption ==
  /\ Kinds \subseteq {"console", "stats", "socket"}
  /\ Sizes \subseteq Nat \ {0} /\ MaxQueue \in Nat /\ MaxFrames \in Nat

VARIABLES
  kind,
  pc,            \* "asked", "refused", "replay", "live" or "flush"
  res,           \* the connection: "open", "ended" or "gone"
  closeEvent,    \* of the connection: "none", "pending", "delivered" or "missed"
  draining,      \* write() said no, and a "drain" event will follow
  closed, backpressured, queue, kick, heartbeat,
  subscribed,    \* the feed knows this listener
  unsubscribe,   \* ... and the handler knows how to take it off
  emitted,       \* frames so far
  last,          \* the last one written
  retained       \* frames written since the last chance of the runtime to hold them back

streamVars == <<draining, backpressured, kick, last, retained>>
vars == <<kind, pc, res, closeEvent, draining, closed, backpressured, queue, kick, heartbeat, subscribed,
          unsubscribe, emitted, last, retained>>

Bytes(q) == SumFunction([i \in DOMAIN q |-> q[i].size])
canWrite == ~closed /\ res = "open"

\* res.write(): "full" says that the buffer of the connection is.
Writes(full) == backpressured' = full /\ draining' = full

\* writeEvent() and scheduleFlushKick(): a frame that goes out at once.
WriteFrame(n, full) ==
  /\ Writes(full) /\ last' = n /\ retained' = TRUE
  /\ kick' = (kick \/ ~full)

\* closeResponse(): the response is destroyed or ended unless it is gone.
\* What is queued is given up.
CloseResponse(destroy) ==
  /\ closed' = TRUE /\ heartbeat' = FALSE /\ kick' = FALSE /\ queue' = <<>>
  /\ subscribed' = (subscribed /\ ~unsubscribe) /\ unsubscribe' = FALSE
  /\ IF res = "open"
     THEN res' = (IF destroy THEN "gone" ELSE "ended") /\ closeEvent' = "pending"
     ELSE UNCHANGED <<res, closeEvent>>
  /\ UNCHANGED <<draining, backpressured, last, retained>>

Keeps == UNCHANGED <<res, closeEvent, closed, heartbeat, subscribed, unsubscribe>>

MustWait == backpressured \/ queue # <<>>

\* writeEvent() of the console.
ConsoleEvent(size) ==
  LET frame == [n |-> emitted + 1, size |-> size] IN
  IF ~canWrite THEN Keeps /\ UNCHANGED <<queue, streamVars>>
  ELSE IF MustWait
  THEN IF Bytes(queue) + size > MaxQueue
       THEN CloseResponse(TRUE)
       ELSE queue' = Append(queue, frame) /\ Keeps /\ UNCHANGED streamVars
  ELSE /\ \E full \in BOOLEAN : WriteFrame(emitted + 1, full)
       /\ Keeps /\ UNCHANGED queue

\* writeEvent() of statistics: what comes while the connection is full is not
\* sent at all.  A WebSocket is written to however full it is.
StatsEvent ==
  /\ IF ~canWrite \/ (kind = "stats" /\ backpressured) THEN UNCHANGED streamVars
     ELSE /\ \E full \in BOOLEAN : IF kind = "stats" THEN Writes(full) ELSE UNCHANGED <<backpressured, draining>>
          /\ last' = emitted + 1 /\ UNCHANGED <<kick, retained>>
  /\ Keeps /\ UNCHANGED queue

Event(size) ==
  /\ emitted < MaxFrames /\ emitted' = emitted + 1
  /\ IF kind = "console" THEN ConsoleEvent(size) ELSE StatsEvent

-----------------------------------------------------------------------------
(* The handlers. *)

\* The permission is not there (requireNodeServerPermission, canAccess).
Refuse ==
  /\ pc = "asked" /\ pc' = "refused"
  /\ UNCHANGED <<kind, res, closeEvent, closed, queue, heartbeat, subscribed, unsubscribe, emitted, streamVars>>

\* streamConsole(), streamStats() and startStatsStream() once the permission is
\* there: "connected" goes out and the feed gets a listener.
Attach ==
  /\ pc = "asked" /\ pc' = "replay"
  /\ heartbeat' = (kind # "socket") /\ subscribed' = TRUE
  /\ IF canWrite /\ kind # "socket"
     THEN \E full \in BOOLEAN :
       IF kind = "console" THEN WriteFrame(0, full) ELSE Writes(full) /\ UNCHANGED <<kick, last, retained>>
     ELSE UNCHANGED streamVars
  /\ UNCHANGED <<kind, res, closeEvent, closed, queue, unsubscribe, emitted>>

\* subscribeConsole(), subscribeStats(): what the feed remembers comes first.
Replay ==
  /\ pc = "replay" /\ \E size \in Sizes : Event(size)
  /\ UNCHANGED <<kind, pc>>

\* Seeded fault: a stream that was closed during the replay stays on the feed.
Leaves_Never == FALSE
Leaves == kind = "console" /\ closed

\* They return: a console that was closed meanwhile leaves the feed at once.
Subscribed ==
  /\ pc = "replay" /\ pc' = "live"
  /\ subscribed' = (subscribed /\ ~Leaves) /\ unsubscribe' = ~Leaves
  /\ UNCHANGED <<kind, res, closeEvent, closed, queue, heartbeat, emitted, streamVars>>

\* The feed has something new.
Broadcast ==
  /\ pc = "live" /\ subscribed /\ \E size \in Sizes : Event(size)
  /\ UNCHANGED <<kind, pc>>

\* The server is removed: the console is closed, behind what waits or not.
Terminal ==
  /\ pc = "live" /\ subscribed /\ kind = "console"
  /\ emitted < MaxFrames /\ emitted' = emitted + 1
  /\ IF canWrite /\ ~MustWait
     THEN /\ \E full \in BOOLEAN : Writes(full)
          /\ last' = emitted + 1 /\ retained' = FALSE
          /\ closed' = TRUE /\ heartbeat' = FALSE /\ kick' = FALSE /\ queue' = <<>>
          /\ subscribed' = FALSE /\ unsubscribe' = FALSE
          /\ res' = "ended" /\ closeEvent' = "pending"
     ELSE CloseResponse(MustWait /\ Bytes(queue) + 1 > MaxQueue)
  /\ UNCHANGED <<kind, pc>>

\* The "drain" event.
Drain ==
  /\ pc = "live" /\ draining /\ draining' = FALSE
  /\ IF canWrite THEN /\ backpressured' = FALSE /\ retained' = FALSE
                      /\ pc' = IF queue = <<>> THEN "live" ELSE "flush"
     ELSE /\ backpressured' = (kind # "stats" /\ backpressured)
          /\ UNCHANGED <<pc, retained>>
  /\ UNCHANGED <<kind, res, closeEvent, closed, queue, kick, heartbeat, subscribed, unsubscribe, emitted, last>>

\* flushQueuedFrames(): one frame, until the connection is full again.
Flush ==
  /\ pc = "flush"
  /\ \E full \in BOOLEAN :
       /\ Writes(full) /\ pc' = IF full \/ Len(queue) = 1 THEN "live" ELSE "flush"
       /\ kick' = (kick \/ (~full /\ Len(queue) = 1))
  /\ last' = Head(queue).n /\ queue' = Tail(queue) /\ retained' = TRUE
  /\ UNCHANGED <<kind, emitted>> /\ Keeps

\* The timer of scheduleFlushKick() and the heartbeat: a comment is written, so
\* that the runtime lets go of what it has held back.
Comment ==
  IF canWrite /\ ~backpressured /\ queue = <<>>
  THEN (\E full \in BOOLEAN : Writes(full)) /\ retained' = FALSE
  ELSE UNCHANGED <<backpressured, draining, retained>>

FlushKick ==
  /\ pc = "live" /\ kick /\ kick' = FALSE /\ Comment
  /\ UNCHANGED <<kind, pc, queue, emitted, last>> /\ Keeps

Heartbeat ==
  /\ pc = "live" /\ heartbeat /\ Comment
  /\ UNCHANGED <<kind, pc, queue, kick, emitted, last>> /\ Keeps

\* A WebSocket says goodbye (startStatsStream).
CloseFrame ==
  /\ pc = "live" /\ kind = "socket" /\ ~closed /\ res = "open" /\ CloseResponse(TRUE)
  /\ UNCHANGED <<kind, pc, emitted>>

\* The "close" event reaches the handler that listens for it.
CloseHandler ==
  /\ pc = "live" /\ closeEvent = "pending"
  /\ IF closed
     THEN UNCHANGED <<res, closed, queue, heartbeat, subscribed, unsubscribe, streamVars>>
     ELSE /\ closed' = TRUE /\ heartbeat' = FALSE /\ kick' = FALSE /\ queue' = <<>>
          /\ subscribed' = (subscribed /\ ~unsubscribe) /\ unsubscribe' = FALSE
          /\ UNCHANGED <<res, draining, backpressured, last, retained>>
  /\ closeEvent' = "delivered"
  /\ UNCHANGED <<kind, pc, emitted>>

\* The browser leaves, maybe while the permission is still being looked up.
Leave ==
  /\ pc \in {"asked", "live"} /\ res # "gone" /\ res' = "gone"
  /\ closeEvent' = IF pc = "asked" THEN "missed" ELSE IF closeEvent = "none" THEN "pending" ELSE closeEvent
  /\ UNCHANGED <<kind, pc, closed, queue, heartbeat, subscribed, unsubscribe, emitted, streamVars>>

Init ==
  /\ kind \in Kinds /\ pc = "asked" /\ res = "open" /\ closeEvent = "none"
  /\ draining = FALSE /\ closed = FALSE /\ backpressured = FALSE /\ queue = <<>>
  /\ kick = FALSE /\ heartbeat = FALSE /\ subscribed = FALSE /\ unsubscribe = FALSE
  /\ emitted = 0 /\ last = 0 /\ retained = FALSE

Next ==
  \/ Refuse \/ Attach \/ Replay \/ Subscribed \/ Broadcast \/ Terminal
  \/ Drain \/ Flush \/ FlushKick \/ Heartbeat \/ CloseFrame \/ CloseHandler \/ Leave

Spec == Init /\ [][Next]_vars

-----------------------------------------------------------------------------
(* Properties. *)

TypeOK ==
  /\ kind \in Kinds /\ pc \in {"asked", "refused", "replay", "live", "flush"}
  /\ res \in {"open", "ended", "gone"} /\ closeEvent \in {"none", "pending", "delivered", "missed"}
  /\ {draining, closed, backpressured, kick, heartbeat, subscribed, unsubscribe, retained} \subseteq BOOLEAN
  /\ queue \in Seq([n : 1..MaxFrames, size : Sizes]) /\ Bytes(queue) <= MaxQueue
  /\ emitted \in 0..MaxFrames /\ last \in 0..emitted

\* What a console has handed over is written or waits, in order and complete,
\* as long as the response is open (writeEvent, flushQueuedFrames).
NothingSkipped ==
  kind = "console" /\ canWrite =>
    /\ last + Len(queue) = emitted
    /\ \A i \in DOMAIN queue : queue[i].n = last + i

\* Somebody will write what waits: while frames are queued, or the connection
\* is taken for full, a "drain" event is to come or is being handled; and what
\* the runtime may hold back is followed by the timer or by "drain"
\* (flushQueuedFrames, scheduleFlushKick).
NeverStuck ==
  canWrite /\ pc # "flush" =>
    /\ backpressured \/ queue # <<>> => draining
    /\ retained => kick \/ draining

\* A handler that has closed its stream keeps no timer and no listener, and one
\* that heard of the end of its connection has closed it (closeResponse).
ClosedIsReleased ==
  /\ closed /\ pc = "live" => ~subscribed /\ ~kick /\ ~heartbeat /\ queue = <<>>
  /\ closeEvent = "delivered" => closed

StreamsSound == NothingSkipped /\ NeverStuck /\ ClosedIsReleased

\* A response that has disappeared is off the feed once its close event is
\* over: "Its close handler owns unsubscription and feed cleanup"
\* (server-realtime.service.ts:575).  Does not hold of a browser that leaves
\* while its permission is looked up.
LeaversAreReleased ==
  pc = "live" /\ res = "gone" /\ closeEvent # "pending" => ~subscribed
===============================================================================
