------------------------- MODULE ServerServicesProofs -------------------------
(***************************************************************************)
(* The services around one server, proved for every value of the           *)
(* constants: the feeds of statistics, the backups, the updates of the     *)
(* panel, the streams to a browser, the certificate and the telemetry of a *)
(* node and the versions that are installed.  One section for each: an     *)
(* invariant of the component, that its steps keep it, and the theorem,    *)
(* about every behaviour of the panel.                                     *)
(***************************************************************************)
EXTENDS ServerServices, FiniteSetTheorems, Integers, SequenceTheorems, WellFoundedInduction, TLAPS

-----------------------------------------------------------------------------
(* A step of the panel is a step of the part that moves, or leaves it alone. *)

LEMMA PartMoves ==
  ASSUME [PanelNext]_panelVars
  PROVE  /\ part' = part
         /\ part = "backups" => [Backups!Next]_(Backups!vars)
         /\ part = "stats" => [Stats!Next]_(Stats!vars)
         /\ part = "console" => [Console!Next]_(Console!vars)
         /\ part = "updates" => [Updates!Next]_(Updates!vars)
         /\ part = "streams" => [Responses!Next]_(Responses!vars)
         /\ part = "certificates" => [Certificates!Next]_(Certificates!vars)
         /\ part = "telemetry" => [Telemetry!Next]_(Telemetry!vars)
         /\ part = "versions" => [Games!Next]_(Games!vars)
<1>1. part' = part
  BY DEF PanelNext, panelVars, Scheduling, BackingUp, Polling, Streaming, Updating, Showing,
     Rotating, Watching, Installing
<1>2. part = "backups" => [Backups!Next]_(Backups!vars)
  BY DEF PanelNext, panelVars, Scheduling, BackingUp, Polling, Streaming, Updating, Showing,
     Rotating, Watching, Installing, backupVars, Backups!vars
<1>3. part = "stats" => [Stats!Next]_(Stats!vars)
  BY DEF PanelNext, panelVars, Scheduling, BackingUp, Polling, Streaming, Updating, Showing,
     Rotating, Watching, Installing, statsVars, Stats!vars, Stats!feed
<1>4. part = "console" => [Console!Next]_(Console!vars)
  BY DEF PanelNext, panelVars, Scheduling, BackingUp, Polling, Streaming, Updating, Showing,
     Rotating, Watching, Installing, consoleVars, Console!vars, Console!agent
<1>5. part = "updates" => [Updates!Next]_(Updates!vars)
  BY DEF PanelNext, panelVars, Scheduling, BackingUp, Polling, Streaming, Updating, Showing,
     Rotating, Watching, Installing, updateVars, Updates!vars, Updates!requests, Updates!host,
       Updates!bounds
<1>6. part = "streams" => [Responses!Next]_(Responses!vars)
  BY DEF PanelNext, panelVars, Scheduling, BackingUp, Polling, Streaming, Updating, Showing,
     Rotating, Watching, Installing, responseVars, Responses!vars
<1>7. part = "certificates" => [Certificates!Next]_(Certificates!vars)
  BY DEF PanelNext, panelVars, Scheduling, BackingUp, Polling, Streaming, Updating, Showing,
     Rotating, Watching, Installing, certificateVars, Certificates!vars
<1>8. part = "telemetry" => [Telemetry!Next]_(Telemetry!vars)
  BY DEF PanelNext, panelVars, Scheduling, BackingUp, Polling, Streaming, Updating, Showing,
     Rotating, Watching, Installing, nodeVars, Telemetry!vars, Telemetry!statsVars,
       Telemetry!alertVars
<1>9. part = "versions" => [Games!Next]_(Games!vars)
  BY DEF PanelNext, panelVars, Scheduling, BackingUp, Polling, Streaming, Updating, Showing,
     Rotating, Watching, Installing, installVars, Games!vars, Games!catalogVars
<1>. QED BY <1>1, <1>2, <1>3, <1>4, <1>5, <1>6, <1>7, <1>8, <1>9

-----------------------------------------------------------------------------
(***************************************************************************)
(* Statistics: FeedFollowsListeners, for any clients and any number of     *)
(* feeds, polls and reconnects.                                            *)
(*                                                                         *)
(* FeedSound is about the feed that the map has now: while somebody        *)
(* listens there is a timer or a poll under way, and never both; the       *)
(* polls of the feeds before it were cancelled, and so was its own poll    *)
(* when the last listener left.                                            *)
(***************************************************************************)

FeedPolls == [of : Nat, step : {"asking", "recording"}, aborted : BOOLEAN]
Current == {p \in statsPolls : p.of = statsGeneration}

\* What a poll is once its request was cancelled.
Cancelled(p) == [p EXCEPT !.aborted = TRUE]

FeedTypes ==
  /\ statsGeneration \in Nat /\ statsLive \in BOOLEAN /\ statsListeners \subseteq Clients
  /\ statsTimer \in BOOLEAN /\ statsPolling \in BOOLEAN /\ statsStopping \in BOOLEAN
  /\ statsPolls \subseteq FeedPolls

\* A feed has one poll at most, and then it says so.
OnePoll ==
  /\ \A p, q \in Current : p = q
  /\ statsLive => (statsPolling <=> Current # {})

\* Polls of feeds that are gone were cancelled, and so was the poll of a feed
\* that nobody listens to; such a feed asks for no other.
OthersCancelled == \A p \in statsPolls : p.of = statsGeneration \/ p.aborted
NobodyListens == statsListeners = {} => ~statsTimer /\ \A p \in statsPolls : p.aborted
\* Two polls are never under way or due at once, and one is if somebody listens.
SomebodyListens == statsListeners # {} => statsLive /\ ~statsStopping
  /\ (statsTimer \/ statsPolling)
Due == statsTimer => statsLive /\ ~statsPolling
Past == \A p \in statsPolls : p.of <= statsGeneration

FeedSound ==
  FeedTypes /\ OnePoll /\ OthersCancelled /\ NobodyListens /\ SomebodyListens /\ Due /\ Past

LEMMA SameCardinality == \A S : Stats!Cardinality(S) = Cardinality(S)
BY DEF Cardinality, Stats!Cardinality, IsFiniteSet, Stats!IsFiniteSet

LEMMA CancelledPoll ==
  ASSUME NEW p \in FeedPolls
  PROVE  Cancelled(p) \in FeedPolls /\ Cancelled(p).of = p.of /\ Cancelled(p).aborted
BY DEF FeedPolls, Cancelled

LEMMA AbortCancels ==
  ASSUME statsPolls \subseteq FeedPolls, Stats!Abort
  PROVE  /\ statsPolls' \subseteq FeedPolls
         /\ \A q \in statsPolls' : \E p \in statsPolls :
              q.of = p.of /\ q = IF p.of = statsGeneration THEN Cancelled(p) ELSE p
         /\ \A p \in statsPolls : \E q \in statsPolls' : q.of = p.of
<1>1. statsPolls' = {IF p.of = statsGeneration THEN Cancelled(p) ELSE p : p \in statsPolls}
  BY DEF Stats!Abort, Cancelled
<1>2. \A p \in statsPolls : Cancelled(p) \in FeedPolls /\ Cancelled(p).of = p.of
  BY CancelledPoll
<1>. QED BY <1>1, <1>2

LEMMA SubscribeStep ==
  ASSUME FeedSound, NEW c \in Clients, Stats!Subscribe(c)
  PROVE  FeedSound'
<1>1. statsPolls' = statsPolls /\ statsStopping' = FALSE
      /\ statsListeners' = statsListeners \cup {c}
  BY DEF Stats!Subscribe
<1>2. CASE statsLive
  BY <1>1, <1>2 DEF Stats!Subscribe, FeedSound, FeedTypes, OnePoll, OthersCancelled,
     NobodyListens,
     SomebodyListens, Due, Past, Current
<1>3. CASE ~statsLive
  <2>1. statsGeneration' = statsGeneration + 1 /\ statsLive' = TRUE /\ statsTimer' = TRUE
        /\ statsPolling' = FALSE
    BY <1>3 DEF Stats!Subscribe
  <2>2. statsListeners = {}
    BY <1>3 DEF FeedSound, SomebodyListens
  <2>3. Current' = {}
    <3>1. \A p \in statsPolls : p.of \in Nat /\ p.of <= statsGeneration
      BY DEF FeedSound, FeedTypes, Past, FeedPolls
    <3>. QED BY <1>1, <2>1, <3>1 DEF Current, FeedSound, FeedTypes, Past, FeedPolls
  <2>4. OthersCancelled' /\ Past'
    BY <1>1, <2>1, <2>2 DEF FeedSound, FeedTypes, NobodyListens, OthersCancelled, Past, FeedPolls
  <2>5. FeedTypes'
    <3>1. statsGeneration' \in Nat
      BY <2>1 DEF FeedSound, FeedTypes
    <3>. QED BY <1>1, <2>1, <3>1 DEF FeedSound, FeedTypes
  <2>. QED BY <1>1, <2>1, <2>3, <2>4, <2>5 DEF FeedSound, OnePoll, NobodyListens,
           SomebodyListens, Due
<1>. QED BY <1>2, <1>3

LEMMA LeaveStep ==
  ASSUME FeedSound, NEW c \in Clients, Stats!Leave(c)
  PROVE  FeedSound'
<1>1. /\ statsListeners' = statsListeners \ {c}
      /\ UNCHANGED <<statsGeneration, statsLive, statsPolling>>
  BY DEF Stats!Leave
<1>2. CASE statsListeners' = {}
  <2>1. ~statsTimer' /\ statsTimer' \in BOOLEAN /\ statsStopping' = TRUE /\ Stats!Abort
    BY <1>2 DEF Stats!Leave
  <2>2. /\ statsPolls' \subseteq FeedPolls
        /\ \A q \in statsPolls' : \E p \in statsPolls :
             q.of = p.of /\ q = IF p.of = statsGeneration THEN Cancelled(p) ELSE p
        /\ \A p \in statsPolls : \E q \in statsPolls' : q.of = p.of
    BY <2>1, AbortCancels DEF FeedSound, FeedTypes
  <2>3. \A q \in statsPolls' : q.aborted
    BY <2>2, CancelledPoll DEF FeedSound, FeedTypes, OthersCancelled
  <2>4. OnePoll'
    BY <1>1, <2>2 DEF FeedSound, OnePoll, Current
  <2>5. Past'
    BY <1>1, <2>2 DEF FeedSound, Past
  <2>6. FeedTypes'
    BY <1>1, <2>1, <2>2 DEF FeedSound, FeedTypes
  <2>. QED BY <1>2, <2>1, <2>3, <2>4, <2>5, <2>6 DEF FeedSound, OthersCancelled, NobodyListens,
            SomebodyListens, Due
<1>3. CASE statsListeners' # {}
  BY <1>1, <1>3 DEF Stats!Leave, FeedSound, FeedTypes, OnePoll, OthersCancelled, NobodyListens,
     SomebodyListens, Due, Past, Current
<1>. QED BY <1>2, <1>3

LEMMA GraceStep ==
  ASSUME FeedSound, Stats!GraceEnds
  PROVE  FeedSound'
<1>1. UNCHANGED <<statsClient, statsGeneration, statsListeners>>
  BY DEF Stats!GraceEnds
<1>2. statsListeners = {}
  BY DEF Stats!GraceEnds, FeedSound, SomebodyListens
<1>3. /\ statsLive' = FALSE /\ statsTimer' = FALSE /\ statsPolling' = FALSE
         /\ statsStopping' = FALSE
      /\ Stats!Abort
  BY <1>2 DEF Stats!GraceEnds, Stats!Clear
<1>4. /\ statsPolls' \subseteq FeedPolls
      /\ \A q \in statsPolls' : \E p \in statsPolls :
           q.of = p.of /\ q = IF p.of = statsGeneration THEN Cancelled(p) ELSE p
  BY <1>3, AbortCancels DEF FeedSound, FeedTypes
<1>5. \A q \in statsPolls' : q.aborted
  BY <1>4, CancelledPoll DEF FeedSound, FeedTypes, OthersCancelled
<1>6. OnePoll'
  BY <1>1, <1>3, <1>4 DEF FeedSound, OnePoll, Current
<1>7. Past' /\ FeedTypes'
  BY <1>1, <1>3, <1>4 DEF FeedSound, Past, FeedTypes
<1>. QED BY <1>1, <1>2, <1>3, <1>5, <1>6, <1>7 DEF FeedSound, OthersCancelled, NobodyListens,
          SomebodyListens, Due

LEMMA PollStep ==
  ASSUME FeedSound, Stats!PollStarts
  PROVE  FeedSound'
<1>. DEFINE first == [of |-> statsGeneration, step |-> "asking", aborted |-> FALSE]
<1>1. /\ first \in FeedPolls /\ first.of = statsGeneration
      /\ statsPolls' = statsPolls \cup {first} /\ statsTimer /\ statsTimer' = FALSE
         /\ statsPolling' = TRUE
      /\ UNCHANGED <<statsClient, statsGeneration, statsLive, statsListeners, statsStopping>>
  BY DEF Stats!PollStarts, FeedSound, FeedTypes, FeedPolls
<1>2. statsLive /\ ~statsPolling /\ statsListeners # {} /\ Current = {}
  BY <1>1 DEF FeedSound, Due, NobodyListens, OnePoll
<1>. HIDE DEF first
<1>3. Current' = {first}
  BY <1>1, <1>2 DEF Current
<1>4. FeedTypes'
  BY <1>1 DEF FeedSound, FeedTypes
<1>5. OthersCancelled' /\ Past'
  BY <1>1 DEF FeedSound, FeedTypes, OthersCancelled, Past
<1>. QED BY <1>1, <1>2, <1>3, <1>4, <1>5 DEF FeedSound, OnePoll, NobodyListens, SomebodyListens,
         Due

LEMMA AnswerStep ==
  ASSUME FeedSound, NEW p \in statsPolls, Stats!Answer(p)
  PROVE  FeedSound'
<1>. DEFINE next == [p EXCEPT !.step = "recording"]
<1>1. /\ ~p.aborted /\ statsPolls' = (statsPolls \ {p}) \cup {next}
      /\ UNCHANGED <<statsClient, statsGeneration, statsLive, statsListeners, statsTimer,
                     statsPolling, statsStopping>>
  BY DEF Stats!Answer, Stats!feed
<1>2. p \in FeedPolls /\ next \in FeedPolls /\ next.of = p.of /\ next.aborted = p.aborted
  BY DEF FeedSound, FeedTypes, FeedPolls
<1>. HIDE DEF next
<1>3. p \in Current /\ statsListeners # {}
  BY <1>1 DEF FeedSound, OthersCancelled, NobodyListens, Current
<1>4. Current' = {next}
  BY <1>1, <1>2, <1>3 DEF FeedSound, OnePoll, Current
<1>5. FeedTypes' /\ OthersCancelled' /\ Past'
  BY <1>1, <1>2, <1>3 DEF FeedSound, FeedTypes, OthersCancelled, Past, Current
<1>. QED BY <1>1, <1>3, <1>4, <1>5 DEF FeedSound, OnePoll, NobodyListens, SomebodyListens, Due

LEMMA PollEndsStep ==
  ASSUME FeedSound, NEW p \in statsPolls, Stats!PollEnds(p)
  PROVE  FeedSound'
<1>1. /\ statsPolls' = statsPolls \ {p}
      /\ UNCHANGED <<statsClient, statsGeneration, statsLive, statsListeners, statsStopping>>
  BY DEF Stats!PollEnds
<1>2. Current' = Current \ {p}
  BY <1>1 DEF Current
<1>3. FeedTypes' /\ OthersCancelled' /\ Past'
  BY <1>1 DEF Stats!PollEnds, FeedSound, FeedTypes, OthersCancelled, Past
<1>4. CASE statsLive /\ p.of = statsGeneration
  <2>1. statsPolling' = FALSE /\ statsTimer' = (statsTimer \/ statsListeners # {})
    BY <1>4 DEF Stats!PollEnds
  <2>2. Current' = {}
    BY <1>2, <1>4 DEF FeedSound, OnePoll, Current
  <2>. QED BY <1>1, <1>3, <1>4, <2>1, <2>2 DEF FeedSound, FeedTypes, OnePoll, NobodyListens,
           SomebodyListens, Due
<1>5. CASE ~(statsLive /\ p.of = statsGeneration)
  <2>1. UNCHANGED <<statsPolling, statsTimer>>
    BY <1>5 DEF Stats!PollEnds
  <2>2. statsLive => Current' = Current
    BY <1>2, <1>5 DEF Current
  <2>. QED BY <1>1, <1>2, <1>3, <2>1, <2>2 DEF FeedSound, OnePoll, NobodyListens,
           SomebodyListens, Due
<1>. QED BY <1>4, <1>5

LEMMA FeedRests ==
  ASSUME FeedSound,
         UNCHANGED <<statsGeneration, statsLive, statsListeners, statsTimer, statsPolling,
                     statsStopping, statsPolls>>
  PROVE  FeedSound'
BY DEF FeedSound, FeedTypes, OnePoll, OthersCancelled, NobodyListens, SomebodyListens, Due, Past,
   Current

LEMMA FeedStep == FeedSound /\ [Stats!Next]_Stats!vars => FeedSound'
<1>. SUFFICES ASSUME FeedSound, [Stats!Next]_Stats!vars PROVE FeedSound'
  OBVIOUS
<1>1. CASE UNCHANGED Stats!vars
  BY <1>1, FeedRests DEF Stats!vars, Stats!feed
<1>2. CASE \E c \in Clients : Stats!LeaveEarly(c)
  <2>1. UNCHANGED <<statsGeneration, statsLive, statsListeners, statsTimer, statsPolling,
                    statsStopping, statsPolls>>
    BY <1>2 DEF Stats!LeaveEarly, Stats!feed
  <2>. QED BY <2>1, FeedRests
<1>. QED BY <1>1, <1>2, SubscribeStep, LeaveStep, GraceStep, PollStep, AnswerStep, PollEndsStep
        DEF Stats!Next, Stats!Feed, Stats!Request

LEMMA FeedInit == Stats!Init => FeedSound
<1>. SUFFICES ASSUME Stats!Init PROVE FeedSound
  OBVIOUS
<1>. QED BY DEF Stats!Init, FeedSound, FeedTypes, OnePoll, OthersCancelled, NobodyListens,
         SomebodyListens,
   Due, Past, Current

LEMMA FeedSoundSays == FeedSound => Stats!FeedFollowsListeners
<1>. SUFFICES ASSUME FeedSound PROVE Stats!FeedFollowsListeners
  OBVIOUS
<1>1. Stats!Wanted \subseteq Current
  BY DEF FeedSound, OthersCancelled, Stats!Wanted, Current
<1>2. Stats!Wanted = {} \/ \E p \in Current : Stats!Wanted = {p}
  BY <1>1 DEF FeedSound, OnePoll
<1>3. Cardinality(Stats!Wanted) <= 1
  <2>1. CASE Stats!Wanted = {}
    BY <2>1, FS_EmptySet
  <2>2. CASE \E p \in Current : Stats!Wanted = {p}
    <3>1. PICK p \in Current : Stats!Wanted = {p}
      BY <2>2
    <3>2. Cardinality({p}) = 1
      BY FS_Singleton
    <3>. QED BY <3>1, <3>2
  <2>. QED BY <1>2, <2>1, <2>2
<1>4. statsListeners # {} => statsLive /\ ~statsStopping
      /\ (statsTimer \/ \E p \in statsPolls : p.of = statsGeneration)
  BY DEF FeedSound, SomebodyListens, OnePoll, Current
<1>5. statsListeners = {} => ~statsTimer /\ Stats!Wanted = {}
  BY DEF FeedSound, NobodyListens, Stats!Wanted
<1>. QED BY <1>3, <1>4, <1>5, SameCardinality DEF Stats!FeedFollowsListeners

\* For any clients, reconnects and late answers: while somebody listens to the
\* statistics of a container one poll is under way or due, never two, and while
\* nobody does there is none (ServerRealtimeService).
THEOREM FeedFollowsListenersAlways == PanelSpec => []FeedFollowsListeners
<1>. DEFINE I == part = "stats" => FeedSound
<1>1. PanelInit => I
  BY FeedInit DEF PanelInit
<1>2. I /\ [PanelNext]_panelVars => I'
  BY FeedStep, PartMoves
<1>3. I => FeedFollowsListeners
  BY FeedSoundSays DEF FeedFollowsListeners
<1>. QED BY <1>1, <1>2, <1>3, PTL DEF PanelSpec

-----------------------------------------------------------------------------
(***************************************************************************)
(* Backups: ExactWhenDeciding, for any creations, listings, deletions and  *)
(* any limit.                                                              *)
(*                                                                         *)
(* Every change of what the agent has, and every row of the catalogue,     *)
(* takes its own tick of a clock (Dated).  So a creation whose list was    *)
(* not overtaken removes exactly the rows that the agent does not have     *)
(* (SyncKeeps), and when it decides, the catalogue is what the agent has.  *)
(***************************************************************************)

\* What is in the catalogue, what the agent has and what it has answered is
\* older than the clock; a creation has one row of each kind.
Dated ==
  /\ \A r \in backupRows : r.at < backupClock
  /\ \A c \in backupStored : backupMade[c] < backupClock
  /\ \A o \in Backups!Ops : \A c \in backupOp[o].seen : backupMade[c] < backupClock
  /\ \A r, s \in backupRows : r.of = s.of /\ r.status = s.status => r = s

\* A creation that nothing overtook holds the agent's list, then the catalogue does.
Decides(c) ==
  /\ backupOp[c].pc = "listed" /\ c \notin backupOverlaid =>
       backupOp[c].seen = backupStored /\ \A r \in backupRows : r.at < backupOp[c].at
  /\ backupOp[c].pc = "synced" /\ c \notin backupOverlaid => Backups!Active = backupStored

BackupInv ==
  /\ Backups!TypeOK /\ Dated /\ Backups!ReservationsOwned
  /\ \A c \in Creations : Decides(c)

LEMMA MaxOfOne ==
  ASSUME NEW n \in Nat
  PROVE  Backups!Max({n}) = n
BY DEF Backups!Max

\* The call o is at another point, with what it had.
Steps(o, pc) ==
  /\ backupOp' \in [Backups!Ops -> Backups!Call]
  /\ backupOp'[o].pc = pc /\ backupOp'[o].seen = backupOp[o].seen
     /\ backupOp'[o].at = backupOp[o].at
  /\ \A p \in Backups!Ops \ {o} : backupOp'[p] = backupOp[p]

LEMMA GoSteps ==
  ASSUME backupOp \in [Backups!Ops -> Backups!Call], NEW o \in Backups!Ops,
         NEW pc \in {"listed", "synced", "creating", "created", "completing", "failing",
           "deleting",
                     "removing", "done", "dead"},
         Backups!Go(o, pc)
  PROVE  Steps(o, pc)
<1>. DEFINE call == [backupOp[o] EXCEPT !.pc = pc]
<1>1. backupOp[o] \in Backups!Call
  OBVIOUS
<1>2. call \in Backups!Call /\ call.pc = pc /\ call.seen = backupOp[o].seen
      /\ call.at = backupOp[o].at
  BY <1>1 DEF Backups!Call
<1>3. backupOp' = [backupOp EXCEPT ![o] = call]
  BY DEF Backups!Go
<1>. HIDE DEF call
<1>. QED BY <1>2, <1>3 DEF Steps

LEMMA OthersOvertaken ==
  ASSUME NEW o \in Backups!Ops, NEW pc, pc \notin {"listed", "synced"}, Steps(o, pc),
         Backups!Overtakes(o)
  PROVE  \A c \in Creations : Decides(c)'
<1>1. \A c \in Creations : c \in Backups!Ops
  BY DEF Backups!Ops
<1>. QED BY <1>1 DEF Steps, Backups!Overtakes, Decides

LEMMA SyncKeeps ==
  ASSUME BackupInv, NEW o \in Backups!Ops, Backups!Sync(o)
  PROVE  /\ backupRows' \subseteq Backups!Row
         /\ \A r \in backupRows' : r.at < backupClock
         /\ \A r, s \in backupRows' : r.of = s.of /\ r.status = s.status => r = s
         /\ \A r \in backupRows' : r.status = "pending" => r \in backupRows
         /\ \A r \in backupRows' : r.of \notin backupOp[o].seen
            => r \in backupRows /\ (r.status = "active" => r.at >= backupOp[o].at)
         /\ \A c \in backupOp[o].seen : \E r \in backupRows' : r.of = c /\ r.status = "active"
<1>. DEFINE seen == backupOp[o].seen
            date(c) == IF c \in Backups!Active
                       THEN Backups!Max({r.at : r \in {x \in backupRows : x.of = c
                                        /\ x.status = "active"}})
                       ELSE backupMade[c]
            new(c) == [of |-> c, status |-> "active", at |-> date(c)]
<1>1. backupRows \subseteq Backups!Row /\ seen \subseteq Creations
  BY DEF BackupInv, Backups!TypeOK, Backups!Call
<1>2. ASSUME NEW c \in seen
      PROVE  date(c) \in Nat /\ date(c) < backupClock
  <2>1. CASE c \in Backups!Active
    <3>1. PICK x \in backupRows : x.of = c /\ x.status = "active"
      BY <2>1 DEF Backups!Active
    <3>2. {r.at : r \in {y \in backupRows : y.of = c /\ y.status = "active"}} = {x.at}
      BY <3>1 DEF BackupInv, Dated
    <3>3. x.at \in Nat /\ x.at < backupClock
      BY <1>1, <3>1 DEF BackupInv, Dated, Backups!Row
    <3>. QED BY <2>1, <3>2, <3>3, MaxOfOne
  <2>2. CASE c \notin Backups!Active
    <3>1. backupMade[c] \in Nat /\ backupMade[c] < backupClock
      BY <1>1 DEF BackupInv, Dated, Backups!TypeOK
    <3>. QED BY <2>2, <3>1
  <2>. QED BY <2>1, <2>2
<1>3. \A c \in seen : /\ new(c) \in Backups!Row /\ new(c).of = c /\ new(c).status = "active"
                      /\ new(c).at < backupClock
  BY <1>1, <1>2 DEF Backups!Row
<1>4. Backups!Catalogued(seen) =
        {old \in backupRows : old.of \notin seen
          \/ old.status = "pending"} \cup {new(c) : c \in seen}
  BY DEF Backups!Catalogued
<1>5. backupRows' = {old \in Backups!Catalogued(seen) :
                       old.of \in seen \/ old.status = "pending" \/ old.at >= backupOp[o].at}
  BY DEF Backups!Sync
<1>. HIDE DEF new
<1>6. \A r \in backupRows' : \/ r \in backupRows /\ (r.of \notin seen \/ r.status = "pending")
                             \/ r.of \in seen /\ r = new(r.of)
  BY <1>3, <1>4, <1>5
<1>7. \A c \in seen : new(c) \in backupRows'
  BY <1>3, <1>4, <1>5
<1>8. \A r \in backupRows : r.status \in {"pending", "active"} /\ r.at < backupClock
  BY <1>1 DEF BackupInv, Dated, Backups!Row
<1>9. backupRows' \subseteq Backups!Row /\ \A r \in backupRows' : r.at < backupClock
  BY <1>1, <1>3, <1>6, <1>8
<1>10. \A r, s \in backupRows' : r.of = s.of /\ r.status = s.status => r = s
  BY <1>3, <1>6, <1>8 DEF BackupInv, Dated
<1>11. \A r \in backupRows' : r.status = "pending" => r \in backupRows
  BY <1>3, <1>6
<1>12. \A r \in backupRows' : r.of \notin seen
       => r \in backupRows /\ (r.status = "active" => r.at >= backupOp[o].at)
  BY <1>5, <1>6
<1>13. \A c \in seen : \E r \in backupRows' : r.of = c /\ r.status = "active"
  BY <1>3, <1>7
<1>. QED BY <1>9, <1>10, <1>11, <1>12, <1>13

\* A call that has synced: nothing but its own rows and the clock's dates are in the way.
LEMMA InvSyncs ==
  ASSUME BackupInv, NEW o \in Backups!Ops, Backups!Sync(o), backupOp[o].pc = "listed",
         NEW pc \in {"synced", "done"}, Backups!Go(o, pc), Backups!Overtakes(o),
         UNCHANGED <<backupStored, backupMade, backupClock>>, pc = "synced" => o \in Creations
  PROVE  BackupInv'
<1>1. Steps(o, pc)
  BY GoSteps DEF BackupInv, Backups!TypeOK
<1>2. backupOverlaid' \subseteq Creations /\ backupOverlaid \subseteq backupOverlaid'
      /\ (o \in backupOverlaid' => o \in backupOverlaid)
  BY DEF Backups!Overtakes, BackupInv, Backups!TypeOK
<1>3. Backups!TypeOK'
  BY <1>1, <1>2, SyncKeeps DEF BackupInv, Backups!TypeOK, Steps
<1>4. Dated'
  <2>1. \A p \in Backups!Ops : backupOp'[p].seen = backupOp[p].seen
    BY <1>1 DEF Steps
  <2>. QED BY <2>1, SyncKeeps DEF BackupInv, Dated
<1>5. Backups!ReservationsOwned'
  <2>1. ASSUME NEW r \in backupRows', r.status = "pending"
        PROVE  backupOp'[r.of].pc \in {"creating", "created", "completing", "failing", "dead"}
    <3>1. r \in backupRows /\ r.of \in Creations
      BY <2>1, SyncKeeps DEF Backups!Row
    <3>2. backupOp[r.of].pc \in {"creating", "created", "completing", "failing", "dead"}
      BY <2>1, <3>1 DEF BackupInv, Backups!ReservationsOwned
    <3>3. r.of # o /\ r.of \in Backups!Ops
      BY <3>1, <3>2 DEF Backups!Ops
    <3>. QED BY <1>1, <3>2, <3>3 DEF Steps
  <2>. QED BY <2>1 DEF Backups!ReservationsOwned
<1>6. ASSUME NEW c \in Creations
      PROVE  Decides(c)'
  <2>1. CASE c # o
    <3>1. backupOp'[c] = backupOp[c] /\ (backupOp[c].pc \in {"listed",
                                         "synced"} => c \in backupOverlaid')
      BY <1>1, <2>1 DEF Steps, Backups!Overtakes, Backups!Ops
    <3>. QED BY <3>1 DEF Decides
  <2>2. CASE c = o
    <3>1. backupOp'[c].pc = pc /\ pc # "listed"
      BY <1>1, <2>2 DEF Steps
    <3>2. ASSUME pc = "synced", c \notin backupOverlaid'
          PROVE  Backups!Active' = backupStored'
      <4>1. backupOp[c].seen = backupStored /\ \A r \in backupRows : r.at < backupOp[c].at
        BY <1>2, <2>2, <3>2 DEF BackupInv, Decides
      <4>2. \A r \in backupRows : r.at \in Nat
        BY DEF BackupInv, Backups!TypeOK, Backups!Row
      <4>3. backupOp[c].at \in Nat
        BY <2>2 DEF BackupInv, Backups!TypeOK, Backups!Call
      <4>4. \A r \in backupRows' : r.status = "active" => r.of \in backupStored
        BY <2>2, <4>1, <4>2, <4>3, SyncKeeps
      <4>5. \A b \in backupStored : \E r \in backupRows' : r.of = b /\ r.status = "active"
        BY <2>2, <4>1, SyncKeeps
      <4>. QED BY <4>4, <4>5 DEF Backups!Active
    <3>. QED BY <3>1, <3>2 DEF Decides
  <2>. QED BY <2>1, <2>2
<1>. QED BY <1>3, <1>4, <1>5, <1>6 DEF BackupInv
\* An answer of the agent, or what waits for one: rows and agent stay.
LEMMA InvMoves ==
  ASSUME BackupInv, NEW o \in Backups!Ops, NEW pc \in {"completing", "failing", "dead"}, Steps(o,
         pc),
         backupOp[o].pc \in {"creating", "created", "completing", "failing"},
         UNCHANGED <<backupRows, backupStored, backupMade, backupClock, backupOverlaid>>
  PROVE  BackupInv'
<1>1. Backups!TypeOK' /\ Dated'
  BY DEF BackupInv, Backups!TypeOK, Dated, Steps
<1>2. Backups!ReservationsOwned'
  BY DEF BackupInv, Backups!TypeOK, Backups!ReservationsOwned, Steps, Backups!Ops, Backups!Row
<1>3. \A c \in Creations : Decides(c)'
  BY DEF BackupInv, Decides, Steps, Backups!Active, Backups!Ops
<1>. QED BY <1>1, <1>2, <1>3 DEF BackupInv

\* The clock ticks behind what is dated.
LEMMA TickDates ==
  ASSUME BackupInv, backupClock' = backupClock + 1,
         \A o \in Backups!Ops : backupOp'[o].seen = backupOp[o].seen
           \/ backupOp'[o].seen = backupStored,
         \A r \in backupRows' : r \in backupRows \/ r.at = backupClock,
         \A r, s \in backupRows' : r.of = s.of /\ r.status = s.status => r = s,
         \A c \in Creations : backupMade'[c] = backupMade[c] \/ backupMade'[c] = backupClock,
         \A c \in backupStored' : c \in backupStored \/ backupMade'[c] = backupClock
  PROVE  Dated'
<1>1. backupClock \in Nat /\ backupStored \subseteq Creations
      /\ \A c \in Creations : backupMade[c] \in Nat
  BY DEF BackupInv, Backups!TypeOK
<1>2. \A r \in backupRows' : r.at < backupClock'
  BY <1>1 DEF BackupInv, Dated, Backups!TypeOK, Backups!Row
<1>3. \A c \in backupStored' : backupMade'[c] < backupClock'
  BY <1>1 DEF BackupInv, Dated
<1>4. ASSUME NEW o \in Backups!Ops, NEW c \in backupOp'[o].seen
      PROVE  backupMade'[c] < backupClock'
  <2>1. backupOp[o].seen \subseteq Creations
    BY DEF BackupInv, Backups!TypeOK, Backups!Call
  <2>2. c \in Creations /\ backupMade[c] < backupClock
    BY <1>1, <1>4, <2>1 DEF BackupInv, Dated
  <2>. QED BY <1>1, <2>2
<1>. QED BY <1>2, <1>3, <1>4 DEF Dated

LEMMA InvObserve ==
  ASSUME BackupInv, NEW l \in Listings, Backups!Observe(l), Backups!BackupsAssumption
  PROVE  BackupInv'
<1>. DEFINE call == [backupOp[l] EXCEPT !.pc = "observed", !.at = backupClock]
<1>1. l \in Backups!Ops /\ l \notin Creations /\ backupOp[l] \in Backups!Call
      /\ backupClock \in Nat
      /\ backupOp \in [Backups!Ops -> Backups!Call]
  BY DEF Backups!BackupsAssumption, Backups!Ops, BackupInv, Backups!TypeOK
<1>2. call \in Backups!Call /\ call.pc = "observed" /\ call.seen = backupOp[l].seen
  BY <1>1 DEF Backups!Call
<1>3. backupOp' = [backupOp EXCEPT ![l] = call] /\ backupClock' = backupClock + 1
      /\ UNCHANGED <<backupRows, backupStored, backupMade, backupOverlaid>>
  BY <1>1 DEF Backups!Observe, Backups!Tick, BackupInv, Backups!TypeOK
<1>. HIDE DEF call
<1>4. /\ backupOp' \in [Backups!Ops -> Backups!Call] /\ backupOp'[l] = call
      /\ \A p \in Backups!Ops \ {l} : backupOp'[p] = backupOp[p]
  BY <1>1, <1>2, <1>3
<1>5. Backups!TypeOK'
  BY <1>1, <1>3, <1>4 DEF BackupInv, Backups!TypeOK
<1>6. Dated'
  <2>1. \A o \in Backups!Ops : backupOp'[o].seen = backupOp[o].seen
    BY <1>2, <1>4
  <2>2. \A r, s \in backupRows' : r.of = s.of /\ r.status = s.status => r = s
    BY <1>3 DEF BackupInv, Dated
  <2>. QED BY <1>3, <2>1, <2>2, TickDates
<1>7. \A c \in Creations : backupOp'[c] = backupOp[c]
  BY <1>1, <1>4 DEF Backups!Ops
<1>8. Backups!ReservationsOwned'
  BY <1>3, <1>7 DEF BackupInv, Backups!TypeOK, Backups!ReservationsOwned, Backups!Row
<1>9. \A c \in Creations : Decides(c)'
  BY <1>3, <1>7 DEF BackupInv, Decides, Backups!Active
<1>. QED BY <1>5, <1>6, <1>8, <1>9 DEF BackupInv

LEMMA InvListAnswers ==
  ASSUME BackupInv, NEW l \in Listings, Backups!ListAnswers(l), Backups!BackupsAssumption
  PROVE  BackupInv'
<1>. DEFINE call == [backupOp[l] EXCEPT !.pc = "listed", !.seen = backupStored,
                     !.at = backupOp[l].at]
<1>1. l \in Backups!Ops /\ l \notin Creations /\ backupOp[l] \in Backups!Call
      /\ backupStored \in SUBSET Creations
      /\ backupOp \in [Backups!Ops -> Backups!Call]
  BY DEF Backups!BackupsAssumption, Backups!Ops, BackupInv, Backups!TypeOK
<1>2. call \in Backups!Call /\ call.seen = backupStored
  BY <1>1 DEF Backups!Call
<1>3. backupOp' = [backupOp EXCEPT ![l] = call] /\ UNCHANGED <<backupRows, backupStored,
      backupMade, backupClock, backupOverlaid>>
  BY <1>1 DEF Backups!ListAnswers, Backups!Listed, BackupInv, Backups!TypeOK
<1>. HIDE DEF call
<1>4. /\ backupOp' \in [Backups!Ops -> Backups!Call] /\ backupOp'[l] = call
      /\ \A p \in Backups!Ops \ {l} : backupOp'[p] = backupOp[p]
  BY <1>1, <1>2, <1>3
<1>5. Backups!TypeOK'
  BY <1>3, <1>4 DEF BackupInv, Backups!TypeOK
<1>6. Dated'
  BY <1>2, <1>3, <1>4 DEF BackupInv, Dated
<1>7. \A c \in Creations : backupOp'[c] = backupOp[c]
  BY <1>1, <1>4 DEF Backups!Ops
<1>8. Backups!ReservationsOwned'
  BY <1>3, <1>7 DEF BackupInv, Backups!TypeOK, Backups!ReservationsOwned, Backups!Row
<1>9. \A c \in Creations : Decides(c)'
  BY <1>3, <1>7 DEF BackupInv, Decides, Backups!Active
<1>. QED BY <1>5, <1>6, <1>8, <1>9 DEF BackupInv

LEMMA InvCreateLists ==
  ASSUME BackupInv, NEW c \in Creations, Backups!CreateLists(c)
  PROVE  BackupInv'
<1>. DEFINE call == [backupOp[c] EXCEPT !.pc = "listed", !.seen = backupStored,
                     !.at = backupClock]
<1>1. c \in Backups!Ops /\ backupOp[c] \in Backups!Call /\ backupStored \in SUBSET Creations
      /\ backupClock \in Nat
      /\ backupOp[c].pc = "idle" /\ backupOp \in [Backups!Ops -> Backups!Call]
  BY DEF Backups!Ops, BackupInv, Backups!TypeOK, Backups!CreateLists, Backups!At
<1>2. call \in Backups!Call /\ call.pc = "listed" /\ call.seen = backupStored
      /\ call.at = backupClock
  BY <1>1 DEF Backups!Call
<1>3. backupOp' = [backupOp EXCEPT ![c] = call] /\ backupClock' = backupClock + 1
      /\ UNCHANGED <<backupRows, backupStored, backupMade, backupOverlaid>>
  BY <1>1 DEF Backups!CreateLists, Backups!Listed, Backups!Tick, BackupInv, Backups!TypeOK
<1>. HIDE DEF call
<1>4. /\ backupOp' \in [Backups!Ops -> Backups!Call] /\ backupOp'[c] = call
      /\ \A p \in Backups!Ops \ {c} : backupOp'[p] = backupOp[p]
  BY <1>1, <1>2, <1>3
<1>5. Backups!TypeOK'
  BY <1>1, <1>3, <1>4 DEF BackupInv, Backups!TypeOK
<1>6. Dated'
  <2>1. \A o \in Backups!Ops : backupOp'[o].seen = backupOp[o].seen
        \/ backupOp'[o].seen = backupStored
    BY <1>2, <1>4
  <2>2. \A r, s \in backupRows' : r.of = s.of /\ r.status = s.status => r = s
    BY <1>3 DEF BackupInv, Dated
  <2>. QED BY <1>3, <2>1, <2>2, TickDates
<1>7. Backups!ReservationsOwned'
  BY <1>1, <1>3, <1>4 DEF BackupInv, Backups!TypeOK, Backups!ReservationsOwned, Backups!Row,
     Backups!Ops
<1>8. \A b \in Creations : Decides(b)'
  BY <1>2, <1>3, <1>4 DEF BackupInv, Decides, Backups!Active, Backups!Ops, Dated
<1>. QED BY <1>5, <1>6, <1>7, <1>8 DEF BackupInv

\* What a call that overtakes the others does with the rows and the agent.
LEMMA InvOvertakes ==
  ASSUME BackupInv, NEW o \in Backups!Ops,
         NEW pc \in {"creating", "created", "failing", "removing", "done"}, Backups!Go(o, pc),
         Backups!Overtakes(o), backupRows' \subseteq Backups!Row,
           backupStored' \subseteq Creations,
         backupMade' \in [Creations -> Nat], backupClock' \in Nat, Dated',
         backupOp[o].pc \in {"synced", "creating", "completing", "failing", "deleting",
           "removing"},
         \A r \in backupRows' : r.status = "pending" =>
           \/ r.of = o /\ pc \in {"creating", "created", "failing"}
           \/ r.of # o /\ r \in backupRows
  PROVE  BackupInv'
<1>1. Steps(o, pc)
  BY GoSteps DEF BackupInv, Backups!TypeOK
<1>2. Backups!TypeOK'
  BY <1>1 DEF BackupInv, Backups!TypeOK, Steps, Backups!Overtakes
<1>3. Backups!ReservationsOwned'
  BY <1>1 DEF BackupInv, Backups!TypeOK, Backups!ReservationsOwned, Steps, Backups!Ops,
     Backups!Row
<1>4. \A c \in Creations : Decides(c)'
  BY <1>1, OthersOvertaken
<1>. QED BY <1>2, <1>3, <1>4 DEF BackupInv

LEMMA InvReserve ==
  ASSUME BackupInv, NEW c \in Creations, Backups!Reserve(c)
  PROVE  BackupInv'
<1>. DEFINE reserved == [of |-> c, status |-> "pending", at |-> backupClock]
<1>1. /\ backupOp[c].pc = "synced" /\ c \in Backups!Ops /\ backupClock \in Nat
         /\ backupRows \subseteq Backups!Row
      /\ backupClock' = backupClock + 1 /\ Backups!Overtakes(c) /\ UNCHANGED <<backupStored,
         backupMade>>
      /\ backupOp \in [Backups!Ops -> Backups!Call]
  BY DEF Backups!Reserve, Backups!At, Backups!Tick, Backups!Ops, BackupInv, Backups!TypeOK
<1>2. reserved \in Backups!Row /\ reserved.of = c /\ reserved.at = backupClock
      /\ reserved.status = "pending"
  BY <1>1 DEF Backups!Row
<1>3. \A r \in backupRows : r.status = "pending" => r.of # c
  BY <1>1 DEF BackupInv, Backups!ReservationsOwned
<1>4. PICK pc \in {"creating", "done"}, left \in SUBSET backupRows :
        Backups!Go(c, pc) /\ (backupRows' = left
                              \/ (pc = "creating" /\ backupRows' = left \cup {reserved}))
  BY DEF Backups!Reserve
<1>. HIDE DEF reserved
<1>5. Steps(c, pc)
  BY <1>1, <1>4, GoSteps
<1>6. backupRows' \subseteq Backups!Row /\ \A r \in backupRows' : r \in backupRows
      \/ r.at = backupClock
  BY <1>1, <1>2, <1>4
<1>7. \A r, s \in backupRows' : r.of = s.of /\ r.status = s.status => r = s
  <2>1. \A r, s \in backupRows : r.of = s.of /\ r.status = s.status => r = s
    BY DEF BackupInv, Dated
  <2>. QED BY <1>2, <1>3, <1>4, <2>1
<1>8. \A o \in Backups!Ops : backupOp'[o].seen = backupOp[o].seen
  BY <1>5 DEF Steps
<1>9. Dated'
  BY <1>1, <1>6, <1>7, <1>8, TickDates
<1>10. \A r \in backupRows' : r.status = "pending" => \/ r.of = c /\ pc = "creating"
                                                      \/ r.of # c /\ r \in backupRows
  BY <1>2, <1>3, <1>4
<1>11. /\ backupStored' \subseteq Creations /\ backupMade' \in [Creations -> Nat]
          /\ backupClock' \in Nat
  BY <1>1 DEF BackupInv, Backups!TypeOK
<1>. QED BY <1>1, <1>4, <1>6, <1>9, <1>10, <1>11, InvOvertakes

LEMMA InvAgentCreates ==
  ASSUME BackupInv, NEW c \in Creations, Backups!AgentCreates(c)
  PROVE  BackupInv'
<1>1. /\ backupOp[c].pc = "creating" /\ c \in Backups!Ops /\ backupClock \in Nat
         /\ backupRows \subseteq Backups!Row
      /\ backupClock' = backupClock + 1 /\ Backups!Overtakes(c) /\ Backups!Go(c, "created")
         /\ backupRows' = backupRows
      /\ backupStored' = backupStored \cup {c}
         /\ backupMade' = [backupMade EXCEPT ![c] = backupClock]
      /\ backupOp \in [Backups!Ops -> Backups!Call] /\ backupMade \in [Creations -> Nat]
         /\ backupStored \subseteq Creations
  BY DEF Backups!AgentCreates, Backups!At, Backups!Tick, Backups!Ops, BackupInv, Backups!TypeOK
<1>2. \A o \in Backups!Ops : backupOp'[o].seen = backupOp[o].seen
  BY <1>1, GoSteps DEF Steps
<1>3. \A r, s \in backupRows : r.of = s.of /\ r.status = s.status => r = s
  BY DEF BackupInv, Dated
<1>4. Dated'
  BY <1>1, <1>2, <1>3, TickDates
<1>. QED BY <1>1, <1>4, InvOvertakes

\* A step that leaves the clock and what the agent made.
LEMMA RestDates ==
  ASSUME BackupInv, UNCHANGED <<backupMade, backupClock>>, backupStored' \subseteq backupStored,
         \A o \in Backups!Ops : backupOp'[o].seen = backupOp[o].seen,
         \A r \in backupRows' : \E s \in backupRows : r.at = s.at,
         \A r, s \in backupRows' : r.of = s.of /\ r.status = s.status => r = s
  PROVE  Dated'
BY DEF BackupInv, Dated

LEMMA InvComplete ==
  ASSUME BackupInv, NEW c \in Creations, Backups!Complete(c)
  PROVE  BackupInv'
<1>1. /\ backupOp[c].pc = "completing" /\ c \in Backups!Ops /\ backupClock \in Nat
         /\ backupRows \subseteq Backups!Row
      /\ Backups!Overtakes(c) /\ UNCHANGED <<backupStored, backupMade, backupClock>>
      /\ backupOp \in [Backups!Ops -> Backups!Call] /\ backupMade \in [Creations -> Nat]
         /\ backupStored \subseteq Creations
  BY DEF Backups!Complete, Backups!At, Backups!Ops, BackupInv, Backups!TypeOK
<1>2. \A r, s \in backupRows : r.of = s.of /\ r.status = s.status => r = s
  BY DEF BackupInv, Dated
<1>3. CASE c \in Backups!Active
  <2>1. Backups!Go(c, "failing") /\ backupRows' = backupRows
    BY <1>3 DEF Backups!Complete
  <2>2. \A o \in Backups!Ops : backupOp'[o].seen = backupOp[o].seen
    BY <1>1, <2>1, GoSteps DEF Steps
  <2>3. Dated'
    BY <1>1, <1>2, <2>1, <2>2, RestDates
  <2>. QED BY <1>1, <2>1, <2>3, InvOvertakes
<1>4. CASE c \notin Backups!Active
  <2>. DEFINE done(r) == IF r.of = c THEN [r EXCEPT !.status = "active"] ELSE r
  <2>1. Backups!Go(c, "done") /\ backupRows' = {done(r) : r \in backupRows}
    BY <1>4 DEF Backups!Complete
  <2>2. \A r \in backupRows : r.of = c => r.status = "pending"
    BY <1>1, <1>4 DEF Backups!Active, Backups!Row
  <2>3. \A r \in backupRows : /\ done(r) \in Backups!Row /\ done(r).of = r.of /\ done(r).at = r.at
                              /\ done(r).status = IF r.of = c THEN "active" ELSE r.status
                              /\ (r.of # c => done(r) = r)
    BY <1>1 DEF Backups!Row
  <2>. HIDE DEF done
  <2>4. backupRows' \subseteq Backups!Row /\ \A r \in backupRows' : \E s \in backupRows : r.at
        = s.at
    BY <2>1, <2>3
  <2>5. \A r, s \in backupRows' : r.of = s.of /\ r.status = s.status => r = s
    BY <1>2, <2>1, <2>2, <2>3
  <2>6. \A r \in backupRows' : r.status = "pending" => r.of # c /\ r \in backupRows
    BY <2>1, <2>3
  <2>7. \A o \in Backups!Ops : backupOp'[o].seen = backupOp[o].seen
    BY <1>1, <2>1, GoSteps DEF Steps
  <2>8. Dated'
    BY <1>1, <2>4, <2>5, <2>7, RestDates
  <2>. QED BY <1>1, <2>1, <2>4, <2>6, <2>8, InvOvertakes
<1>. QED BY <1>3, <1>4

\* Rows and backups that go.
LEMMA InvLess ==
  ASSUME BackupInv, NEW o \in Backups!Ops, NEW pc \in {"removing", "done"}, Backups!Go(o, pc),
         Backups!Overtakes(o), backupRows' \subseteq backupRows,
           backupStored' \subseteq backupStored, UNCHANGED <<backupMade, backupClock>>,
         backupOp[o].pc \in {"failing", "deleting", "removing"},
         \A r \in backupRows' : r.status = "pending" => r.of # o
  PROVE  BackupInv'
<1>1. /\ backupClock \in Nat /\ backupRows \subseteq Backups!Row
         /\ backupStored \subseteq Creations
      /\ backupOp \in [Backups!Ops -> Backups!Call] /\ backupMade \in [Creations -> Nat]
  BY DEF BackupInv, Backups!TypeOK
<1>2. \A p \in Backups!Ops : backupOp'[p].seen = backupOp[p].seen
  BY <1>1, GoSteps DEF Steps
<1>3. \A r, s \in backupRows : r.of = s.of /\ r.status = s.status => r = s
  BY DEF BackupInv, Dated
<1>4. Dated'
  BY <1>2, <1>3, RestDates
<1>. QED BY <1>1, <1>4, InvOvertakes

LEMMA InvDelete ==
  ASSUME BackupInv, Backups!BackupsAssumption, NEW d \in Deletions, NEW b \in Creations,
         Backups!Delete(d, b)
  PROVE  BackupInv'
<1>. DEFINE call == [backupOp[d] EXCEPT !.pc = "deleting", !.target = b]
<1>1. d \in Backups!Ops /\ d \notin Creations /\ backupOp[d] \in Backups!Call
      /\ backupOp \in [Backups!Ops -> Backups!Call]
  BY DEF Backups!BackupsAssumption, Backups!Ops, BackupInv, Backups!TypeOK
<1>2. call \in Backups!Call /\ call.seen = backupOp[d].seen
  BY <1>1 DEF Backups!Call
<1>3. backupOp' = [backupOp EXCEPT ![d] = call] /\ UNCHANGED <<backupRows, backupStored,
      backupMade, backupClock, backupOverlaid>>
  BY <1>1 DEF Backups!Delete
<1>. HIDE DEF call
<1>4. /\ backupOp' \in [Backups!Ops -> Backups!Call] /\ backupOp'[d] = call
      /\ \A p \in Backups!Ops \ {d} : backupOp'[p] = backupOp[p]
  BY <1>1, <1>2, <1>3
<1>5. Backups!TypeOK'
  BY <1>3, <1>4 DEF BackupInv, Backups!TypeOK
<1>6. Dated'
  BY <1>2, <1>3, <1>4 DEF BackupInv, Dated
<1>7. \A c \in Creations : backupOp'[c] = backupOp[c]
  BY <1>1, <1>4 DEF Backups!Ops
<1>8. Backups!ReservationsOwned'
  BY <1>3, <1>7 DEF BackupInv, Backups!TypeOK, Backups!ReservationsOwned, Backups!Row
<1>9. \A c \in Creations : Decides(c)'
  BY <1>3, <1>7 DEF BackupInv, Decides, Backups!Active
<1>. QED BY <1>5, <1>6, <1>8, <1>9 DEF BackupInv

LEMMA BackupInit ==
  ASSUME Backups!Init
  PROVE  BackupInv
<1>1. \A o \in Backups!Ops : backupOp[o].pc = "idle" /\ backupOp[o].seen = {}
  BY DEF Backups!Init
<1>2. backupOp \in [Backups!Ops -> Backups!Call]
  BY DEF Backups!Init, Backups!Call
<1>3. \A c \in Creations : c \in Backups!Ops
  BY DEF Backups!Ops
<1>. QED BY <1>1, <1>2, <1>3 DEF Backups!Init, BackupInv, Backups!TypeOK, Dated,
         Backups!ReservationsOwned, Decides

LEMMA BackupsKept ==
  ASSUME Backups!BackupsAssumption, BackupInv, [Backups!Next]_(Backups!vars)
  PROVE  BackupInv'
<1>1. CASE UNCHANGED Backups!vars
  BY <1>1 DEF Backups!vars, BackupInv, Backups!TypeOK, Dated, Backups!ReservationsOwned, Decides,
     Backups!Active
<1>2. Creations \subseteq Backups!Ops /\ \A r \in backupRows : r.of \in Creations
  BY DEF Backups!Ops, BackupInv, Backups!TypeOK, Backups!Row
<1>3. ASSUME NEW c \in Creations, Backups!CreateSyncs(c)
      PROVE  BackupInv'
  <2>1. PICK pc \in {"synced", "done"} : Backups!Go(c, pc)
    BY <1>3 DEF Backups!CreateSyncs
  <2>. QED BY <1>2, <1>3, <2>1, InvSyncs DEF Backups!CreateSyncs, Backups!At
<1>4. ASSUME NEW c \in Creations, Backups!AgentAnswers(c) \/ Backups!Die(c)
      PROVE  BackupInv'
  <2>1. PICK pc \in {"completing", "failing", "dead"} : Backups!Go(c, pc)
    BY <1>4 DEF Backups!AgentAnswers, Backups!Die
  <2>2. Steps(c, pc)
    BY <1>2, <2>1, GoSteps DEF BackupInv, Backups!TypeOK
  <2>. QED BY <1>2, <1>4, <2>2, InvMoves DEF Backups!AgentAnswers, Backups!Die, Backups!At
<1>5. ASSUME NEW c \in Creations, Backups!Fail(c)
      PROVE  BackupInv'
  <2>1. backupRows' \subseteq backupRows /\ \A r \in backupRows' : r.status = "pending"
        => r.of # c
    BY <1>5 DEF Backups!Fail
  <2>. QED BY <1>2, <1>5, <2>1, InvLess DEF Backups!Fail, Backups!At
<1>6. ASSUME NEW c \in Creations, Backups!Create(c)
      PROVE  BackupInv'
  BY <1>3, <1>4, <1>5, <1>6, InvCreateLists, InvReserve, InvAgentCreates, InvComplete
     DEF Backups!Create
<1>7. ASSUME NEW l \in Listings, Backups!ListSyncs(l)
      PROVE  BackupInv'
  <2>1. l \in Backups!Ops
    BY DEF Backups!Ops
  <2>. QED BY <1>7, <2>1, InvSyncs DEF Backups!ListSyncs, Backups!At
<1>8. ASSUME NEW l \in Listings, Backups!List(l)
      PROVE  BackupInv'
  BY <1>7, <1>8, InvObserve, InvListAnswers DEF Backups!List
<1>9. ASSUME NEW d \in Deletions, Backups!AgentDeletes(d) \/ Backups!RemoveRow(d)
      PROVE  BackupInv'
  <2>1. d \in Backups!Ops /\ d \notin Creations
    BY DEF Backups!Ops, Backups!BackupsAssumption
  <2>2. backupRows' \subseteq backupRows /\ backupStored' \subseteq backupStored
    BY <1>9 DEF Backups!AgentDeletes, Backups!RemoveRow
  <2>4. \A r \in backupRows' : r.of # d
    BY <1>2, <2>1, <2>2
  <2>3. PICK pc \in {"removing", "done"} : Backups!Go(d, pc)
    BY <1>9 DEF Backups!AgentDeletes, Backups!RemoveRow
  <2>. QED BY <1>9, <2>1, <2>2, <2>3, <2>4, InvLess DEF Backups!AgentDeletes, Backups!RemoveRow,
           Backups!At
<1>. QED BY <1>1, <1>6, <1>8, <1>9, InvDelete DEF Backups!Next

\* For any creations, listings, deletions and any limit: a creation that nothing
\* overtook since it listed decides on exactly the backups that the agent has,
\* whatever lost answers and crashes left in the catalogue.
THEOREM ExactWhenDecidingAlways == PanelSpec => []ExactWhenDeciding
<1>. DEFINE I == part = "backups" => BackupInv
<1>1. PanelInit => I
  BY BackupInit DEF PanelInit
<1>2. I /\ [PanelNext]_panelVars => I'
  BY BackupsKept, BackupsFit, PartMoves
<1>3. I => ExactWhenDeciding
  BY DEF BackupInv, Decides, ExactWhenDeciding, Backups!ExactWhenDeciding, Backups!At
<1>. QED BY <1>1, <1>2, <1>3, PTL DEF PanelSpec

\* No reservation is leaked: a pending row belongs to a creation that is still
\* under way, or whose process died.
THEOREM ReservationsOwnedAlways == PanelSpec => [](part = "backups" => Backups!ReservationsOwned)
<1>. DEFINE I == part = "backups" => BackupInv
<1>1. PanelInit => I
  BY BackupInit DEF PanelInit
<1>2. I /\ [PanelNext]_panelVars => I'
  BY BackupsKept, BackupsFit, PartMoves
<1>3. I => (part = "backups" => Backups!ReservationsOwned)
  BY DEF BackupInv
<1>. QED BY <1>1, <1>2, <1>3, PTL DEF PanelSpec

-----------------------------------------------------------------------------
(***************************************************************************)
(* System updates: CompletedWasApplied, for any versions, deployments,     *)
(* polls, failed writes and crashes of the panel.                          *)
(*                                                                         *)
(* Every copy of a state that says completed is borne out: in memory, in   *)
(* the row, in what a request has read, in the result file, and in the     *)
(* script, which writes completed only after it switched the release.      *)
(***************************************************************************)

\* A version that was switched to bears out that the update is completed.
Backed(target) == \E version \in updateApplied : version >= target

StateOK(s) == s \in Updates!State /\ (s.status = "completed" => Backed(s.target))

\* What a status request, or deploy(), has read.
Calls == [pc : {"off", "read", "persist", "select", "persist staging", "persist staged",
                "persist applying", "persist failed", "download", "job", "unlink", "spawn",
                  "locked"},
          row : Updates!State \cup {None}, target : Updates!Version]
CallOK(call) == call \in Calls /\ (call.pc = "read" => StateOK(call.row))

Results == [status : {"completed", "failed"}, target : Updates!Version]

\* From here on the supervisor has moved both links.
Switched == {"switch frontend", "restart api", "check api", "restart frontend", "check frontend",
             "report completed"}

Scripts ==
  [pc : Switched \cup {"off", "start", "build", "switch api", "rollback", "restart old",
    "report failed"},
   target : Updates!Version, old : [Managed -> updateApplied]]

UpdateInv ==
  /\ updateApplied \subseteq Updates!Version /\ 0 \in updateApplied
  /\ updateLatest \in Updates!Version /\ updateJob \in Updates!Version
  /\ StateOK(updateMemory) /\ StateOK(updateRow)
  /\ updatePoll \in [Polls -> Calls] /\ \A p \in Polls : CallOK(updatePoll[p])
  /\ CallOK(updateDeploy)
  /\ updateResult \in Results \cup {None}
  /\ updateResult # None /\ updateResult.status = "completed" => Backed(updateResult.target)
  /\ updateRelease \in [Managed -> updateApplied] /\ updateRunning \in [Managed -> updateApplied]
  /\ updateScript \in Scripts /\ (updateScript.pc \in Switched
                                  => updateScript.target \in updateApplied)

LEMMA Versions ==
  ASSUME Updates!UpdatesAssumption
  PROVE  /\ Updates!Version \subseteq Nat /\ 0 \in Updates!Version /\ "api" \in Managed
         /\ \A n \in Updates!Version : n < MaxVersion => n + 1 \in Updates!Version
BY DEF Updates!UpdatesAssumption, Updates!Version

LEMMA OffAt ==
  ASSUME NEW pc, NEW r
  PROVE  [Updates!Off EXCEPT !.pc = pc, !.row = r] = [pc |-> pc, row |-> r, target |-> 0]
<1>1. [Updates!Off EXCEPT !.pc = pc, !.row = r]
      = [[Updates!Off EXCEPT !.pc = pc] EXCEPT !.row = r]
  OBVIOUS
<1>2. [Updates!Off EXCEPT !.pc = pc] = [pc |-> pc, row |-> None, target |-> 0]
  BY DEF Updates!Off
<1>3. [[pc |-> pc, row |-> None, target |-> 0] EXCEPT !.row = r] = [pc |-> pc, row |-> r,
      target |-> 0]
  OBVIOUS
<1>. QED BY <1>1, <1>2, <1>3

LEMMA ReconciledOK ==
  ASSUME Updates!UpdatesAssumption, UpdateInv, NEW s, StateOK(s),
         NEW versions \in [Managed -> updateApplied], NEW t \in Updates!Reconciled(s, versions)
  PROVE  StateOK(t)
<1>. DEFINE after == Updates!External(s)
<1>1. StateOK(after)
  <2>1. CASE after = s
    BY <2>1
  <2>2. CASE after # s
    <3>1. /\ updateResult # None /\ updateResult.target = s.target
             /\ after = [s EXCEPT !.status = updateResult.status]
      BY <2>2 DEF Updates!External
    <3>2. updateResult \in Results /\ s \in Updates!State
      BY <3>1 DEF UpdateInv, StateOK
    <3>3. after \in Updates!State /\ after.status = updateResult.status /\ after.target = s.target
      BY <3>1, <3>2 DEF Results, Updates!State
    <3>. QED BY <3>1, <3>3 DEF UpdateInv, StateOK
  <2>. QED BY <2>1, <2>2
<1>. HIDE DEF after
<1>2. after \in Updates!State /\ after.target \in Updates!Version
  BY <1>1 DEF StateOK, Updates!State
<1>3. CASE t = after
  BY <1>1, <1>3
<1>4. CASE /\ \A c \in Managed : versions[c] >= after.target
           /\ t = [after EXCEPT !.status = "completed"]
  <2>1. t \in Updates!State /\ t.target = after.target
    BY <1>2, <1>4 DEF Updates!State
  <2>2. versions["api"] \in updateApplied /\ versions["api"] >= after.target
    BY <1>4, Versions
  <2>. QED BY <2>1, <2>2 DEF StateOK, Backed
<1>5. CASE t = [after EXCEPT !.status = "failed"]
  <2>1. t \in Updates!State /\ t.status = "failed"
    BY <1>2, <1>5 DEF Updates!State
  <2>. QED BY <2>1 DEF StateOK
<1>. QED BY <1>3, <1>4, <1>5 DEF Updates!Reconciled, after

\* What bears a state out stays.
LEMMA BackedStays ==
  ASSUME NEW s, StateOK(s), updateApplied \subseteq updateApplied'
  PROVE  s \in Updates!State /\ (s.status = "completed"
                                 => \E v \in updateApplied' : v >= s.target)
BY DEF StateOK, Backed

LEMMA OffOK ==
  ASSUME Updates!UpdatesAssumption
  PROVE  CallOK(Updates!Off)
BY Versions DEF CallOK, Calls, Updates!Off

-----------------------------------------------------------------------------
(* Requests: the supervisor and the host stand still. *)

HostStays == UNCHANGED <<updateJob, updateResult, updateScript, updateRelease, updateRunning,
                         updateApplied>>

LEMMA RequestsInv ==
  ASSUME UpdateInv, UNCHANGED <<updateScript, updateRelease, updateRunning, updateApplied>>,
         updateLatest' \in Updates!Version, updateJob' \in Updates!Version,
           updateResult' \in {updateResult, None},
         StateOK(updateMemory'), StateOK(updateRow'),
         updatePoll' \in [Polls -> Calls], \A p \in Polls : CallOK(updatePoll'[p]),
           CallOK(updateDeploy')
  PROVE  UpdateInv'
<1>1. updateApplied' = updateApplied
  OBVIOUS
<1>. QED BY <1>1 DEF UpdateInv, StateOK, CallOK, Backed, Scripts

LEMMA InvPoll ==
  ASSUME Updates!UpdatesAssumption, UpdateInv, NEW p \in Polls, Updates!Status(p)
  PROVE  UpdateInv'
<1>1. /\ UNCHANGED <<updateScript, updateRelease, updateRunning, updateApplied, updateJob,
                     updateResult, updateLatest, updateDeploy>>
  BY DEF Updates!Status, Updates!PollReads, Updates!PollRefreshes, Updates!PollPersists,
     Updates!host, Updates!bounds
<1>2. /\ updateLatest' \in Updates!Version /\ updateJob' \in Updates!Version
         /\ updateResult' \in {updateResult, None}
      /\ CallOK(updateDeploy') /\ updatePoll \in [Polls -> Calls] /\ CallOK(updatePoll[p])
      /\ StateOK(updateMemory) /\ StateOK(updateRow)
  BY <1>1 DEF UpdateInv
<1>3. PICK call : updatePoll' = [updatePoll EXCEPT ![p] = call] /\ CallOK(call)
           /\ StateOK(updateMemory') /\ StateOK(updateRow')
  <2>1. CASE Updates!PollReads(p)
    <3>. DEFINE call == [pc |-> "read", row |-> updateRow, target |-> 0]
    <3>1. updatePoll' = [updatePoll EXCEPT ![p] = call]
      BY <2>1, OffAt DEF Updates!PollReads
    <3>2. CallOK(call)
      BY <1>2, Versions DEF CallOK, Calls, StateOK
    <3>. QED BY <1>2, <2>1, <3>1, <3>2 DEF Updates!PollReads
  <2>2. CASE Updates!PollRefreshes(p)
    <3>1. PICK pc \in {"off", "persist"} : updatePoll'
               = [updatePoll EXCEPT ![p] = [Updates!Off EXCEPT !.pc = pc]]
      BY <2>2 DEF Updates!PollRefreshes
    <3>2. CallOK([Updates!Off EXCEPT !.pc = pc])
      BY <3>1, Versions DEF CallOK, Calls, Updates!Off
    <3>3. StateOK(updatePoll[p].row) /\ updateMemory' \in Updates!Reconciled(updatePoll[p].row,
          updateRunning)
      BY <1>2, <2>2 DEF Updates!PollRefreshes, Updates!Refresh, CallOK
    <3>4. StateOK(updateMemory')
      BY <3>3, ReconciledOK DEF UpdateInv
    <3>. QED BY <1>2, <2>2, <3>1, <3>2, <3>4 DEF Updates!PollRefreshes
  <2>3. CASE Updates!PollPersists(p)
    <3>. DEFINE call == [updatePoll[p] EXCEPT !.pc = "off"]
    <3>1. updatePoll' = [updatePoll EXCEPT ![p] = call]
      BY <1>2, <2>3 DEF Updates!PollPersists
    <3>2. CallOK(call)
      BY <1>2 DEF CallOK, Calls
    <3>. QED BY <1>2, <2>3, <3>1, <3>2 DEF Updates!PollPersists
  <2>. QED BY <2>1, <2>2, <2>3 DEF Updates!Status
<1>4. updatePoll' \in [Polls -> Calls] /\ \A q \in Polls : CallOK(updatePoll'[q])
  BY <1>2, <1>3 DEF CallOK, UpdateInv
<1>. QED BY <1>1, <1>2, <1>3, <1>4, RequestsInv

\* deploy() at another point.
LEMMA GoOK ==
  ASSUME CallOK(updateDeploy), NEW pc \in {"off", "select", "persist staging", "persist staged",
         "persist applying",
                                    "persist failed", "download", "job", "unlink", "spawn"},
         Updates!Go(pc)
  PROVE  CallOK(updateDeploy')
<1>1. updateDeploy' \in Calls /\ updateDeploy'.pc = pc
  BY DEF CallOK, Calls, Updates!Go
<1>. QED BY <1>1 DEF CallOK

LEMMA StatusOK ==
  ASSUME UpdateInv, NEW status \in {"staged", "applying", "failed"},
         updateMemory' = [updateMemory EXCEPT !.status = status]
  PROVE  StateOK(updateMemory')
<1>1. updateMemory \in Updates!State
  BY DEF UpdateInv, StateOK
<1>2. updateMemory' \in Updates!State /\ updateMemory'.status = status
  BY <1>1 DEF Updates!State, Updates!Busy
<1>. QED BY <1>2 DEF StateOK

LEMMA InvDeploy ==
  ASSUME Updates!UpdatesAssumption, UpdateInv, Updates!Deploy
  PROVE  UpdateInv'
<1>1. /\ updateLatest \in Updates!Version /\ updateJob \in Updates!Version
      /\ StateOK(updateMemory) /\ StateOK(updateRow) /\ CallOK(updateDeploy)
         /\ updateDeploy.target \in Updates!Version
      /\ updatePoll \in [Polls -> Calls] /\ \A p \in Polls : CallOK(updatePoll[p])
  BY DEF UpdateInv, CallOK, Calls
<1>2. ASSUME UNCHANGED <<updateScript, updateRelease, updateRunning, updateApplied, updateLatest,
                         updatePoll>>, updateJob' \in {updateJob, updateDeploy.target},
             updateResult' \in {updateResult, None}, StateOK(updateMemory'), StateOK(updateRow'),
               CallOK(updateDeploy')
      PROVE  UpdateInv'
  BY <1>1, <1>2, RequestsInv
<1>3. ASSUME Updates!Done PROVE CallOK(updateDeploy')
  BY <1>3, OffOK DEF Updates!Done
<1>4. CASE Updates!DeployReads
  <2>1. updateDeploy' = [pc |-> "read", row |-> updateRow, target |-> 0]
    BY <1>4, OffAt DEF Updates!DeployReads
  <2>2. CallOK(updateDeploy')
    BY <1>1, <2>1, Versions DEF CallOK, Calls, StateOK
  <2>. QED BY <1>1, <1>2, <1>4, <2>2 DEF Updates!DeployReads, Updates!host
<1>5. CASE Updates!DeployRefreshes
  <2>1. PICK pc \in {"select", "persist"} : updateDeploy' = [Updates!Off EXCEPT !.pc = pc]
    BY <1>5 DEF Updates!DeployRefreshes
  <2>2. CallOK(updateDeploy')
    BY <2>1, Versions DEF CallOK, Calls, Updates!Off
  <2>3. StateOK(updateDeploy.row) /\ updateMemory' \in Updates!Reconciled(updateDeploy.row,
        updateRunning)
    BY <1>1, <1>5 DEF Updates!DeployRefreshes, Updates!Refresh, CallOK, Updates!At
  <2>4. StateOK(updateMemory')
    BY <2>3, ReconciledOK DEF UpdateInv
  <2>. QED BY <1>1, <1>2, <1>5, <2>2, <2>4 DEF Updates!DeployRefreshes, Updates!host
<1>6. CASE Updates!Select
  <2>1. CASE Updates!Done /\ UNCHANGED updateMemory
    BY <1>1, <1>2, <1>3, <1>6, <2>1 DEF Updates!Select, Updates!host, Updates!bounds
  <2>2. CASE /\ updateMemory' = [status |-> "staging", target |-> updateLatest]
             /\ updateDeploy' = [updateDeploy EXCEPT !.pc = "persist staging",
                                 !.target = updateLatest]
    <3>1. StateOK(updateMemory')
      BY <1>1, <2>2 DEF StateOK, Updates!State, Updates!Busy
    <3>2. updateDeploy' = [[updateDeploy EXCEPT !.pc = "persist staging"] EXCEPT !.target
                           = updateLatest]
      BY <2>2
    <3>3. [updateDeploy EXCEPT !.pc = "persist staging"] \in Calls
          /\ [updateDeploy EXCEPT !.pc = "persist staging"].pc = "persist staging"
      BY <1>1 DEF CallOK, Calls
    <3>4. updateDeploy' \in Calls /\ updateDeploy'.pc = "persist staging"
      BY <1>1, <3>2, <3>3 DEF Calls
    <3>. QED BY <1>1, <1>2, <1>6, <3>1, <3>4 DEF Updates!Select, Updates!host, Updates!bounds,
             CallOK
  <2>. QED BY <1>6, <2>1, <2>2 DEF Updates!Select
<1>7. CASE Updates!DeployPersists
  <2>1. (\E pc \in {"select", "download", "job", "unlink"} : Updates!Go(pc)) \/ Updates!Done
    BY <1>7 DEF Updates!DeployPersists, Updates!At
  <2>2. CallOK(updateDeploy')
    BY <1>1, <1>3, <2>1, GoOK
  <2>. QED BY <1>1, <1>2, <1>7, <2>2 DEF Updates!DeployPersists, Updates!host, Updates!bounds
<1>8. CASE Updates!Download
  <2>1. StateOK(updateMemory') /\ CallOK(updateDeploy')
    BY <1>1, <1>8, StatusOK, GoOK DEF Updates!Download
  <2>. QED BY <1>1, <1>2, <1>8, <2>1 DEF Updates!Download, Updates!host
<1>9. CASE Updates!WriteApplyJob
  <2>1. StateOK(updateMemory') /\ CallOK(updateDeploy')
    BY <1>1, <1>3, <1>9, StatusOK, GoOK DEF Updates!WriteApplyJob
  <2>. QED BY <1>1, <1>2, <1>9, <2>1 DEF Updates!WriteApplyJob, Updates!bounds
<1>10. CASE Updates!UnlinkResult
  <2>1. CallOK(updateDeploy')
    BY <1>1, <1>10, GoOK DEF Updates!UnlinkResult
  <2>. QED BY <1>1, <1>2, <1>10, <2>1 DEF Updates!UnlinkResult, Updates!bounds
<1>11. CASE Updates!Spawn
  <2>1. StateOK(updateMemory') /\ CallOK(updateDeploy')
    BY <1>1, <1>3, <1>11, StatusOK, GoOK DEF Updates!Spawn
  <2>2. updateScript \in Scripts
    BY DEF UpdateInv
  <2>3. updateScript' = updateScript \/ (updateScript'.pc = "start" /\ updateScript' \in Scripts)
    <3>1. [updateScript EXCEPT !.pc = "start"] \in Scripts
          /\ [updateScript EXCEPT !.pc = "start"].pc = "start"
      BY <2>2 DEF Scripts
    <3>. QED BY <1>11, <3>1 DEF Updates!Spawn
  <2>4. UNCHANGED <<updateRow, updatePoll, updateJob, updateResult, updateRelease, updateRunning,
                    updateApplied, updateLatest>>
    BY <1>11 DEF Updates!Spawn
  <2>. QED BY <1>1, <2>1, <2>3, <2>4 DEF UpdateInv, StateOK, CallOK, Backed, Scripts, Switched
<1>12. CASE Updates!LockExpires
  BY <1>1, <1>2, <1>3, <1>12 DEF Updates!LockExpires, Updates!host, Updates!bounds
<1>. QED BY <1>4, <1>5, <1>6, <1>7, <1>8, <1>9, <1>10, <1>11, <1>12 DEF Updates!Deploy

-----------------------------------------------------------------------------
(* The supervisor. *)

\* What it has switched to stays, and bears out what it bore out.
LEMMA Itself == ASSUME NEW n \in Nat PROVE n >= n
OBVIOUS

LEMMA SupervisorInv ==
  ASSUME UpdateInv, UNCHANGED <<updateMemory, updateRow, updatePoll, updateDeploy, updateJob,
                                updateLatest>>,
         updateApplied \subseteq updateApplied', updateApplied' \subseteq Updates!Version,
         updateResult' \in Results \cup {None},
         updateResult' # None /\ updateResult'.status = "completed"
           => updateResult' = updateResult \/ updateResult'.target \in updateApplied',
         updateRelease' \in [Managed -> updateApplied'],
           updateRunning' \in [Managed -> updateApplied'],
         updateScript' \in [pc : Switched \cup {"off", "start", "build", "switch api",
                            "rollback", "restart old",
                                                "report failed"},
                            target : Updates!Version, old : [Managed -> updateApplied']],
         updateScript'.pc \in Switched => updateScript'.target \in updateApplied',
         Updates!UpdatesAssumption
  PROVE  UpdateInv'
<1>1. ASSUME NEW s, StateOK(s)
      PROVE  s \in Updates!State /\ (s.status = "completed"
                                     => \E v \in updateApplied' : v >= s.target)
  BY <1>1, BackedStays
<1>2. StateOK(updateMemory)' /\ StateOK(updateRow)'
  BY <1>1 DEF UpdateInv, StateOK, Backed
<1>3. \A p \in Polls : CallOK(updatePoll[p])'
  BY <1>1 DEF UpdateInv, CallOK, StateOK, Backed
<1>4. CallOK(updateDeploy)'
  BY <1>1 DEF UpdateInv, CallOK, StateOK, Backed
<1>5. updateResult' # None /\ updateResult'.status = "completed"
      => \E v \in updateApplied' : v >= updateResult'.target
  <2>1. CASE updateResult' = updateResult
    BY <2>1 DEF UpdateInv, Backed
  <2>2. ASSUME updateResult' # None, updateResult'.target \in updateApplied'
        PROVE  \E v \in updateApplied' : v >= updateResult'.target
    BY <2>2, Versions, Itself
  <2>. QED BY <2>1, <2>2
<1>6. 0 \in updateApplied' /\ updateLatest' \in Updates!Version /\ updateJob' \in Updates!Version
      /\ updatePoll' \in [Polls -> Calls]
  BY DEF UpdateInv
<1>. QED BY <1>2, <1>3, <1>4, <1>5, <1>6 DEF UpdateInv, Scripts, Backed

LEMMA ScriptGoes ==
  ASSUME UpdateInv, NEW pc \in Switched \cup {"off", "start", "build", "switch api", "rollback",
         "restart old",
                                              "report failed"},
         Updates!Goto(pc)
  PROVE  updateScript' \in Scripts /\ updateScript'.pc = pc
         /\ updateScript'.target = updateScript.target /\ updateScript'.old = updateScript.old
<1>1. updateScript \in Scripts
  BY DEF UpdateInv
<1>. QED BY <1>1 DEF Scripts, Updates!Goto

LEMMA ApiStartsOK ==
  ASSUME Updates!UpdatesAssumption, UpdateInv, NEW versions \in [Managed -> updateApplied],
         Updates!ApiStarts(versions)
  PROVE  /\ updateRunning' \in [Managed -> updateApplied] /\ StateOK(updateMemory')
            /\ StateOK(updateRow')
         /\ updatePoll' \in [Polls -> Calls] /\ (\A p \in Polls : CallOK(updatePoll'[p]))
            /\ CallOK(updateDeploy')
<1>1. PICK state \in Updates!Reconciled(updateRow, versions) : updateMemory' = state
           /\ updateRow' = state
  BY DEF Updates!ApiStarts
<1>2. StateOK(state)
  BY <1>1, ReconciledOK DEF UpdateInv
<1>3. CallOK(Updates!Off)
  BY OffOK
<1>4. updatePoll' \in [Polls -> Calls] /\ \A p \in Polls : CallOK(updatePoll'[p])
  BY <1>3 DEF Updates!ApiStarts, CallOK
<1>5. CallOK(updateDeploy')
  <2>1. PICK pc \in {"off", "locked"} : updateDeploy' = [Updates!Off EXCEPT !.pc = pc]
    BY DEF Updates!ApiStarts
  <2>2. CallOK([Updates!Off EXCEPT !.pc = pc])
    BY Versions DEF CallOK, Calls, Updates!Off
  <2>. QED BY <2>1, <2>2
<1>. QED BY <1>1, <1>2, <1>4, <1>5 DEF Updates!ApiStarts

\* The API starts on versions that were switched to.
LEMMA InvApiStarts ==
  ASSUME Updates!UpdatesAssumption, UpdateInv, NEW versions \in [Managed -> updateApplied],
         Updates!ApiStarts(versions), UNCHANGED <<updateLatest, updateJob, updateResult,
                                                  updateRelease, updateApplied>>,
         updateScript' \in Scripts, updateScript'.pc \in Switched
           => updateScript'.target \in updateApplied
  PROVE  UpdateInv'
<1>1. /\ updateRunning' \in [Managed -> updateApplied] /\ StateOK(updateMemory')
         /\ StateOK(updateRow')
      /\ updatePoll' \in [Polls -> Calls] /\ (\A p \in Polls : CallOK(updatePoll'[p]))
         /\ CallOK(updateDeploy')
  BY ApiStartsOK
<1>2. StateOK(updateMemory)' /\ StateOK(updateRow)'
  BY <1>1 DEF StateOK, Backed
<1>3. \A p \in Polls : CallOK(updatePoll[p])'
  BY <1>1 DEF CallOK, StateOK, Backed
<1>4. CallOK(updateDeploy)'
  BY <1>1 DEF CallOK, StateOK, Backed
<1>. QED BY <1>1, <1>2, <1>3, <1>4 DEF UpdateInv, Scripts, Backed

LEMMA InvSwitch ==
  ASSUME Updates!UpdatesAssumption, UpdateInv, NEW c \in {"api", "frontend"},
         NEW at \in {"switch api", "switch frontend"}, NEW next \in {"switch frontend",
           "restart api"},
         Updates!Switch(c, at, next)
  PROVE  UpdateInv'
<1>1. /\ UNCHANGED <<updateMemory, updateRow, updatePoll, updateDeploy, updateJob, updateResult,
                     updateRunning, updateLatest>>
      /\ updateApplied \subseteq Updates!Version /\ updateRelease \in [Managed -> updateApplied]
         /\ updateRunning \in [Managed -> updateApplied]
      /\ updateResult \in Results \cup {None} /\ updateScript \in Scripts
  BY DEF Updates!Switch, Updates!requests, UpdateInv
<1>2. CASE /\ updateRelease' = IF c \in Managed
                                THEN [updateRelease EXCEPT ![c] = updateScript.target]
                                ELSE updateRelease
           /\ updateApplied' = updateApplied \cup {updateScript.target} /\ Updates!Goto(next)
  <2>1. updateScript' \in Scripts /\ updateScript'.pc = next
        /\ updateScript'.target = updateScript.target
    BY <1>2, ScriptGoes DEF Switched
  <2>2. updateApplied' \subseteq Updates!Version /\ updateApplied \subseteq updateApplied'
        /\ updateScript'.target \in updateApplied'
    BY <1>1, <1>2, <2>1 DEF Scripts
  <2>3. updateRelease' \in [Managed -> updateApplied']
        /\ updateRunning' \in [Managed -> updateApplied']
    BY <1>1, <1>2, <2>1, <2>2
  <2>4. updateScript' \in [pc : Switched \cup {"off", "start", "build", "switch api", "rollback",
                           "restart old",
                                               "report failed"},
                           target : Updates!Version, old : [Managed -> updateApplied']]
    BY <2>1, <2>2 DEF Scripts
  <2>. QED BY <1>1, <2>2, <2>3, <2>4, SupervisorInv
<1>3. CASE Updates!Goto("report failed") /\ UNCHANGED <<updateRelease, updateApplied>>
  <2>1. updateScript' \in Scripts /\ updateScript'.pc = "report failed"
    BY <1>3, ScriptGoes
  <2>. QED BY <1>1, <1>3, <2>1, SupervisorInv DEF Scripts, Switched
<1>. QED BY <1>2, <1>3 DEF Updates!Switch

\* A step of the script that moves nothing but itself and the result.
LEMMA InvScript ==
  ASSUME Updates!UpdatesAssumption, UpdateInv,
         UNCHANGED <<updateMemory, updateRow, updatePoll, updateDeploy, updateJob, updateLatest,
                     updateRelease, updateRunning, updateApplied>>,
         updateResult' \in Results \cup {None},
         updateResult' # None /\ updateResult'.status = "completed"
           => updateResult' = updateResult \/ updateResult'.target \in updateApplied,
         updateScript' \in Scripts, updateScript'.pc \in Switched
           => updateScript'.target \in updateApplied
  PROVE  UpdateInv'
<1>1. updateApplied \subseteq Updates!Version /\ updateRelease \in [Managed -> updateApplied]
      /\ updateRunning \in [Managed -> updateApplied]
  BY DEF UpdateInv
<1>. QED BY <1>1, SupervisorInv DEF Scripts

LEMMA InvSupervisor ==
  ASSUME Updates!UpdatesAssumption, UpdateInv, Updates!Supervisor
  PROVE  UpdateInv'
<1>1. /\ updateResult \in Results \cup {None} /\ updateScript \in Scripts
         /\ updateJob \in Updates!Version
      /\ updateRelease \in [Managed -> updateApplied]
         /\ updateRunning \in [Managed -> updateApplied] /\ 0 \in updateApplied
      /\ (updateScript.pc \in Switched => updateScript.target \in updateApplied)
      /\ updateApplied \subseteq Updates!Version
  BY DEF UpdateInv
<1>2. CASE Updates!ReadJob
  <2>1. updateScript' \in Scripts /\ updateScript'.pc = "build"
    BY <1>1, <1>2 DEF Updates!ReadJob, Scripts
  <2>. QED BY <1>1, <1>2, <2>1, InvScript
       DEF Updates!ReadJob, Updates!requests, Updates!hostIdle, Updates!bounds, Switched
<1>3. CASE Updates!Build
  <2>1. updateScript' \in Scripts /\ updateScript'.pc \in {"switch api", "report failed"}
    BY <1>3, ScriptGoes DEF Updates!Build
  <2>. QED BY <1>1, <1>3, <2>1, InvScript DEF Updates!Build, Updates!requests, Updates!hostIdle,
           Switched
<1>4. CASE Updates!Switch("api", "switch api", "switch frontend")
  BY <1>4, InvSwitch
<1>5. CASE Updates!Switch("frontend", "switch frontend", "restart api")
  BY <1>5, InvSwitch
<1>6. CASE Updates!RestartApi
  <2>1. updateScript.target \in updateApplied
    BY <1>1, <1>6 DEF Updates!RestartApi, Updates!Step, Switched
  <2>2. updateScript' \in Scripts /\ updateScript'.target \in updateApplied
    BY <1>6, <2>1, ScriptGoes DEF Updates!RestartApi, Switched
  <2>3. [updateRunning EXCEPT !["api"] = updateRelease["api"]] \in [Managed -> updateApplied]
    BY <1>1, Versions
  <2>. QED BY <1>6, <2>2, <2>3, InvApiStarts DEF Updates!RestartApi, Updates!bounds
<1>7. ASSUME NEW at \in Switched, NEW next \in Switched, Updates!Check(at, next)
      PROVE  UpdateInv'
  <2>1. updateScript.target \in updateApplied
    BY <1>1, <1>7 DEF Updates!Check, Updates!Step
  <2>2. updateScript' \in Scripts /\ updateScript'.target \in updateApplied
    BY <1>7, <2>1, ScriptGoes DEF Updates!Check
  <2>. QED BY <1>1, <1>7, <2>2, InvScript DEF Updates!Check, Updates!requests, Updates!hostIdle
<1>8. CASE Updates!RestartFrontend
  <2>1. updateScript.target \in updateApplied
    BY <1>1, <1>8 DEF Updates!RestartFrontend, Updates!Step, Switched
  <2>2. updateScript' \in Scripts /\ updateScript'.target \in updateApplied
    BY <1>8, <2>1, ScriptGoes DEF Updates!RestartFrontend, Switched
  <2>3. updateRunning' \in [Managed -> updateApplied]
    BY <1>1, <1>8 DEF Updates!RestartFrontend
  <2>. QED BY <1>1, <1>8, <2>2, <2>3, SupervisorInv
       DEF Updates!RestartFrontend, Updates!requests, Updates!bounds, Scripts
<1>9. CASE Updates!Rollback
  <2>1. updateScript' \in Scripts /\ updateScript'.pc = "restart old"
    BY <1>9, ScriptGoes DEF Updates!Rollback
  <2>2. updateRelease' \in [Managed -> updateApplied]
    BY <1>1, <1>9 DEF Updates!Rollback, Scripts
  <2>. QED BY <1>1, <1>9, <2>1, <2>2, SupervisorInv
       DEF Updates!Rollback, Updates!requests, Updates!bounds, Scripts, Switched
<1>10. CASE Updates!RestartOld
  <2>1. updateScript' \in Scripts /\ updateScript'.pc = "report failed"
    BY <1>10, ScriptGoes DEF Updates!RestartOld
  <2>. QED BY <1>1, <1>10, <2>1, InvApiStarts DEF Updates!RestartOld, Updates!bounds, Switched
<1>11. ASSUME NEW at, NEW status \in {"completed", "failed"}, Updates!Report(at, status),
              status = "completed" => at \in Switched
       PROVE  UpdateInv'
  <2>1. updateResult' = [status |-> status, target |-> updateScript.target]
        /\ updateScript' = Updates!Ended
    BY <1>11 DEF Updates!Report
  <2>2. updateResult' \in Results /\ updateResult'.status = status
        /\ updateResult'.target = updateScript.target
    BY <1>1, <2>1 DEF Results, Scripts
  <2>3. updateScript' \in Scripts /\ updateScript'.pc = "off"
    BY <1>1, <2>1, Versions DEF Scripts, Updates!Ended
  <2>4. status = "completed" => updateScript.target \in updateApplied
    BY <1>1, <1>11 DEF Updates!Report, Updates!Step
  <2>. QED BY <1>1, <1>11, <2>2, <2>3, <2>4, InvScript DEF Updates!Report, Updates!requests,
           Updates!bounds, Switched
<1>12. "report completed" \in Switched /\ "check api" \in Switched
       /\ "restart frontend" \in Switched
       /\ "check frontend" \in Switched
  BY DEF Switched
<1>. QED BY <1>2, <1>3, <1>4, <1>5, <1>6, <1>7, <1>8, <1>9, <1>10, <1>11, <1>12
         DEF Updates!Supervisor

LEMMA UpdatesInit ==
  ASSUME Updates!UpdatesAssumption, Updates!Init
  PROVE  UpdateInv
<1>1. StateOK(updateMemory) /\ StateOK(updateRow)
  BY Versions DEF Updates!Init, StateOK, Updates!State
<1>2. updatePoll \in [Polls -> Calls] /\ (\A p \in Polls : CallOK(updatePoll[p]))
      /\ CallOK(updateDeploy)
  BY OffOK DEF Updates!Init, CallOK
<1>3. updateRelease \in [Managed -> updateApplied]
      /\ updateRunning \in [Managed -> updateApplied] /\ updateApplied = {0}
         /\ updateResult = None
      /\ updateLatest = 0 /\ updateJob = 0
  BY DEF Updates!Init
<1>4. updateScript \in Scripts /\ updateScript.pc = "off"
  BY <1>3, Versions DEF Updates!Init, Updates!Ended, Scripts
<1>. QED BY <1>1, <1>2, <1>3, <1>4, Versions DEF UpdateInv, Switched

LEMMA UpdatesKept ==
  ASSUME Updates!UpdatesAssumption, UpdateInv, [Updates!Next]_(Updates!vars)
  PROVE  UpdateInv'
<1>1. CASE UNCHANGED Updates!vars
  BY <1>1 DEF Updates!vars, Updates!requests, Updates!host, Updates!bounds, UpdateInv, StateOK,
     CallOK, Backed, Scripts
<1>2. CASE Updates!StartByHand
  <2>1. updateScript' \in Scripts /\ updateScript'.pc = "start"
    BY <1>2, ScriptGoes DEF Updates!StartByHand
  <2>2. updateResult \in Results \cup {None}
    BY DEF UpdateInv
  <2>. QED BY <1>2, <2>1, <2>2, InvScript
       DEF Updates!StartByHand, Updates!requests, Updates!hostIdle, Updates!bounds, Switched
<1>3. CASE Updates!Crash
  <2>1. [updateRunning EXCEPT !["api"] = updateRelease["api"]] \in [Managed -> updateApplied]
    BY Versions DEF UpdateInv
  <2>. QED BY <1>3, <2>1, InvApiStarts DEF Updates!Crash, UpdateInv
<1>4. CASE Updates!Publish
  <2>1. updateLatest' \in Updates!Version
    BY <1>4, Versions DEF Updates!Publish, UpdateInv
  <2>. QED BY <1>4, <2>1, RequestsInv DEF Updates!Publish, Updates!requests, Updates!host,
           UpdateInv
<1>. QED BY <1>1, <1>2, <1>3, <1>4, InvDeploy, InvSupervisor, InvPoll DEF Updates!Next

\* For any versions, deployments, status requests, failed writes and crashes: an
\* update that is on record as completed, in the memory or in the row, was
\* switched to, or a later one was (SystemUpdateService and the supervisor's script).
THEOREM CompletedWasAppliedAlways == PanelSpec => []CompletedWasApplied
<1>. DEFINE I == part = "updates" => UpdateInv
<1>1. PanelInit => I
  BY UpdatesInit, UpdatesFit DEF PanelInit
<1>2. I /\ [PanelNext]_panelVars => I'
  BY UpdatesKept, UpdatesFit, PartMoves
<1>3. I => CompletedWasApplied
  BY DEF UpdateInv, StateOK, Backed, CompletedWasApplied, Updates!CompletedWasApplied
<1>. QED BY <1>1, <1>2, <1>3, PTL DEF PanelSpec

-----------------------------------------------------------------------------
(***************************************************************************)
(* Browser streams: StreamsSound, for frames of any sizes and a queue of   *)
(* any length.                                                             *)
(*                                                                         *)
(* What waits continues what was written, number by number; a response     *)
(* that is full, or behind which something waits, has its "drain" still    *)
(* to come; only a console has a queue or a timer to flush it.             *)
(***************************************************************************)

Frames == [n : Nat, size : Sizes]

StreamTypes ==
  /\ responsePc \in {"asked", "refused", "replay", "live", "flush"} /\ responseRes \in {"open",
     "ended", "gone"}
  /\ responseDraining \in BOOLEAN /\ responseClosed \in BOOLEAN
     /\ responseBackpressured \in BOOLEAN /\ responseKick \in BOOLEAN
  /\ responseHeartbeat \in BOOLEAN /\ responseSubscribed \in BOOLEAN
     /\ responseUnsubscribe \in BOOLEAN /\ responseRetained \in BOOLEAN
  /\ responseQueue \in Seq(Frames) /\ responseEmitted \in Nat /\ responseLast \in Nat

\* A request has nothing before it is let in; a stream that is closed has no
\* timer, and a console that was closed during the replay is still to leave.
Released ==
  /\ responsePc \in {"asked", "refused"} =>
       /\ responseEmitted = 0 /\ responseLast = 0 /\ responseQueue = <<>>
       /\ ~responseClosed /\ ~responseKick /\ ~responseBackpressured /\ ~responseRetained
          /\ ~responseSubscribed
  /\ responsePc \in {"asked", "refused", "replay"} => ~responseUnsubscribe
  /\ responsePc = "replay" /\ responseClosed => responseKind = "console"
  /\ responsePc \in {"live", "flush"} /\ responseSubscribed
     => responseUnsubscribe /\ ~responseClosed
  /\ responseClosed => ~responseKick /\ ~responseHeartbeat /\ responseQueue = <<>>
  /\ responsePc = "flush" => ~responseClosed /\ responseRes = "open" /\ responseQueue # <<>>
  /\ responseKind # "console" => ~responseRetained /\ responseQueue = <<>>

StreamInv ==
  /\ StreamTypes /\ Released
  /\ Responses!NothingSkipped /\ Responses!NeverStuck
  /\ responseCloseEvent = "delivered" => responseClosed

LEMMA QueueGrows ==
  ASSUME NEW q \in Seq(Frames), NEW f \in Frames
  PROVE  LET r == Append(q, f) IN
         /\ r \in Seq(Frames) /\ r # <<>> /\ Len(r) = Len(q) + 1 /\ Len(q) \in Nat
         /\ DOMAIN q = 1 .. Len(q) /\ DOMAIN r = 1 .. Len(q) + 1
         /\ r[Len(q) + 1] = f /\ \A i \in 1 .. Len(q) : r[i] = q[i]
<1>1. /\ Append(q, f) \in Seq(Frames) /\ Len(Append(q, f)) = Len(q) + 1 /\ Len(q) \in Nat
      /\ Append(q, f)[Len(q) + 1] = f /\ \A i \in 1 .. Len(q) : Append(q, f)[i] = q[i]
  OBVIOUS
<1>. QED BY <1>1, EmptySeq, LenProperties

LEMMA QueueShrinks ==
  ASSUME NEW q \in Seq(Frames), q # <<>>
  PROVE  /\ Head(q) = q[1] /\ q[1] \in Frames /\ Tail(q) \in Seq(Frames) /\ Len(q) \in Nat
            /\ Len(q) >= 1
         /\ Len(Tail(q)) = Len(q) - 1 /\ \A i \in 1 .. Len(q) - 1 : Tail(q)[i] = q[i + 1]
         /\ DOMAIN q = 1 .. Len(q) /\ DOMAIN Tail(q) = 1 .. Len(q) - 1
<1>1. Len(q) \in Nat \ {0}
  BY EmptySeq
<1>2. Tail(q) \in Seq(Frames) /\ Len(Tail(q)) = Len(q) - 1
      /\ \A i \in 1 .. Len(Tail(q)) : Tail(q)[i] = q[i + 1]
  BY HeadTailProperties
<1>. QED BY <1>1, <1>2, LenProperties

LEMMA EmptyQueue == /\ <<>> \in Seq(Frames) /\ Len(<<>>) = 0 /\ DOMAIN <<>> = {}
BY EmptySeq

\* A response that is closed is released.
LEMMA CloseCloses ==
  ASSUME StreamInv, NEW destroy \in BOOLEAN, Responses!CloseResponse(destroy),
         UNCHANGED <<responseKind, responsePc>>, responsePc \in {"replay", "live"},
           responsePc = "replay" => responseKind = "console",
         responseEmitted' \in Nat
  PROVE  StreamInv'
<1>1. /\ responseClosed' = TRUE /\ responseHeartbeat' = FALSE /\ responseKick' = FALSE
         /\ responseQueue' = <<>>
      /\ responseSubscribed' = (responseSubscribed /\ ~responseUnsubscribe)
         /\ responseUnsubscribe' = FALSE
      /\ responseRes' \in {"open", "ended", "gone"}
      /\ UNCHANGED <<responseDraining, responseBackpressured, responseLast, responseRetained>>
  BY DEF Responses!CloseResponse, StreamInv, StreamTypes, Responses!streamVars
<1>2. StreamTypes'
  BY <1>1, EmptyQueue DEF StreamInv, StreamTypes
<1>3. Released'
  BY <1>1 DEF StreamInv, StreamTypes, Released
<1>4. Responses!NothingSkipped' /\ Responses!NeverStuck'
  BY <1>1 DEF Responses!NothingSkipped, Responses!NeverStuck, Responses!canWrite
<1>. QED BY <1>1, <1>2, <1>3, <1>4 DEF StreamInv

LEMMA ConsoleEvents ==
  ASSUME StreamInv, NEW size \in Sizes, responseKind = "console", Responses!ConsoleEvent(size),
         responseEmitted' = responseEmitted + 1,
         UNCHANGED <<responseKind, responsePc>>, responsePc \in {"replay", "live"}
  PROVE  StreamInv'
<1> DEFINE frame == [n |-> responseEmitted + 1, size |-> size]
<1>1. frame \in Frames /\ responseEmitted' \in Nat /\ frame.n = responseEmitted + 1
  BY DEF Frames, StreamInv, StreamTypes
<1>2. CASE ~Responses!canWrite
  <2>1. Responses!Keeps /\ UNCHANGED <<responseQueue, Responses!streamVars>>
    BY <1>2 DEF Responses!ConsoleEvent
  <2>. QED BY <1>1, <1>2, <2>1 DEF StreamInv, StreamTypes, Released, Responses!NothingSkipped,
           Responses!NeverStuck,
          Responses!canWrite, Responses!Keeps, Responses!streamVars
<1>3. CASE Responses!canWrite /\ Responses!MustWait
  <2>1. \/ Responses!CloseResponse(TRUE)
        \/ responseQueue' = Append(responseQueue, frame) /\ Responses!Keeps
           /\ UNCHANGED Responses!streamVars
    BY <1>3 DEF Responses!ConsoleEvent
  <2>2. CASE responseQueue' = Append(responseQueue, frame) /\ Responses!Keeps
             /\ UNCHANGED Responses!streamVars
    <3>. HIDE DEF frame
    <3>1. /\ responseQueue' \in Seq(Frames) /\ responseQueue' # <<>>
             /\ Len(responseQueue') = Len(responseQueue) + 1 /\ Len(responseQueue) \in Nat
          /\ DOMAIN responseQueue = 1 .. Len(responseQueue)
             /\ DOMAIN responseQueue' = 1 .. Len(responseQueue) + 1
          /\ responseQueue'[Len(responseQueue) + 1] = frame
             /\ \A i \in 1 .. Len(responseQueue) : responseQueue'[i] = responseQueue[i]
      BY <1>1, <2>2, QueueGrows DEF StreamInv, StreamTypes
    <3>2. StreamTypes'
      BY <1>1, <2>2, <3>1 DEF StreamInv, StreamTypes, Responses!Keeps, Responses!streamVars
    <3>3. Released'
      BY <1>3, <2>2 DEF StreamInv, Released, Responses!Keeps, Responses!streamVars,
         Responses!canWrite
    <3>4. Responses!NothingSkipped'
      <4>1. /\ responseLast + Len(responseQueue) = responseEmitted
               /\ (\A i \in 1 .. Len(responseQueue) : responseQueue[i].n = responseLast + i)
            /\ responseLast' = responseLast /\ responseLast \in Nat /\ responseEmitted \in Nat
        BY <1>3, <2>2, <3>1 DEF StreamInv, StreamTypes, Responses!NothingSkipped,
           Responses!streamVars
      <4>2. \A i \in 1 .. Len(responseQueue) + 1 : i \in 1 .. Len(responseQueue)
            \/ i = Len(responseQueue) + 1
        BY <3>1
      <4>3. \A i \in 1 .. Len(responseQueue) : responseQueue'[i].n = responseLast + i
        BY <3>1, <4>1
      <4>4. responseQueue'[Len(responseQueue) + 1].n = responseLast + (Len(responseQueue) + 1)
        BY <1>1, <3>1, <4>1
      <4>5. \A i \in 1 .. Len(responseQueue) + 1 : responseQueue'[i].n = responseLast + i
        BY <4>2, <4>3, <4>4
      <4>. QED BY <3>1, <4>1, <4>5 DEF Responses!NothingSkipped
    <3>5. Responses!NeverStuck'
      BY <1>3, <2>2 DEF StreamInv, Responses!NeverStuck, Responses!Keeps, Responses!streamVars,
         Responses!MustWait, Responses!canWrite
    <3>. QED BY <2>2, <3>2, <3>3, <3>4, <3>5 DEF StreamInv, Responses!Keeps
  <2>. QED BY <1>1, <2>1, <2>2, CloseCloses
<1>4. CASE Responses!canWrite /\ ~Responses!MustWait
  <2>1. PICK full \in BOOLEAN : Responses!WriteFrame(responseEmitted + 1, full)
             /\ Responses!Keeps /\ UNCHANGED responseQueue
    BY <1>4 DEF Responses!ConsoleEvent
  <2>2. /\ responseBackpressured' = full /\ responseDraining' = full
           /\ responseLast' = responseEmitted + 1 /\ responseRetained' = TRUE
        /\ responseKick' = (responseKick \/ ~full) /\ responseQueue = <<>>
           /\ responseQueue' = <<>> /\ ~responseClosed
        /\ UNCHANGED <<responseRes, responseCloseEvent, responseClosed, responseHeartbeat,
                       responseSubscribed, responseUnsubscribe>>
    BY <1>4, <2>1 DEF Responses!WriteFrame, Responses!Writes, Responses!Keeps,
       Responses!MustWait, Responses!canWrite
  <2>3. StreamTypes'
    BY <1>1, <2>2 DEF StreamInv, StreamTypes
  <2>4. Released'
    BY <2>2 DEF StreamInv, Released
  <2>5. Responses!NothingSkipped'
    BY <1>1, <2>2, EmptyQueue DEF Responses!NothingSkipped, StreamInv, StreamTypes
  <2>6. Responses!NeverStuck'
    <3>1. CASE full BY <2>2, <3>1 DEF Responses!NeverStuck
    <3>2. CASE ~full BY <2>2, <3>2 DEF Responses!NeverStuck
    <3>. QED BY <3>1, <3>2
  <2>. QED BY <2>2, <2>3, <2>4, <2>5, <2>6 DEF StreamInv
<1>. QED BY <1>2, <1>3, <1>4

LEMMA StatsEvents ==
  ASSUME StreamInv, responseKind # "console", Responses!StatsEvent,
         responseEmitted' = responseEmitted + 1,
         UNCHANGED <<responseKind, responsePc>>, responsePc \in {"replay", "live"}
  PROVE  StreamInv'
<1>1. /\ UNCHANGED <<responseQueue, responseRes, responseCloseEvent, responseClosed,
                     responseHeartbeat, responseSubscribed, responseUnsubscribe, responseKick,
                       responseRetained>>
      /\ responseLast' \in {responseLast, responseEmitted + 1}
      /\ \/ UNCHANGED <<responseBackpressured, responseDraining>>
         \/ \E full \in BOOLEAN : responseBackpressured' = full /\ responseDraining' = full
  BY DEF Responses!StatsEvent, Responses!Keeps, Responses!streamVars, Responses!Writes
<1>2. StreamTypes'
  BY <1>1 DEF StreamInv, StreamTypes
<1>3. Released'
  BY <1>1 DEF StreamInv, Released
<1>4. Responses!NothingSkipped'
  BY DEF Responses!NothingSkipped
<1>5. Responses!NeverStuck'
  BY <1>1 DEF StreamInv, Released, Responses!NeverStuck, Responses!canWrite
<1>. QED BY <1>1, <1>2, <1>3, <1>4, <1>5 DEF StreamInv

LEMMA Events ==
  ASSUME StreamInv, NEW size \in Sizes, Responses!Event(size), UNCHANGED <<responseKind,
         responsePc>>, responsePc \in {"replay", "live"}
  PROVE  StreamInv'
BY ConsoleEvents, StatsEvents DEF Responses!Event

LEMMA Asked ==
  ASSUME StreamInv, Responses!Refuse \/ Responses!Attach
  PROVE  StreamInv'
<1>1. /\ responsePc = "asked" /\ responsePc' \in {"refused", "replay"}
      /\ UNCHANGED <<responseKind, responseRes, responseCloseEvent, responseClosed,
                     responseQueue, responseUnsubscribe, responseEmitted>>
  BY DEF Responses!Refuse, Responses!Attach
<1>2. CASE Responses!Refuse
  <2>1. responsePc' = "refused" /\ UNCHANGED <<responseHeartbeat, responseSubscribed,
                                               responseDraining, responseBackpressured,
                                                 responseKick, responseLast, responseRetained>>
    BY <1>2 DEF Responses!Refuse, Responses!streamVars
  <2>. QED BY <1>1, <2>1 DEF StreamInv, StreamTypes, Released,
       Responses!NothingSkipped, Responses!NeverStuck, Responses!canWrite
<1>3. CASE Responses!Attach
  <2>1. /\ responsePc' = "replay" /\ responseHeartbeat' \in BOOLEAN /\ responseSubscribed' = TRUE
        /\ \/ UNCHANGED <<responseDraining, responseBackpressured, responseKick, responseLast,
                          responseRetained>>
           \/ \E full \in BOOLEAN :
                /\ responseBackpressured' = full /\ responseDraining' = full
                /\ \/ responseKind = "console" /\ responseLast' = 0 /\ responseRetained' = TRUE
                      /\ responseKick' = (responseKick \/ ~full)
                   \/ UNCHANGED <<responseKick, responseLast, responseRetained>>
    BY <1>3 DEF Responses!Attach, Responses!WriteFrame, Responses!Writes, Responses!streamVars
  <2>2. /\ responseEmitted = 0 /\ responseLast = 0 /\ responseQueue = <<>>
        /\ ~responseClosed /\ ~responseKick /\ ~responseBackpressured /\ ~responseRetained
           /\ ~responseUnsubscribe
    BY <1>1 DEF StreamInv, Released
  <2>3. responseLast' = 0 /\ responseEmitted' = 0 /\ responseQueue' = <<>> /\ ~responseClosed'
        /\ ~responseUnsubscribe'
    BY <1>1, <2>1, <2>2
  <2>4. StreamTypes'
    BY <1>1, <2>1, <2>2, <2>3 DEF StreamInv, StreamTypes
  <2>5. Released'
    BY <1>1, <2>1, <2>2, <2>3 DEF StreamInv, Released
  <2>6. Responses!NothingSkipped'
    BY <2>3, EmptyQueue DEF Responses!NothingSkipped
  <2>7. Responses!NeverStuck'
    <3>1. CASE UNCHANGED <<responseDraining, responseBackpressured, responseKick, responseLast,
                           responseRetained>>
      BY <2>2, <2>3, <3>1 DEF Responses!NeverStuck
    <3>2. CASE \E full \in BOOLEAN :
                /\ responseBackpressured' = full /\ responseDraining' = full
                /\ \/ responseKind = "console" /\ responseLast' = 0 /\ responseRetained' = TRUE
                      /\ responseKick' = (responseKick \/ ~full)
                   \/ UNCHANGED <<responseKick, responseLast, responseRetained>>
      <4>1. PICK full \in BOOLEAN :
                /\ responseBackpressured' = full /\ responseDraining' = full
                /\ \/ responseKind = "console" /\ responseLast' = 0 /\ responseRetained' = TRUE
                      /\ responseKick' = (responseKick \/ ~full)
                   \/ UNCHANGED <<responseKick, responseLast, responseRetained>>
        BY <3>2
      <4>2. CASE full BY <2>3, <4>1, <4>2 DEF Responses!NeverStuck
      <4>3. CASE ~full BY <2>2, <2>3, <4>1, <4>3 DEF Responses!NeverStuck
      <4>. QED BY <4>2, <4>3
    <3>. QED BY <2>1, <3>1, <3>2
  <2>. QED BY <1>1, <2>3, <2>4, <2>5, <2>6, <2>7 DEF StreamInv
<1>. QED BY <1>2, <1>3

LEMMA Returns ==
  ASSUME StreamInv, Responses!Subscribed
  PROVE  StreamInv'
<1>1. /\ responsePc = "replay" /\ responsePc' = "live"
      /\ responseSubscribed' = (responseSubscribed /\ ~Responses!Leaves)
         /\ responseUnsubscribe' = ~Responses!Leaves
      /\ UNCHANGED <<responseKind, responseRes, responseCloseEvent, responseClosed,
                     responseQueue, responseHeartbeat, responseEmitted,
                     responseDraining, responseBackpressured, responseKick, responseLast,
                       responseRetained>>
  BY DEF Responses!Subscribed, Responses!streamVars
<1>2. responseClosed => Responses!Leaves
  BY <1>1 DEF StreamInv, Released, Responses!Leaves
<1>3. StreamTypes'
  BY <1>1 DEF StreamInv, StreamTypes, Responses!Leaves
<1>4. Released'
  BY <1>1, <1>2 DEF StreamInv, Released
<1>5. Responses!NothingSkipped' /\ Responses!NeverStuck'
  BY <1>1 DEF StreamInv, Responses!NothingSkipped, Responses!NeverStuck, Responses!canWrite
<1>. QED BY <1>1, <1>3, <1>4, <1>5 DEF StreamInv

LEMMA Ends ==
  ASSUME StreamInv, Responses!Terminal
  PROVE  StreamInv'
<1>1. responsePc = "live" /\ responseKind = "console" /\ responseEmitted' = responseEmitted + 1
      /\ responseEmitted' \in Nat /\ UNCHANGED <<responseKind, responsePc>>
  BY DEF Responses!Terminal, StreamInv, StreamTypes
<1>2. CASE Responses!canWrite /\ ~Responses!MustWait
  <2>1. /\ \E full \in BOOLEAN : responseBackpressured' = full /\ responseDraining' = full
        /\ responseLast' = responseEmitted + 1 /\ responseRetained' = FALSE
        /\ responseClosed' = TRUE /\ responseHeartbeat' = FALSE /\ responseKick' = FALSE
           /\ responseQueue' = <<>>
        /\ responseSubscribed' = FALSE /\ responseUnsubscribe' = FALSE
        /\ responseRes' = "ended" /\ responseCloseEvent' = "pending"
    BY <1>2 DEF Responses!Terminal, Responses!Writes
  <2>2. StreamTypes'
    BY <1>1, <2>1, EmptyQueue DEF StreamInv, StreamTypes
  <2>3. Released'
    BY <1>1, <2>1 DEF Released
  <2>4. Responses!NothingSkipped' /\ Responses!NeverStuck'
    BY <2>1 DEF Responses!NothingSkipped, Responses!NeverStuck, Responses!canWrite
  <2>. QED BY <2>1, <2>2, <2>3, <2>4 DEF StreamInv
<1>3. CASE ~(Responses!canWrite /\ ~Responses!MustWait)
  <2>1. PICK destroy \in BOOLEAN : Responses!CloseResponse(destroy)
    <3>1. Responses!CloseResponse(Responses!MustWait
                                  /\ Responses!Bytes(responseQueue) + 1 > MaxWaiting)
      BY <1>3 DEF Responses!Terminal
    <3>2. (Responses!MustWait /\ Responses!Bytes(responseQueue) + 1 > MaxWaiting) \in BOOLEAN
      OBVIOUS
    <3>. HIDE DEF Responses!CloseResponse, Responses!MustWait
    <3>. QED BY <3>1, <3>2
  <2>. QED BY <1>1, <2>1, CloseCloses
<1>. QED BY <1>2, <1>3

LEMMA Drains ==
  ASSUME StreamInv, Responses!Drain
  PROVE  StreamInv'
<1>1. /\ responsePc = "live" /\ responseDraining' = FALSE
      /\ UNCHANGED <<responseKind, responseRes, responseCloseEvent, responseClosed,
                     responseQueue, responseKick, responseHeartbeat, responseSubscribed,
                       responseUnsubscribe, responseEmitted, responseLast>>
  BY DEF Responses!Drain
<1>2. CASE Responses!canWrite
  <2>1. responseBackpressured' = FALSE /\ responseRetained' = FALSE
        /\ responsePc' = IF responseQueue = <<>> THEN "live" ELSE "flush"
    BY <1>2 DEF Responses!Drain
  <2>2. StreamTypes'
    BY <1>1, <2>1 DEF StreamInv, StreamTypes
  <2>3. Released'
    BY <1>1, <1>2, <2>1 DEF StreamInv, Released, Responses!canWrite
  <2>4. Responses!NothingSkipped' /\ Responses!NeverStuck'
    BY <1>1, <1>2, <2>1 DEF StreamInv, Responses!NothingSkipped, Responses!NeverStuck,
       Responses!canWrite
  <2>. QED BY <1>1, <2>2, <2>3, <2>4 DEF StreamInv
<1>3. CASE ~Responses!canWrite
  <2>1. responseBackpressured' = (responseKind # "stats" /\ responseBackpressured)
        /\ UNCHANGED <<responsePc, responseRetained>>
    BY <1>3 DEF Responses!Drain
  <2>. ~Responses!canWrite'
    BY <1>1, <1>3 DEF Responses!canWrite
  <2>2. StreamTypes'
    BY <1>1, <2>1 DEF StreamInv, StreamTypes
  <2>3. Released'
    BY <1>1, <2>1 DEF StreamInv, Released
  <2>4. Responses!NothingSkipped' /\ Responses!NeverStuck'
    BY <2>1 DEF Responses!NothingSkipped, Responses!NeverStuck
  <2>. QED BY <1>1, <2>2, <2>3, <2>4 DEF StreamInv
<1>. QED BY <1>2, <1>3

LEMMA Flushes ==
  ASSUME StreamInv, Responses!Flush
  PROVE  StreamInv'
<1>1. PICK full \in BOOLEAN :
      /\ responsePc = "flush" /\ responseBackpressured' = full /\ responseDraining' = full
      /\ responsePc' = IF full \/ Len(responseQueue) = 1 THEN "live" ELSE "flush"
      /\ responseKick' = (responseKick \/ (~full /\ Len(responseQueue) = 1))
      /\ responseLast' = Head(responseQueue).n /\ responseQueue' = Tail(responseQueue)
         /\ responseRetained' = TRUE
      /\ UNCHANGED <<responseKind, responseEmitted, responseRes, responseCloseEvent,
                     responseClosed, responseHeartbeat, responseSubscribed, responseUnsubscribe>>
  BY DEF Responses!Flush, Responses!Writes, Responses!Keeps
<1>2. responseQueue # <<>> /\ responseQueue \in Seq(Frames) /\ ~responseClosed
      /\ responseRes = "open" /\ responseKind = "console" /\ responseLast \in Nat
  BY <1>1 DEF StreamInv, StreamTypes, Released
<1>3. /\ Head(responseQueue) = responseQueue[1] /\ responseQueue[1] \in Frames
         /\ responseQueue' \in Seq(Frames) /\ Len(responseQueue) \in Nat
            /\ Len(responseQueue) >= 1
      /\ Len(responseQueue') = Len(responseQueue) - 1
         /\ \A i \in 1 .. Len(responseQueue) - 1 : responseQueue'[i] = responseQueue[i + 1]
      /\ DOMAIN responseQueue = 1 .. Len(responseQueue)
         /\ DOMAIN responseQueue' = 1 .. Len(responseQueue) - 1
  BY <1>1, <1>2, QueueShrinks
<1>4. responseLast + Len(responseQueue) = responseEmitted
      /\ \A i \in 1 .. Len(responseQueue) : responseQueue[i].n = responseLast + i
  BY <1>2, <1>3 DEF StreamInv, Responses!NothingSkipped, Responses!canWrite
<1>5. responseLast' = responseLast + 1
  <2>1. 1 \in 1 .. Len(responseQueue)
    BY <1>3
  <2>. QED BY <1>1, <1>3, <1>4, <2>1
<1>6. Len(responseQueue) = 1 <=> responseQueue' = <<>>
  BY <1>3, EmptySeq, EmptyQueue
<1>7. StreamTypes'
  BY <1>1, <1>2, <1>3, <1>5 DEF StreamInv, StreamTypes
<1>8. Released'
  <2>1. responsePc' \in {"live", "flush"} /\ (responsePc' = "flush" => responseQueue' # <<>>)
    BY <1>1, <1>6
  <2>. QED BY <1>1, <1>2, <2>1 DEF StreamInv, Released
<1>9. Responses!NothingSkipped'
  <2>1. responseLast' + Len(responseQueue') = responseEmitted'
    BY <1>1, <1>2, <1>3, <1>4, <1>5
  <2>2. ASSUME NEW i \in 1 .. Len(responseQueue) - 1 PROVE responseQueue'[i].n = responseLast' + i
    <3>1. i + 1 \in 1 .. Len(responseQueue) /\ i \in Nat
      BY <1>3
    <3>2. responseQueue'[i] = responseQueue[i + 1]
      BY <1>3
    <3>3. responseQueue[i + 1].n = responseLast + (i + 1)
      BY <1>4, <3>1
    <3>. QED BY <1>2, <1>5, <3>1, <3>2, <3>3
  <2>. QED BY <1>3, <2>1, <2>2 DEF Responses!NothingSkipped
<1>10. Responses!NeverStuck'
  <2>1. CASE full BY <1>1, <2>1 DEF Responses!NeverStuck
  <2>2. CASE ~full BY <1>1, <1>6, <2>2 DEF Responses!NeverStuck
  <2>. QED BY <2>1, <2>2
<1>. QED BY <1>1, <1>2, <1>7, <1>8, <1>9, <1>10 DEF StreamInv

LEMMA Comments ==
  ASSUME StreamInv, Responses!FlushKick \/ Responses!Heartbeat
  PROVE  StreamInv'
<1>1. /\ responsePc = "live" /\ responseKick' \in {responseKick, FALSE}
      /\ UNCHANGED <<responseKind, responsePc, responseQueue, responseEmitted, responseLast,
                     responseRes, responseCloseEvent, responseClosed, responseHeartbeat,
                       responseSubscribed, responseUnsubscribe>>
      /\ Responses!Comment
  BY DEF Responses!FlushKick, Responses!Heartbeat, Responses!Keeps
<1>. responseKick' => responseKick
  BY <1>1
<1>2. CASE Responses!canWrite /\ ~responseBackpressured /\ responseQueue = <<>>
  <2>1. PICK full \in BOOLEAN : responseBackpressured' = full /\ responseDraining' = full
             /\ responseRetained' = FALSE
    BY <1>1, <1>2 DEF Responses!Comment, Responses!Writes
  <2>2. StreamTypes'
    BY <1>1, <2>1 DEF StreamInv, StreamTypes
  <2>3. Released'
    BY <1>1, <2>1 DEF StreamInv, Released
  <2>4. Responses!NothingSkipped' /\ Responses!NeverStuck'
    BY <1>1, <1>2, <2>1 DEF StreamInv, Responses!NothingSkipped, Responses!NeverStuck,
       Responses!canWrite
  <2>. QED BY <1>1, <2>2, <2>3, <2>4 DEF StreamInv
<1>3. CASE ~(Responses!canWrite /\ ~responseBackpressured /\ responseQueue = <<>>)
  <2>1. UNCHANGED <<responseBackpressured, responseDraining, responseRetained>>
    BY <1>1, <1>3 DEF Responses!Comment
  <2>2. StreamTypes'
    BY <1>1, <2>1 DEF StreamInv, StreamTypes
  <2>3. Released'
    BY <1>1, <2>1 DEF StreamInv, Released
  <2>4. Responses!NothingSkipped' /\ Responses!NeverStuck'
    BY <1>1, <1>3, <2>1 DEF StreamInv, Responses!NothingSkipped, Responses!NeverStuck,
       Responses!canWrite
  <2>. QED BY <1>1, <2>2, <2>3, <2>4 DEF StreamInv
<1>. QED BY <1>2, <1>3

LEMMA Goodbye ==
  ASSUME StreamInv, Responses!CloseFrame
  PROVE  StreamInv'
<1>1. responsePc = "live" /\ UNCHANGED <<responseKind, responsePc>> /\ responseEmitted' \in Nat
      /\ Responses!CloseResponse(TRUE)
  BY DEF Responses!CloseFrame, StreamInv, StreamTypes
<1>. QED BY <1>1, CloseCloses

LEMMA Disconnects ==
  ASSUME StreamInv, Responses!CloseHandler
  PROVE  StreamInv'
<1>1. /\ responsePc = "live" /\ responseCloseEvent' = "delivered" /\ UNCHANGED <<responseKind,
         responsePc, responseEmitted>>
  BY DEF Responses!CloseHandler
<1>2. CASE responseClosed
  <2>1. UNCHANGED <<responseRes, responseClosed, responseQueue, responseHeartbeat,
                    responseSubscribed, responseUnsubscribe, responseDraining,
                      responseBackpressured, responseKick, responseLast, responseRetained>>
    BY <1>2 DEF Responses!CloseHandler, Responses!streamVars
  <2>. QED BY <1>1, <1>2, <2>1 DEF StreamInv, StreamTypes, Released,
       Responses!NothingSkipped, Responses!NeverStuck, Responses!canWrite
<1>3. CASE ~responseClosed
  <2>1. /\ responseClosed' = TRUE /\ responseHeartbeat' = FALSE /\ responseKick' = FALSE
           /\ responseQueue' = <<>>
        /\ responseSubscribed' = (responseSubscribed /\ ~responseUnsubscribe)
           /\ responseUnsubscribe' = FALSE
        /\ UNCHANGED <<responseRes, responseDraining, responseBackpressured, responseLast,
                       responseRetained>>
    BY <1>3 DEF Responses!CloseHandler
  <2>2. StreamTypes'
    BY <1>1, <2>1, EmptyQueue DEF StreamInv, StreamTypes
  <2>3. Released'
    BY <1>1, <2>1 DEF StreamInv, StreamTypes, Released
  <2>4. Responses!NothingSkipped' /\ Responses!NeverStuck'
    BY <2>1 DEF Responses!NothingSkipped, Responses!NeverStuck, Responses!canWrite
  <2>. QED BY <2>1, <2>2, <2>3, <2>4 DEF StreamInv
<1>. QED BY <1>2, <1>3

LEMMA Leaves ==
  ASSUME StreamInv, Responses!Leave
  PROVE  StreamInv'
<1>1. /\ responseRes' = "gone" /\ responsePc \in {"asked", "live"}
         /\ responseCloseEvent' \in {"missed", "pending", responseCloseEvent}
      /\ UNCHANGED <<responseKind, responsePc, responseClosed, responseQueue, responseHeartbeat,
                     responseSubscribed, responseUnsubscribe, responseEmitted, responseDraining,
                       responseBackpressured, responseKick, responseLast, responseRetained>>
  BY DEF Responses!Leave, Responses!streamVars
<1>2. StreamTypes'
  BY <1>1 DEF StreamInv, StreamTypes
<1>3. Released'
  BY <1>1 DEF StreamInv, Released
<1>4. Responses!NothingSkipped' /\ Responses!NeverStuck'
  BY <1>1 DEF Responses!NothingSkipped, Responses!NeverStuck, Responses!canWrite
<1>. QED BY <1>1, <1>2, <1>3, <1>4 DEF StreamInv

LEMMA StreamInit ==
  ASSUME Responses!Init
  PROVE  StreamInv
<1>1. StreamTypes
  BY EmptyQueue DEF Responses!Init, StreamTypes
<1>2. Released
  BY DEF Responses!Init, Released
<1>3. Responses!NothingSkipped
  BY EmptyQueue DEF Responses!Init, Responses!NothingSkipped
<1>4. Responses!NeverStuck
  BY DEF Responses!Init, Responses!NeverStuck
<1>. QED BY <1>1, <1>2, <1>3, <1>4 DEF Responses!Init, StreamInv

LEMMA StreamKept ==
  ASSUME StreamInv, [Responses!Next]_(Responses!vars)
  PROVE  StreamInv'
<1>1. CASE Responses!Replay \/ Responses!Broadcast
  BY <1>1, Events DEF Responses!Replay, Responses!Broadcast
<1>2. CASE UNCHANGED Responses!vars
  BY <1>2 DEF Responses!vars, StreamInv, StreamTypes, Released,
     Responses!NothingSkipped, Responses!NeverStuck, Responses!canWrite
<1>. QED BY <1>1, <1>2, Asked, Returns, Ends, Drains, Flushes, Comments, Goodbye, Disconnects,
         Leaves DEF Responses!Next

\* StreamsSound: for frames of any sizes and any number of them, what a console
\* has handed over is written or waits in order, somebody will write what waits,
\* and a stream that is closed keeps neither timer nor listener
\* (writeEvent, flushQueuedFrames, closeResponse).
THEOREM StreamsSoundAlways == PanelSpec => []StreamsSound
<1>. DEFINE I == part = "streams" => StreamInv
<1>1. PanelInit => I
  BY StreamInit DEF PanelInit
<1>2. I /\ [PanelNext]_panelVars => I'
  BY StreamKept, PartMoves
<1>3. I => StreamsSound
  BY DEF StreamInv, StreamTypes, Released, StreamsSound, Responses!StreamsSound,
     Responses!ClosedIsReleased
<1>. QED BY <1>1, <1>2, <1>3, PTL DEF PanelSpec

-----------------------------------------------------------------------------
(***************************************************************************)
(* The certificate of a node: NodeNotLockedOut, for one API process, any   *)
(* number of rotations, revocations, heartbeats and restarts.              *)
(*                                                                         *)
(* The certificate that the agent presents is always the active or the     *)
(* pending one of the row.  RotationOK says more for each point of a       *)
(* rotation: how far the memory is ahead of the row, or the row of the     *)
(* memory, and what the agent presents meanwhile.  With a second process   *)
(* the row is written from two memories, and the fact fails.               *)
(***************************************************************************)

CertConstants == Certificates!CertificatesAssumption /\ Certificates!NoCertAssumption

BundleOK(r) == certificateRotation[r].pc \notin {"idle", "preflight"}
  => certificateRotation[r].bundle \in Certificates!Cert

CertTypes == Certificates!TypeOK /\ \A r \in Rotators : BundleOK(r)

Rotations == [pc : Certificates!Points, bundle : Certificates!Cert \cup {None},
              write : Certificates!Entry \cup {None}, installed : BOOLEAN]

\* What a replica is given: its entry and its rotation.
LEMMA GivenTypes ==
  ASSUME CertTypes, NEW r \in Rotators, NEW e \in Certificates!Entry, NEW rot \in Rotations,
         rot.pc \notin {"idle", "preflight"} => rot.bundle \in Certificates!Cert,
         certificateRegistry' = [certificateRegistry EXCEPT ![r] = e],
           certificateRotation' = [certificateRotation EXCEPT ![r] = rot],
         certificateTable' \in Certificates!Entry, UNCHANGED <<certificateRefresh,
           certificateBeat, certificateAdmin, certificateRestarts>>,
         certificateAgent' \in [cert : Certificates!Cert, before : Certificates!Cert,
                                up : BOOLEAN],
         certificateIssued' \in Certificates!Cert, certificateMishap' \in BOOLEAN
  PROVE  CertTypes'
<1>1. certificateRegistry' \in [Rotators -> Certificates!Entry]
      /\ certificateRotation' \in [Rotators -> Rotations]
  BY DEF CertTypes, Certificates!TypeOK, Rotations
<1>2. \A q \in Rotators : certificateRotation'[q] = IF q = r THEN rot ELSE certificateRotation[q]
  BY DEF CertTypes, Certificates!TypeOK
<1>3. \A q \in Rotators : BundleOK(q)'
  BY <1>2 DEF CertTypes, BundleOK
<1>. QED BY <1>1, <1>3 DEF CertTypes, Certificates!TypeOK, Rotations

LEMMA ChangedEntry ==
  ASSUME CertConstants, NEW e \in Certificates!Entry
  PROVE  /\ Certificates!Cleared(e) \in Certificates!Entry
         /\ Certificates!Cleared(e).active = e.active /\ Certificates!Cleared(e).pending = None
         /\ Certificates!Cleared(e).revoked = e.revoked
         /\ e.pending # None => /\ Certificates!Activated(e) \in Certificates!Entry
                                /\ Certificates!Activated(e).active = e.pending
                                /\ Certificates!Activated(e).pending = None
BY DEF CertConstants, Certificates!NoCertAssumption, Certificates!Cleared,
   Certificates!Activated, Certificates!Entry

Becomes(r, e, rot) ==
  certificateRegistry' = [certificateRegistry EXCEPT ![r] = e]
    /\ certificateRotation' = [certificateRotation EXCEPT ![r] = rot]

\* The rotation of r at another point, with another write under way.
Moved(r, pc, write) ==
  [pc |-> pc, bundle |-> certificateRotation[r].bundle, write |-> write,
    installed |-> certificateRotation[r].installed]

LEMMA Fields ==
  ASSUME CertTypes, NEW r \in Rotators
  PROVE  /\ certificateRegistry[r] \in Certificates!Entry
         /\ certificateRotation[r] \in Rotations
            /\ certificateRotation[r].bundle \in Certificates!Cert \cup {None}
         /\ certificateRotation[r].write \in Certificates!Entry \cup {None}
            /\ certificateRotation[r].installed \in BOOLEAN
         /\ certificateRotation[r].pc \in Certificates!Points
         /\ certificateAdmin[r] \in Certificates!Entry \cup {None}
            /\ certificateRefresh[r] \in Certificates!Entry \cup {None}
         /\ BundleOK(r)
BY DEF CertTypes, Certificates!TypeOK, Rotations

LEMMA MovedType ==
  ASSUME CertTypes, NEW r \in Rotators, NEW pc \in Certificates!Points,
         NEW write \in Certificates!Entry \cup {None}
  PROVE  Moved(r, pc, write) \in Rotations
BY Fields DEF Moved, Rotations

LEMMA GoBecomes ==
  ASSUME CertTypes, NEW r \in Rotators, NEW pc \in Certificates!Points,
         Certificates!Go(r, pc), UNCHANGED certificateRegistry
  PROVE  Becomes(r, certificateRegistry[r], Moved(r, pc, certificateRotation[r].write))
<1>1. [certificateRotation[r] EXCEPT !.pc = pc] = Moved(r, pc, certificateRotation[r].write)
  BY Fields DEF Moved, Rotations
<1>2. certificateRotation' = [certificateRotation EXCEPT ![r]
                              = [certificateRotation[r] EXCEPT !.pc = pc]]
  BY DEF Certificates!Go
<1>3. certificateRegistry' = [certificateRegistry EXCEPT ![r] = certificateRegistry[r]]
  BY DEF CertTypes, Certificates!TypeOK
<1>. QED BY <1>1, <1>2, <1>3 DEF Becomes

LEMMA GoWritingBecomes ==
  ASSUME CertTypes, NEW r \in Rotators, NEW pc \in Certificates!Points,
         NEW e \in Certificates!Entry, Certificates!GoWriting(r, pc, e)
  PROVE  Becomes(r, e, Moved(r, pc, e))
<1>1. [[certificateRotation[r] EXCEPT !.pc = pc] EXCEPT !.write = e] = Moved(r, pc, e)
  <2>1. [certificateRotation[r] EXCEPT !.pc = pc] = Moved(r, pc, certificateRotation[r].write)
    BY Fields DEF Moved, Rotations
  <2>2. [Moved(r, pc, certificateRotation[r].write) EXCEPT !.write = e] = Moved(r, pc, e)
    BY DEF Moved
  <2>. QED BY <2>1, <2>2
<1>2. certificateRotation' = [certificateRotation EXCEPT ![r]
                              = [[certificateRotation[r] EXCEPT !.pc = pc] EXCEPT !.write = e]]
  BY Fields DEF Certificates!GoWriting, CertTypes, Certificates!TypeOK, Rotations
<1>. QED BY <1>1, <1>2 DEF Becomes, Certificates!GoWriting, Certificates!Change

LEMMA EndBecomes ==
  ASSUME CertTypes, NEW r \in Rotators, Certificates!End(r), UNCHANGED certificateRegistry
  PROVE  Becomes(r, certificateRegistry[r], Certificates!Idle)
BY DEF Certificates!End, Becomes, CertTypes, Certificates!TypeOK

LEMMA FailBecomes ==
  ASSUME CertTypes, CertConstants, NEW r \in Rotators, Certificates!Fail(r)
  PROVE  \/ /\ certificateRotation[r].installed
            /\ Becomes(r, certificateRegistry[r],
                       Moved(r, "rollback", certificateRotation[r].write))
         \/ /\ ~certificateRotation[r].installed
            /\ Becomes(r, Certificates!Cleared(certificateRegistry[r]),
                       Moved(r, "clearing", Certificates!Cleared(certificateRegistry[r])))
<1>1. "rollback" \in Certificates!Points /\ "clearing" \in Certificates!Points
  BY DEF Certificates!Points
<1>2. Certificates!Cleared(certificateRegistry[r]) \in Certificates!Entry
  BY Fields, ChangedEntry
<1>. QED BY <1>1, <1>2, GoBecomes, GoWritingBecomes DEF Certificates!Fail

LEMMA IdleType == CertConstants => Certificates!Idle \in Rotations
BY DEF Certificates!Idle, Rotations, Certificates!Points

-----------------------------------------------------------------------------
Ordered(e) == e.pending # None => e.active < e.pending
Known(e, n) == e.active <= n /\ (e.pending # None => e.pending <= n)
Same(e, f) == e.active = f.active /\ e.pending = f.pending

\* Certificates are numbered: what is pending is younger than what is active,
\* and the agent presents one of the two.
RowOK == Ordered(certificateTable) /\ Known(certificateTable, certificateIssued)
  /\ certificateAgent.cert \in {certificateTable.active, certificateTable.pending}

Pc(r) == certificateRotation[r].pc
Bundle(r) == certificateRotation[r].bundle
Write(r) == certificateRotation[r].write

\* Before a rotation the memory may have forgotten a pending certificate that
\* the row still has; then the agent does not present it.
WaitingOK(r) ==
  Pc(r) \in {"idle", "preflight"} =>
    /\ Write(r) = None /\ Bundle(r) = None /\ ~certificateRotation[r].installed
    /\ certificateRegistry[r].active = certificateTable.active
       /\ certificateRegistry[r].pending \in {None, certificateTable.pending}
    /\ certificateRegistry[r].pending = None \/ Pc(r) = "preflight"
       => certificateAgent.cert = certificateTable.active

\* The new certificate is in the memory, then in the row.
StagingOK(r) ==
  /\ Pc(r) = "staging" =>
       /\ Write(r) # None /\ Same(Write(r), certificateRegistry[r])
          /\ ~certificateRotation[r].installed
       /\ certificateRegistry[r].pending = Bundle(r) /\ certificateRegistry[r].active < Bundle(r)
       /\ certificateRegistry[r].active = certificateTable.active
          /\ certificateAgent.cert = certificateTable.active
  /\ Pc(r) = "installing" =>
       /\ Write(r) = None /\ Same(certificateRegistry[r], certificateTable)
          /\ ~certificateRotation[r].installed
       /\ certificateTable.pending = Bundle(r) /\ certificateAgent.cert = certificateTable.active

\* The agent presents it, and would go back to the active one.
InstalledOK(r) ==
  Pc(r) \in {"reloading", "rollback"} =>
    /\ Write(r) = None /\ Same(certificateRegistry[r], certificateTable)
       /\ certificateRotation[r].installed
    /\ certificateTable.pending = Bundle(r) /\ certificateAgent.cert = Bundle(r)
       /\ certificateAgent.before = certificateTable.active

\* The last write of a rotation is under way: the memory is ahead of the row.
EndingOK(r) ==
  /\ Pc(r) = "activating" =>
       /\ Write(r) # None /\ Same(Write(r), certificateRegistry[r])
          /\ certificateRegistry[r].pending = None
       /\ certificateRegistry[r].active = Bundle(r) /\ certificateTable.pending = Bundle(r)
          /\ certificateAgent.cert = Bundle(r)
  /\ Pc(r) = "clearing" =>
       /\ Write(r) # None /\ Same(Write(r), certificateRegistry[r])
          /\ certificateRegistry[r].pending = None
       /\ certificateRegistry[r].active = certificateTable.active
          /\ certificateAgent.cert = certificateTable.active

\* A revocation that has not landed is too old to change anything but the
\* flag, or stops every rotation until it has.
AdminOK(r) ==
  certificateAdmin[r] # None =>
    IF certificateAdmin[r].pending = None
    THEN /\ certificateRegistry[r].revoked /\ Pc(r) \in {"idle", "preflight", "activating",
            "clearing"}
         /\ certificateAdmin[r].active = certificateRegistry[r].active
    ELSE /\ certificateAdmin[r].active = certificateTable.active
            \/ certificateAdmin[r].pending <= certificateTable.active
         /\ Bundle(r) # None => certificateAdmin[r].pending <= Bundle(r)

KnownOK(r) ==
  /\ Known(certificateRegistry[r], certificateIssued)
     /\ (certificateAdmin[r] # None => Known(certificateAdmin[r], certificateIssued))
  /\ Bundle(r) # None => Bundle(r) <= certificateIssued

RotationOK(r) ==
  WaitingOK(r) /\ StagingOK(r) /\ InstalledOK(r) /\ EndingOK(r) /\ AdminOK(r) /\ KnownOK(r)

Sound == RowOK /\ \A r \in Rotators : RotationOK(r)

\* One API process.
Alone == \A q, r \in Rotators : q = r

LEMMA AloneSound ==
  ASSUME Alone, NEW r \in Rotators, RowOK', RotationOK(r)'
  PROVE  Sound'
<1>1. \A q \in Rotators : q = r
  BY DEF Alone
<1>2. \A q \in Rotators : RotationOK(q)'
  BY <1>1
<1>. QED BY <1>2 DEF Sound

LEMMA NowAt ==
  ASSUME CertTypes, NEW r \in Rotators, NEW e, NEW rot, Becomes(r, e, rot)
  PROVE  /\ certificateRegistry'[r] = e /\ certificateRotation'[r] = rot
         /\ Pc(r)' = rot.pc /\ Bundle(r)' = rot.bundle /\ Write(r)' = rot.write
BY DEF CertTypes, Certificates!TypeOK, Becomes, Pc, Bundle, Write

LEMMA Numbers ==
  ASSUME CertConstants
  PROVE  /\ Certificates!Cert \subseteq Nat /\ None \notin Certificates!Cert
            /\ None \notin Certificates!Entry
         /\ \A e \in Certificates!Entry : e.active \in Certificates!Cert
              /\ e.pending \in Certificates!Cert \cup {None} /\ e.revoked \in BOOLEAN
BY DEF CertConstants, Certificates!NoCertAssumption, Certificates!CertificatesAssumption,
   Certificates!Cert, Certificates!Entry

-----------------------------------------------------------------------------
LEMMA BecomesTypes ==
  ASSUME CertTypes, NEW r \in Rotators, NEW e \in Certificates!Entry, NEW rot \in Rotations,
         rot.pc \notin {"idle", "preflight"} => rot.bundle \in Certificates!Cert,
         Becomes(r, e, rot),
         certificateTable' \in Certificates!Entry, UNCHANGED <<certificateRefresh,
           certificateBeat, certificateAdmin, certificateRestarts>>,
         certificateAgent' \in [cert : Certificates!Cert, before : Certificates!Cert,
                                up : BOOLEAN],
         certificateIssued' \in Certificates!Cert, certificateMishap' \in BOOLEAN
  PROVE  CertTypes'
BY GivenTypes DEF Becomes

LEMMA TypesHeartbeat ==
  ASSUME CertTypes, NEW r \in Rotators, Certificates!Heartbeat(r) PROVE CertTypes'
BY DEF CertTypes, Certificates!TypeOK, BundleOK, Certificates!Heartbeat

LEMMA TypesHeartbeatLands ==
  ASSUME CertTypes, NEW r \in Rotators, Certificates!HeartbeatLands(r) PROVE CertTypes'
BY DEF CertTypes, Certificates!TypeOK, BundleOK, Certificates!HeartbeatLands, Certificates!Mishap

LEMMA TypesRefreshReads ==
  ASSUME CertTypes, NEW r \in Rotators, Certificates!RefreshReads(r) PROVE CertTypes'
BY DEF CertTypes, Certificates!TypeOK, BundleOK, Certificates!RefreshReads

LEMMA TypesRefreshInstalls ==
  ASSUME CertTypes, NEW r \in Rotators, Certificates!RefreshInstalls(r) PROVE CertTypes'
BY DEF CertTypes, Certificates!TypeOK, BundleOK, Certificates!RefreshInstalls,
       Certificates!Mishap, Certificates!Change

LEMMA TypesActivate ==
  ASSUME CertConstants, CertTypes, NEW r \in Rotators, Certificates!Activate(r) PROVE CertTypes'
<1>1. Certificates!Activated(certificateRegistry[r]) \in Certificates!Entry
  BY Fields, ChangedEntry DEF Certificates!Activate
<1>. QED BY <1>1 DEF CertTypes, Certificates!TypeOK, BundleOK, Certificates!Activate,
       Certificates!Mishap, Certificates!Change

LEMMA TypesRevoke ==
  ASSUME CertTypes, NEW r \in Rotators, Certificates!Revoke(r) PROVE CertTypes'
<1>1. [certificateRegistry[r] EXCEPT !.revoked = TRUE] \in Certificates!Entry
  BY Fields DEF Certificates!Entry
<1>. QED BY <1>1 DEF CertTypes, Certificates!TypeOK, BundleOK, Certificates!Revoke,
       Certificates!Change

LEMMA TypesAdminLands ==
  ASSUME CertTypes, NEW r \in Rotators, Certificates!AdminLands(r) PROVE CertTypes'
BY DEF CertTypes, Certificates!TypeOK, BundleOK, Certificates!AdminLands, Certificates!Mishap

LEMMA TypesAgentReloads ==
  ASSUME CertTypes, Certificates!AgentReloads PROVE CertTypes'
BY DEF CertTypes, Certificates!TypeOK, BundleOK, Certificates!AgentReloads

LEMMA TypesRestart ==
  ASSUME CertConstants, CertTypes, NEW r \in Rotators, Certificates!Restart(r) PROVE CertTypes'
<1>1. Certificates!Idle \in Rotations /\ Certificates!Idle.pc = "idle"
  BY IdleType DEF Certificates!Idle
<1>2. certificateRegistry' = [certificateRegistry EXCEPT ![r] = certificateTable]
      /\ certificateRegistry' \in [Rotators -> Certificates!Entry]
  BY DEF CertTypes, Certificates!TypeOK, Certificates!Restart, Certificates!Change
<1>3. certificateRotation' \in [Rotators -> Rotations]
      /\ \A q \in Rotators : certificateRotation'[q] = IF q
         = r THEN Certificates!Idle ELSE certificateRotation[q]
  BY <1>1 DEF CertTypes, Certificates!TypeOK, Certificates!Restart, Rotations
<1>4. \A q \in Rotators : BundleOK(q)'
  BY <1>1, <1>3 DEF CertTypes, BundleOK
<1>5. certificateRestarts' \in 0 .. MaxRotatorRestarts
  BY DEF CertConstants, Certificates!CertificatesAssumption, CertTypes, Certificates!TypeOK,
     Certificates!Restart
<1>. QED BY <1>2, <1>3, <1>4, <1>5 DEF CertTypes, Certificates!TypeOK, Certificates!Restart,
         Rotations

LEMMA TypesRotate ==
  ASSUME CertTypes, NEW r \in Rotators, Certificates!Rotate(r) PROVE CertTypes'
<1>1. "preflight" \in Certificates!Points
  BY DEF Certificates!Points
<1>2. Becomes(r, certificateRegistry[r], Moved(r, "preflight", certificateRotation[r].write))
  BY <1>1, GoBecomes DEF Certificates!Rotate
<1>3. Moved(r, "preflight", certificateRotation[r].write) \in Rotations
  BY <1>1, MovedType, Fields
<1>4. Moved(r, "preflight", certificateRotation[r].write).pc = "preflight"
  BY DEF Moved
<1>5. certificateTable \in Certificates!Entry /\ certificateIssued \in Certificates!Cert
      /\ certificateMishap \in BOOLEAN
      /\ certificateAgent \in [cert : Certificates!Cert, before : Certificates!Cert, up : BOOLEAN]
  BY DEF CertTypes, Certificates!TypeOK
<1>. QED BY <1>2, <1>3, <1>4, <1>5, BecomesTypes, Fields DEF Certificates!Rotate

Pended(r) == [certificateRegistry[r] EXCEPT !.pending = certificateIssued + 1]
Staged(r) ==
  [pc |-> "staging", bundle |-> certificateIssued + 1, write |-> Pended(r),
    installed |-> certificateRotation[r].installed]
Installed(r) ==
  [pc |-> "reloading", bundle |-> certificateRotation[r].bundle,
    write |-> certificateRotation[r].write, installed |-> TRUE]

LEMMA PendedEntry ==
  ASSUME CertConstants, CertTypes, NEW r \in Rotators, certificateIssued < MaxCerts
  PROVE  /\ certificateIssued + 1 \in Certificates!Cert /\ Pended(r) \in Certificates!Entry
         /\ Pended(r).active = certificateRegistry[r].active
            /\ Pended(r).pending = certificateIssued + 1
         /\ Pended(r).revoked = certificateRegistry[r].revoked
<1>1. certificateIssued + 1 \in Certificates!Cert
  BY DEF CertConstants, Certificates!CertificatesAssumption, CertTypes, Certificates!TypeOK,
     Certificates!Cert
<1>. QED BY <1>1, Fields DEF Pended, Certificates!Entry

LEMMA PreflightBecomes ==
  ASSUME CertConstants, CertTypes, NEW r \in Rotators, Certificates!Preflight(r)
  PROVE  \/ /\ Certificates!Reaches(r) /\ certificateIssued < MaxCerts
               /\ certificateIssued' = certificateIssued + 1
            /\ Becomes(r, Pended(r), Staged(r))
         \/ certificateIssued' = certificateIssued /\ Becomes(r, certificateRegistry[r],
            Certificates!Idle)
<1>1. CASE Certificates!End(r) /\ UNCHANGED <<certificateRegistry, certificateIssued>>
  BY <1>1, EndBecomes
<1>2. CASE /\ Certificates!Reaches(r) /\ certificateIssued < MaxCerts
           /\ certificateIssued' = certificateIssued + 1
           /\ Certificates!Change(r,
                                  [certificateRegistry[r] EXCEPT !.pending
                                    = certificateIssued + 1])
           /\ certificateRotation' = [certificateRotation EXCEPT ![r] =
                [@ EXCEPT !.pc = "staging", !.bundle = certificateIssued + 1,
                  !.write = certificateRegistry'[r]]]
  <2>1. certificateRegistry' = [certificateRegistry EXCEPT ![r] = Pended(r)]
        /\ certificateRegistry'[r] = Pended(r)
    BY <1>2 DEF Pended, Certificates!Change, CertTypes, Certificates!TypeOK
  <2>2. [certificateRotation[r] EXCEPT !.pc = "staging", !.bundle = certificateIssued + 1,
         !.write = Pended(r)] = Staged(r)
    <3>1. [certificateRotation[r] EXCEPT !.pc = "staging", !.bundle = certificateIssued + 1,
           !.write = Pended(r)]
            = [[[certificateRotation[r] EXCEPT !.pc = "staging"] EXCEPT !.bundle
                = certificateIssued + 1] EXCEPT !.write = Pended(r)]
      OBVIOUS
    <3>2. [certificateRotation[r] EXCEPT !.pc = "staging"] = Moved(r, "staging",
          certificateRotation[r].write)
      BY Fields DEF Moved, Rotations
    <3>. DEFINE staged == [pc |-> "staging", bundle |-> certificateIssued + 1,
                           write |-> certificateRotation[r].write,
                          installed |-> certificateRotation[r].installed]
    <3>3. [Moved(r, "staging", certificateRotation[r].write) EXCEPT !.bundle
           = certificateIssued + 1] = staged
      BY DEF Moved
    <3>4. [staged EXCEPT !.write = Pended(r)] = Staged(r)
      BY DEF Staged
    <3>. HIDE DEF staged
    <3>. QED BY <3>1, <3>2, <3>3, <3>4
  <2>. QED BY <1>2, <2>1, <2>2 DEF Becomes
<1>. QED BY <1>1, <1>2 DEF Certificates!Preflight

LEMMA WriteLandsBecomes ==
  ASSUME CertTypes, NEW r \in Rotators, Certificates!WriteLands(r)
  PROVE  IF certificateRotation[r].pc = "staging" THEN Becomes(r, certificateRegistry[r],
         Moved(r, "installing", None))
                                                  ELSE Becomes(r, certificateRegistry[r],
                                                    Certificates!Idle)
<1>1. [certificateRotation[r] EXCEPT !.pc = "installing", !.write = None] = Moved(r,
      "installing", None)
  <2>1. [certificateRotation[r] EXCEPT !.pc = "installing", !.write = None]
          = [[certificateRotation[r] EXCEPT !.pc = "installing"] EXCEPT !.write = None]
    OBVIOUS
  <2>2. [certificateRotation[r] EXCEPT !.pc = "installing"] = Moved(r, "installing",
        certificateRotation[r].write)
    BY Fields DEF Moved, Rotations
  <2>3. [Moved(r, "installing", certificateRotation[r].write) EXCEPT !.write = None] = Moved(r,
        "installing", None)
    BY DEF Moved
  <2>. QED BY <2>1, <2>2, <2>3
<1>2. certificateRegistry' = [certificateRegistry EXCEPT ![r] = certificateRegistry[r]]
  BY DEF CertTypes, Certificates!TypeOK, Certificates!WriteLands
<1>. QED BY <1>1, <1>2 DEF Becomes, Certificates!WriteLands

LEMMA WriteFailsBecomes ==
  ASSUME CertConstants, CertTypes, NEW r \in Rotators, Certificates!WriteFails(r)
  PROVE  \/ /\ certificateRotation[r].pc = "staging"
            /\ Becomes(r, Certificates!Cleared(certificateRegistry[r]),
                       Moved(r, "clearing", Certificates!Cleared(certificateRegistry[r])))
         \/ /\ certificateRotation[r].pc = "activating" /\ certificateMishap'
            /\ Becomes(r, certificateRegistry[r], Moved(r, "rollback", None))
         \/ /\ certificateRotation[r].pc = "clearing"
            /\ Becomes(r, certificateRegistry[r], Certificates!Idle)
<1>1. CASE Certificates!At(r, "staging") /\ Certificates!GoWriting(r, "clearing",
           Certificates!Cleared(certificateRegistry[r]))
  BY <1>1, GoWritingBecomes, Fields, ChangedEntry DEF Certificates!At, Certificates!Points
<1>2. CASE /\ Certificates!At(r, "activating")
           /\ certificateRotation' = [certificateRotation EXCEPT ![r]
                                      = [@ EXCEPT !.pc = "rollback",
                                      !.write = None]]
           /\ UNCHANGED certificateRegistry
  <2>1. [[certificateRotation[r] EXCEPT !.pc = "rollback"] EXCEPT !.write = None] = Moved(r,
        "rollback", None)
    <3>1. [certificateRotation[r] EXCEPT !.pc = "rollback"] = Moved(r, "rollback",
          certificateRotation[r].write)
      BY Fields DEF Moved, Rotations
    <3>2. [Moved(r, "rollback", certificateRotation[r].write) EXCEPT !.write = None] = Moved(r,
          "rollback", None)
      BY DEF Moved
    <3>. QED BY <3>1, <3>2
  <2>2. certificateRotation' = [certificateRotation EXCEPT ![r]
                                = [[certificateRotation[r] EXCEPT !.pc
                                    = "rollback"] EXCEPT !.write = None]]
    BY <1>2, Fields DEF CertTypes, Certificates!TypeOK
  <2>3. certificateMishap'
    BY <1>2 DEF Certificates!WriteFails, Certificates!Mishap
  <2>4. certificateRegistry' = [certificateRegistry EXCEPT ![r] = certificateRegistry[r]]
    BY <1>2 DEF CertTypes, Certificates!TypeOK
  <2>. QED BY <1>2, <2>1, <2>2, <2>3, <2>4 DEF Becomes, Certificates!At
<1>3. CASE Certificates!At(r, "clearing") /\ Certificates!End(r) /\ UNCHANGED certificateRegistry
  BY <1>3, EndBecomes DEF Certificates!At
<1>. QED BY <1>1, <1>2, <1>3 DEF Certificates!WriteFails

LEMMA SetInstalled ==
  ASSUME NEW rot \in Rotations, NEW b
  PROVE  [rot EXCEPT !.installed = b]
           = [pc |-> rot.pc, bundle |-> rot.bundle, write |-> rot.write, installed |-> b]
BY DEF Rotations

LEMMA InstallBecomes ==
  ASSUME CertConstants, CertTypes, NEW r \in Rotators, Certificates!Install(r)
  PROVE  /\ certificateRotation[r].pc = "installing"
         /\ \/ /\ certificateAgent' = [cert |-> certificateRotation[r].bundle,
                                       before |-> certificateAgent.cert, up |-> FALSE]
               /\ \/ certificateMishap' = certificateMishap /\ Becomes(r, certificateRegistry[r],
                     Installed(r))
                  \/ Certificates!Fail(r) /\ Certificates!Mishap(TRUE)
            \/ Certificates!Fail(r) /\ UNCHANGED <<certificateAgent, certificateMishap>>
<1>1. ASSUME certificateRotation' = [certificateRotation EXCEPT ![r]
                                     = [@ EXCEPT !.pc = "reloading",
                                     !.installed = TRUE]], UNCHANGED certificateRegistry
      PROVE  Becomes(r, certificateRegistry[r], Installed(r))
  <2>1. [[certificateRotation[r] EXCEPT !.pc = "reloading"] EXCEPT !.installed = TRUE]
        = Installed(r)
    <3>1. [certificateRotation[r] EXCEPT !.pc = "reloading"] = Moved(r, "reloading",
          certificateRotation[r].write)
      BY Fields DEF Moved, Rotations
    <3>2. [Moved(r, "reloading", certificateRotation[r].write) EXCEPT !.installed = TRUE]
          = Installed(r)
      <4>1. Moved(r, "reloading", certificateRotation[r].write) \in Rotations
        BY MovedType, Fields DEF Certificates!Points
      <4>. QED BY <4>1, SetInstalled DEF Moved, Installed
    <3>. QED BY <3>1, <3>2
  <2>2. certificateRotation' = [certificateRotation EXCEPT ![r]
                                = [[certificateRotation[r] EXCEPT !.pc
                                    = "reloading"] EXCEPT !.installed = TRUE]]
    BY <1>1, Fields DEF CertTypes, Certificates!TypeOK
  <2>3. certificateRegistry' = [certificateRegistry EXCEPT ![r] = certificateRegistry[r]]
    BY <1>1 DEF CertTypes, Certificates!TypeOK
  <2>. QED BY <2>1, <2>2, <2>3 DEF Becomes
<1>. QED BY <1>1 DEF Certificates!Install, Certificates!At

LEMMA ReloadedBecomes ==
  ASSUME CertConstants, CertTypes, NEW r \in Rotators, Certificates!Reloaded(r)
  PROVE  /\ certificateRotation[r].pc = "reloading"
         /\ \/ /\ Certificates!Reaches(r) /\ certificateRegistry[r].pending # None
               /\ Becomes(r, Certificates!Activated(certificateRegistry[r]),
                          Moved(r, "activating", Certificates!Activated(certificateRegistry[r])))
            \/ Certificates!Fail(r)
<1>1. ASSUME certificateRegistry[r].pending # None,
             Certificates!GoWriting(r, "activating",
                                    Certificates!Activated(certificateRegistry[r]))
      PROVE  Becomes(r, Certificates!Activated(certificateRegistry[r]),
                     Moved(r, "activating", Certificates!Activated(certificateRegistry[r])))
  BY <1>1, GoWritingBecomes, Fields, ChangedEntry DEF Certificates!Points
<1>. QED BY <1>1 DEF Certificates!Reloaded, Certificates!At

LEMMA RollbackBecomes ==
  ASSUME CertConstants, CertTypes, NEW r \in Rotators, Certificates!Rollback(r)
  PROVE  /\ certificateRotation[r].pc = "rollback"
         /\ \/ /\ Certificates!Reaches(r) /\ certificateAgent'
                  = [certificateAgent EXCEPT !.cert = certificateAgent.before]
               /\ \/ Becomes(r, Certificates!Cleared(certificateRegistry[r]),
                             Moved(r, "clearing", Certificates!Cleared(certificateRegistry[r])))
                  \/ Becomes(r, certificateRegistry[r], Certificates!Idle)
            \/ certificateAgent' = certificateAgent /\ Becomes(r, certificateRegistry[r],
               Certificates!Idle)
<1>1. ASSUME Certificates!GoWriting(r, "clearing", Certificates!Cleared(certificateRegistry[r]))
      PROVE  Becomes(r, Certificates!Cleared(certificateRegistry[r]),
                     Moved(r, "clearing", Certificates!Cleared(certificateRegistry[r])))
  BY <1>1, GoWritingBecomes, Fields, ChangedEntry DEF Certificates!Points
<1>. QED BY <1>1, EndBecomes DEF Certificates!Rollback, Certificates!At

Agents == [cert : Certificates!Cert, before : Certificates!Cert, up : BOOLEAN]

LEMMA Globals ==
  ASSUME CertTypes
  PROVE  /\ certificateTable \in Certificates!Entry /\ certificateAgent \in Agents
            /\ certificateAgent.cert \in Certificates!Cert
         /\ certificateAgent.before \in Certificates!Cert /\ certificateAgent.up \in BOOLEAN
         /\ certificateIssued \in Certificates!Cert /\ certificateMishap \in BOOLEAN
BY DEF CertTypes, Certificates!TypeOK, Agents

\* What every step of rotate() leaves alone.
Rest == UNCHANGED <<certificateRefresh, certificateBeat, certificateAdmin, certificateRestarts>>

LEMMA IdleTypes ==
  ASSUME CertConstants, CertTypes, NEW r \in Rotators, Becomes(r, certificateRegistry[r],
         Certificates!Idle), Rest,
         certificateTable' \in Certificates!Entry, certificateAgent' \in Agents,
           certificateIssued' \in Certificates!Cert, certificateMishap' \in BOOLEAN
  PROVE  CertTypes'
<1>1. Certificates!Idle.pc = "idle"
  BY DEF Certificates!Idle
<1>. QED BY <1>1, IdleType, Fields, BecomesTypes DEF Rest, Agents

LEMMA MovedTypes ==
  ASSUME CertTypes, NEW r \in Rotators, certificateRotation[r].pc \notin {"idle", "preflight"},
         NEW pc \in Certificates!Points, NEW e \in Certificates!Entry,
         NEW write \in Certificates!Entry \cup {None}, Becomes(r, e, Moved(r, pc, write)), Rest,
         certificateTable' \in Certificates!Entry, certificateAgent' \in Agents,
           certificateIssued' \in Certificates!Cert, certificateMishap' \in BOOLEAN
  PROVE  CertTypes'
<1>1. certificateRotation[r].bundle \in Certificates!Cert
  BY Fields DEF BundleOK
<1>2. Moved(r, pc, write) \in Rotations /\ Moved(r, pc, write).bundle \in Certificates!Cert
  BY <1>1, MovedType DEF Moved
<1>. QED BY <1>2, BecomesTypes DEF Rest, Agents

LEMMA FailTypes ==
  ASSUME CertConstants, CertTypes, NEW r \in Rotators, certificateRotation[r].pc \notin {"idle",
         "preflight"},
         Certificates!Fail(r), Rest,
         certificateTable' \in Certificates!Entry, certificateAgent' \in Agents,
           certificateIssued' \in Certificates!Cert, certificateMishap' \in BOOLEAN
  PROVE  CertTypes'
<1>1. "rollback" \in Certificates!Points /\ "clearing" \in Certificates!Points
  BY DEF Certificates!Points
<1>2. Certificates!Cleared(certificateRegistry[r]) \in Certificates!Entry
  BY Fields, ChangedEntry
<1>. QED BY <1>1, <1>2, FailBecomes, MovedTypes, Fields

LEMMA TypesPreflight ==
  ASSUME CertConstants, CertTypes, NEW r \in Rotators, Certificates!Preflight(r) PROVE CertTypes'
<1>1. Rest /\ certificateTable' \in Certificates!Entry /\ certificateAgent' \in Agents
      /\ certificateMishap' \in BOOLEAN
  BY Globals DEF Certificates!Preflight, Rest
<1>2. CASE certificateIssued' = certificateIssued /\ Becomes(r, certificateRegistry[r],
           Certificates!Idle)
  BY <1>1, <1>2, IdleTypes, Globals
<1>3. CASE certificateIssued < MaxCerts /\ certificateIssued' = certificateIssued + 1
           /\ Becomes(r, Pended(r), Staged(r))
  <2>1. certificateIssued + 1 \in Certificates!Cert /\ Pended(r) \in Certificates!Entry
    BY <1>3, PendedEntry
  <2>2. Staged(r) \in Rotations /\ Staged(r).bundle \in Certificates!Cert
    BY <2>1, Fields DEF Staged, Rotations, Certificates!Points
  <2>. QED BY <1>1, <1>3, <2>1, <2>2, BecomesTypes DEF Rest, Agents
<1>. QED BY <1>2, <1>3, PreflightBecomes

LEMMA TypesWriteLands ==
  ASSUME CertConstants, CertTypes, NEW r \in Rotators, Certificates!WriteLands(r) PROVE CertTypes'
<1>1. Rest /\ certificateTable' \in Certificates!Entry /\ certificateAgent' \in Agents
      /\ certificateMishap' \in BOOLEAN
      /\ certificateIssued' \in Certificates!Cert
  BY Globals, Fields DEF Certificates!WriteLands, Rest
<1>2. CASE certificateRotation[r].pc = "staging" /\ Becomes(r, certificateRegistry[r],
           Moved(r, "installing", None))
  BY <1>1, <1>2, MovedTypes, Fields DEF Certificates!Points
<1>. QED BY <1>1, <1>2, IdleTypes, WriteLandsBecomes

LEMMA TypesWriteFails ==
  ASSUME CertConstants, CertTypes, NEW r \in Rotators, Certificates!WriteFails(r) PROVE CertTypes'
<1>1. Rest /\ certificateTable' \in Certificates!Entry /\ certificateAgent' \in Agents
      /\ certificateMishap' \in BOOLEAN
      /\ certificateIssued' \in Certificates!Cert
  BY Globals DEF Certificates!WriteFails, Rest, Certificates!Mishap, Certificates!At
<1>2. Certificates!Cleared(certificateRegistry[r]) \in Certificates!Entry
  BY Fields, ChangedEntry
<1>3. CASE /\ certificateRotation[r].pc = "staging"
           /\ Becomes(r, Certificates!Cleared(certificateRegistry[r]),
                      Moved(r, "clearing", Certificates!Cleared(certificateRegistry[r])))
  BY <1>1, <1>2, <1>3, MovedTypes DEF Certificates!Points
<1>4. CASE certificateRotation[r].pc = "activating" /\ Becomes(r, certificateRegistry[r],
           Moved(r, "rollback", None))
  BY <1>1, <1>4, MovedTypes, Fields DEF Certificates!Points
<1>. QED BY <1>1, <1>3, <1>4, IdleTypes, WriteFailsBecomes

LEMMA TypesInstall ==
  ASSUME CertConstants, CertTypes, NEW r \in Rotators, Certificates!Install(r) PROVE CertTypes'
<1>1. Rest /\ certificateTable' \in Certificates!Entry
      /\ certificateIssued' \in Certificates!Cert /\ certificateMishap' \in BOOLEAN
  BY Globals DEF Certificates!Install, Rest, Certificates!Mishap
<1>2. certificateRotation[r].pc = "installing"
      /\ certificateRotation[r].bundle \in Certificates!Cert
  BY InstallBecomes, Fields DEF BundleOK
<1>3. certificateAgent' \in Agents
  <2>1. [cert |-> certificateRotation[r].bundle, before |-> certificateAgent.cert,
         up |-> FALSE] \in Agents
    BY <1>2, Globals DEF Agents
  <2>2. certificateAgent' = [cert |-> certificateRotation[r].bundle,
                             before |-> certificateAgent.cert, up |-> FALSE]
                               \/ certificateAgent' = certificateAgent
    BY InstallBecomes
  <2>. QED BY <2>1, <2>2, Globals
<1>4. CASE Becomes(r, certificateRegistry[r], Installed(r))
  <2>1. Installed(r) \in Rotations /\ Installed(r).bundle \in Certificates!Cert
    BY <1>2, Fields DEF Installed, Rotations, Certificates!Points
  <2>. QED BY <1>1, <1>3, <1>4, <2>1, Fields, BecomesTypes DEF Rest, Agents
<1>. QED BY <1>1, <1>2, <1>3, <1>4, FailTypes, InstallBecomes

LEMMA TypesReloaded ==
  ASSUME CertConstants, CertTypes, NEW r \in Rotators, Certificates!Reloaded(r) PROVE CertTypes'
<1>1. Rest /\ certificateTable' \in Certificates!Entry /\ certificateAgent' \in Agents
      /\ certificateMishap' \in BOOLEAN
      /\ certificateIssued' \in Certificates!Cert
  BY Globals DEF Certificates!Reloaded, Rest
<1>2. certificateRotation[r].pc = "reloading"
  BY ReloadedBecomes
<1>3. CASE /\ certificateRegistry[r].pending # None
           /\ Becomes(r, Certificates!Activated(certificateRegistry[r]),
                      Moved(r, "activating", Certificates!Activated(certificateRegistry[r])))
  <2>1. Certificates!Activated(certificateRegistry[r]) \in Certificates!Entry
    BY <1>3, Fields, ChangedEntry
  <2>2. "activating" \in Certificates!Points
    BY DEF Certificates!Points
  <2>. QED BY <1>1, <1>2, <1>3, <2>1, <2>2, MovedTypes
<1>. QED BY <1>1, <1>2, <1>3, FailTypes, ReloadedBecomes

LEMMA TypesRollback ==
  ASSUME CertConstants, CertTypes, NEW r \in Rotators, Certificates!Rollback(r) PROVE CertTypes'
<1>1. Rest /\ certificateTable' \in Certificates!Entry /\ certificateMishap' \in BOOLEAN
      /\ certificateIssued' \in Certificates!Cert
  BY Globals DEF Certificates!Rollback, Rest
<1>2. certificateAgent' \in Agents
  <2>1. [certificateAgent EXCEPT !.cert = certificateAgent.before] \in Agents
    BY Globals DEF Agents
  <2>. QED BY <2>1, Globals, RollbackBecomes
<1>3. certificateRotation[r].pc = "rollback"
  BY RollbackBecomes
<1>4. CASE Becomes(r, Certificates!Cleared(certificateRegistry[r]),
                   Moved(r, "clearing", Certificates!Cleared(certificateRegistry[r])))
  <2>1. Certificates!Cleared(certificateRegistry[r]) \in Certificates!Entry
        /\ "clearing" \in Certificates!Points
    BY Fields, ChangedEntry DEF Certificates!Points
  <2>. QED BY <1>1, <1>2, <1>3, <1>4, <2>1, MovedTypes
<1>. QED BY <1>1, <1>2, <1>4, IdleTypes, RollbackBecomes

LEMMA TypesKept ==
  ASSUME CertConstants, CertTypes, [Certificates!Next]_(Certificates!vars)
  PROVE  CertTypes'
<1>1. CASE UNCHANGED Certificates!vars
  BY <1>1 DEF Certificates!vars, CertTypes, Certificates!TypeOK, BundleOK
<1>2. CASE Certificates!AgentReloads
  BY <1>2, TypesAgentReloads
<1>3. ASSUME NEW r \in Rotators, Certificates!Registry(r)
      PROVE  CertTypes'
  BY <1>3, TypesHeartbeat, TypesHeartbeatLands, TypesRefreshReads, TypesRefreshInstalls
     DEF Certificates!Registry
<1>4. ASSUME NEW r \in Rotators, Certificates!Admin(r)
      PROVE  CertTypes'
  BY <1>4, TypesActivate, TypesRevoke, TypesAdminLands DEF Certificates!Admin
<1>5. ASSUME NEW r \in Rotators, Certificates!Rotation(r)
      PROVE  CertTypes'
  BY <1>5, TypesRotate, TypesPreflight, TypesWriteLands, TypesWriteFails, TypesInstall,
     TypesReloaded, TypesRollback DEF Certificates!Rotation
<1>. QED BY <1>1, <1>2, <1>3, <1>4, <1>5, TypesRestart DEF Certificates!Next

LEMMA CertTypesInit == CertConstants /\ Certificates!Init => CertTypes
<1>. SUFFICES ASSUME CertConstants, Certificates!Init PROVE CertTypes
  OBVIOUS
<1>1. 0 \in Certificates!Cert /\ 0 \in 0 .. MaxRotatorRestarts
  BY DEF CertConstants, Certificates!CertificatesAssumption, Certificates!Cert
<1>2. Certificates!First \in Certificates!Entry
  BY <1>1 DEF Certificates!First, Certificates!Entry
<1>3. certificateRotation \in [Rotators -> Rotations]
      /\ \A r \in Rotators : certificateRotation[r].pc = "idle"
  BY IdleType DEF Certificates!Init, Certificates!Idle
<1>. QED BY <1>1, <1>2, <1>3 DEF CertTypes, Certificates!TypeOK, BundleOK, Certificates!Init,
         Rotations

-----------------------------------------------------------------------------
RowAlone(r) == RowOK /\ RotationOK(r)

LEMMA SoundStutters ==
  ASSUME Sound, UNCHANGED <<certificateTable, certificateRegistry, certificateAdmin,
                            certificateRotation, certificateAgent, certificateIssued>>
  PROVE  Sound'
BY DEF Sound, RowOK, RotationOK, WaitingOK, StagingOK, InstalledOK, EndingOK, AdminOK, KnownOK,
       Ordered, Known, Same, Pc, Bundle, Write

LEMMA SoundHeartbeatLands ==
  ASSUME CertTypes, Sound, NEW r \in Rotators, Certificates!HeartbeatLands(r), ~certificateMishap'
  PROVE  Sound'
<1>1. UNCHANGED <<certificateTable, certificateRegistry, certificateAdmin, certificateRotation,
                  certificateAgent, certificateIssued>>
  BY DEF Certificates!HeartbeatLands, Certificates!Mishap
<1>. QED BY <1>1, SoundStutters

\* The memory takes the row: no rotation's write is under way.
LEMMA SoundRefreshInstalls ==
  ASSUME CertConstants, CertTypes, Alone, Sound, NEW r \in Rotators,
         Certificates!RefreshInstalls(r), ~certificateMishap'
  PROVE  Sound'
<1>1. /\ certificateRegistry' = [certificateRegistry EXCEPT ![r] = certificateTable]
         /\ Write(r) = None /\ certificateAdmin[r] = None
      /\ UNCHANGED <<certificateTable, certificateAdmin, certificateRotation, certificateAgent,
                     certificateIssued>>
  BY DEF Certificates!RefreshInstalls, Certificates!Mishap, Certificates!Change, Write
<1>2. certificateRegistry'[r] = certificateTable /\ Pc(r)' = Pc(r) /\ Bundle(r)' = Bundle(r)
      /\ Write(r)' = Write(r)
  BY <1>1 DEF CertTypes, Certificates!TypeOK, Pc, Bundle, Write
<1>3. RowOK /\ RotationOK(r)
  BY DEF Sound
<1>4. RowOK'
  BY <1>1, <1>3 DEF RowOK, Ordered, Known
<1>5. WaitingOK(r)'
  BY <1>1, <1>2, <1>3 DEF RotationOK, WaitingOK, RowOK
<1>6. StagingOK(r)' /\ InstalledOK(r)' /\ EndingOK(r)'
  BY <1>1, <1>2, <1>3 DEF RotationOK, StagingOK, InstalledOK, EndingOK, Same
<1>7. AdminOK(r)' /\ KnownOK(r)'
  BY <1>1, <1>2, <1>3 DEF RotationOK, AdminOK, KnownOK, Known, RowOK
<1>. QED BY <1>4, <1>5, <1>6, <1>7, AloneSound DEF RotationOK

LEMMA SoundRevoke ==
  ASSUME CertConstants, CertTypes, Alone, Sound, NEW r \in Rotators, Certificates!Revoke(r)
  PROVE  Sound'
<1>. DEFINE e == [certificateRegistry[r] EXCEPT !.revoked = TRUE]
<1>1. e.active = certificateRegistry[r].active /\ e.pending = certificateRegistry[r].pending
      /\ e.revoked
  BY Fields DEF Certificates!Entry
<1>. HIDE DEF e
<1>2. /\ certificateRegistry'[r] = e /\ certificateAdmin'[r] = e
      /\ UNCHANGED <<certificateTable, certificateRotation, certificateAgent, certificateIssued>>
  BY DEF CertTypes, Certificates!TypeOK, Certificates!Revoke, Certificates!Change, e
<1>3. Pc(r)' = Pc(r) /\ Bundle(r)' = Bundle(r) /\ Write(r)' = Write(r)
  BY <1>2 DEF Pc, Bundle, Write
<1>4. RowOK /\ RotationOK(r)
  BY DEF Sound
<1>5. RowOK'
  BY <1>2, <1>4 DEF RowOK, Ordered, Known
<1>6. WaitingOK(r)'
  BY <1>1, <1>2, <1>3, <1>4 DEF RotationOK, WaitingOK
<1>7. StagingOK(r)' /\ InstalledOK(r)' /\ EndingOK(r)'
  BY <1>1, <1>2, <1>3, <1>4 DEF RotationOK, StagingOK, InstalledOK, EndingOK, Same
<1>8. KnownOK(r)'
  BY <1>1, <1>2, <1>3, <1>4 DEF RotationOK, KnownOK, Known
<1>9. AdminOK(r)'
  <2>1. Pc(r) \in Certificates!Points /\ BundleOK(r)
        /\ certificateRegistry[r] \in Certificates!Entry
    BY Fields DEF Pc
  <2>2. CASE e.pending = None
    BY <1>1, <1>2, <1>3, <1>4, <2>1, <2>2, Numbers
       DEF RotationOK, AdminOK, StagingOK, InstalledOK, BundleOK, Pc, Bundle,
           Certificates!Points, Same
  <2>3. CASE e.pending # None
    <3>1. e.active = certificateTable.active
      BY <1>1, <1>4, <2>1, <2>3 DEF RotationOK, WaitingOK, StagingOK, InstalledOK, EndingOK,
         Same, Certificates!Points
    <3>2. Bundle(r) # None => e.pending = Bundle(r)
      BY <1>1, <1>4, <2>1, <2>3 DEF RotationOK, WaitingOK, StagingOK, InstalledOK, EndingOK,
         Same, Certificates!Points
    <3>3. e.pending \in Nat
      BY <1>1, <2>1, <2>3, Numbers
    <3>. QED BY <1>1, <1>2, <1>3, <2>3, <3>1, <3>2, <3>3 DEF AdminOK
  <2>. QED BY <2>2, <2>3
<1>. QED BY <1>5, <1>6, <1>7, <1>8, <1>9, AloneSound DEF RotationOK

\* A revocation that lands changes nothing of the row but the flag.
LEMMA SoundAdminLands ==
  ASSUME CertConstants, CertTypes, Alone, Sound, NEW r \in Rotators,
         Certificates!AdminLands(r), ~certificateMishap'
  PROVE  Sound'
<1>1. /\ certificateAdmin[r] # None /\ certificateTable' = certificateAdmin[r]
         /\ certificateAdmin[r].pending = certificateTable.pending /\ certificateAdmin'[r] = None
      /\ UNCHANGED <<certificateRegistry, certificateRotation, certificateAgent,
                     certificateIssued>>
  BY DEF Certificates!AdminLands, Certificates!Mishap, CertTypes, Certificates!TypeOK
<1>2. Pc(r)' = Pc(r) /\ Bundle(r)' = Bundle(r) /\ Write(r)' = Write(r)
  BY <1>1 DEF Pc, Bundle, Write
<1>3. RowOK /\ RotationOK(r)
  BY DEF Sound
<1>4. certificateAdmin[r].active = certificateTable.active
  <2>1. certificateTable \in Certificates!Entry /\ certificateAdmin[r] \in Certificates!Entry
        /\ BundleOK(r)
    BY <1>1, Fields, Globals
  <2>2. CASE certificateAdmin[r].pending = None
    BY <1>1, <1>3, <2>1, <2>2, Numbers
       DEF RotationOK, AdminOK, WaitingOK, EndingOK, BundleOK, Pc, Bundle
  <2>3. CASE certificateAdmin[r].pending # None
    <3>1. certificateTable.active \in Nat /\ certificateTable.pending \in Nat
          /\ certificateTable.active < certificateTable.pending
      BY <1>1, <1>3, <2>1, <2>3, Numbers DEF RowOK, Ordered
    <3>. QED BY <1>1, <1>3, <2>3, <3>1 DEF RotationOK, AdminOK
  <2>. QED BY <2>2, <2>3
<1>5. certificateTable'.active = certificateTable.active
      /\ certificateTable'.pending = certificateTable.pending
  BY <1>1, <1>4
<1>6. RowOK'
  BY <1>1, <1>3, <1>5 DEF RowOK, Ordered, Known
<1>7. WaitingOK(r)' /\ StagingOK(r)' /\ InstalledOK(r)' /\ EndingOK(r)'
  BY <1>1, <1>2, <1>3, <1>5 DEF RotationOK, WaitingOK, StagingOK, InstalledOK, EndingOK, Same
<1>8. AdminOK(r)' /\ KnownOK(r)'
  BY <1>1, <1>2, <1>3 DEF RotationOK, AdminOK, KnownOK, Known
<1>. QED BY <1>6, <1>7, <1>8, AloneSound DEF RotationOK

LEMMA SoundRotate ==
  ASSUME CertConstants, CertTypes, Alone, Sound, NEW r \in Rotators, Certificates!Rotate(r)
  PROVE  Sound'
<1>1. Becomes(r, certificateRegistry[r], Moved(r, "preflight", certificateRotation[r].write))
  BY GoBecomes DEF Certificates!Rotate, Certificates!Points
<1>2. /\ UNCHANGED <<certificateTable, certificateAdmin, certificateAgent, certificateIssued>>
      /\ Pc(r) = "idle" /\ certificateRegistry[r].pending = None
  BY DEF Certificates!Rotate, Certificates!At, Pc
<1>3. /\ certificateRegistry'[r] = certificateRegistry[r]
         /\ certificateRotation'[r].installed = certificateRotation[r].installed
      /\ Pc(r)' = "preflight" /\ Bundle(r)' = Bundle(r) /\ Write(r)' = Write(r)
  BY <1>1, NowAt DEF Moved, Bundle, Write
<1>4. RowOK /\ RotationOK(r)
  BY DEF Sound
<1>5. RowOK'
  BY <1>2, <1>4 DEF RowOK, Ordered, Known
<1>6. WaitingOK(r)' /\ StagingOK(r)' /\ InstalledOK(r)' /\ EndingOK(r)'
  BY <1>2, <1>3, <1>4 DEF RotationOK, WaitingOK, StagingOK, InstalledOK, EndingOK
<1>7. AdminOK(r)' /\ KnownOK(r)'
  BY <1>2, <1>3, <1>4 DEF RotationOK, AdminOK, KnownOK, Known
<1>. QED BY <1>5, <1>6, <1>7, AloneSound DEF RotationOK

\* A rotation that ends: the memory holds the row's active certificate.
LEMMA SoundEnds ==
  ASSUME CertConstants, CertTypes, Alone, NEW r \in Rotators, NEW e \in Certificates!Entry,
         Becomes(r, e, Certificates!Idle), RowOK',
         e.active = certificateTable'.active, e.pending \in {None, certificateTable'.pending},
         e.pending = None => certificateAgent'.cert = certificateTable'.active,
         Known(e, certificateIssued'), certificateAdmin'[r] # None
           => Known(certificateAdmin[r], certificateIssued'),
         certificateAdmin'[r] = None \/ certificateAdmin'[r] = certificateAdmin[r],
         certificateAdmin'[r] # None =>
           IF certificateAdmin[r].pending = None THEN e.revoked
             /\ certificateAdmin[r].active = e.active
           ELSE certificateAdmin[r].active = certificateTable'.active
             \/ certificateAdmin[r].pending <= certificateTable'.active
  PROVE  Sound'
<1>1. /\ certificateRegistry'[r] = e /\ ~certificateRotation'[r].installed
      /\ Pc(r)' = "idle" /\ Bundle(r)' = None /\ Write(r)' = None
  BY NowAt DEF Certificates!Idle
<1>2. WaitingOK(r)' /\ StagingOK(r)' /\ InstalledOK(r)' /\ EndingOK(r)'
  BY <1>1 DEF WaitingOK, StagingOK, InstalledOK, EndingOK
<1>3. AdminOK(r)' /\ KnownOK(r)'
  BY <1>1 DEF AdminOK, KnownOK, Known
<1>. QED BY <1>2, <1>3, AloneSound DEF RotationOK

\* The memory forgets the pending certificate, which the agent does not present.
LEMMA SoundClears ==
  ASSUME CertConstants, CertTypes, Alone, Sound, NEW r \in Rotators,
         Becomes(r, Certificates!Cleared(certificateRegistry[r]),
                 Moved(r, "clearing", Certificates!Cleared(certificateRegistry[r]))),
         UNCHANGED <<certificateTable, certificateAdmin, certificateIssued>>,
         certificateRegistry[r].active = certificateTable.active,
           certificateAgent'.cert = certificateTable.active
  PROVE  Sound'
<1>. DEFINE e == Certificates!Cleared(certificateRegistry[r])
<1>1. e \in Certificates!Entry /\ e.active = certificateRegistry[r].active /\ e.pending = None
      /\ e.revoked = certificateRegistry[r].revoked
  BY Fields, ChangedEntry
<1>. HIDE DEF e
<1>2. certificateRegistry'[r] = e /\ Pc(r)' = "clearing" /\ Bundle(r)' = Bundle(r)
      /\ Write(r)' = e
  BY NowAt DEF Moved, Bundle, e
<1>3. RowOK /\ RotationOK(r) /\ e # None
  BY <1>1, Numbers DEF Sound
<1>4. RowOK'
  BY <1>3 DEF RowOK, Ordered, Known
<1>5. WaitingOK(r)' /\ StagingOK(r)' /\ InstalledOK(r)' /\ EndingOK(r)'
  BY <1>1, <1>2, <1>3 DEF WaitingOK, StagingOK, InstalledOK, EndingOK, Same
<1>6. AdminOK(r)'
  BY <1>1, <1>2, <1>3 DEF RotationOK, AdminOK
<1>7. KnownOK(r)'
  BY <1>1, <1>2, <1>3 DEF RotationOK, KnownOK, Known
<1>. QED BY <1>4, <1>5, <1>6, <1>7, AloneSound DEF RotationOK

LEMMA SoundPreflight ==
  ASSUME CertConstants, CertTypes, Alone, Sound, NEW r \in Rotators, Certificates!Preflight(r)
  PROVE  Sound'
<1>1. /\ UNCHANGED <<certificateTable, certificateAdmin, certificateAgent>> /\ Pc(r) = "preflight"
      /\ certificateRegistry[r] \in Certificates!Entry /\ certificateTable \in Certificates!Entry
      /\ certificateAdmin[r] \in Certificates!Entry \cup {None} /\ certificateIssued \in Nat
  BY Fields, Globals, Numbers DEF Certificates!Preflight, Certificates!At, Pc
<1>2. RowOK /\ RotationOK(r)
  BY DEF Sound
<1>3. CASE certificateIssued' = certificateIssued /\ Becomes(r, certificateRegistry[r],
           Certificates!Idle)
  <2>1. RowOK'
    BY <1>1, <1>2, <1>3 DEF RowOK, Ordered, Known
  <2>2. Known(certificateRegistry[r], certificateIssued')
        /\ (certificateAdmin'[r] # None => Known(certificateAdmin[r], certificateIssued'))
    BY <1>1, <1>2, <1>3 DEF RotationOK, KnownOK, Known
  <2>3. certificateRegistry[r].active = certificateTable.active
        /\ certificateRegistry[r].pending \in {None, certificateTable.pending}
        /\ certificateAgent.cert = certificateTable.active
    BY <1>1, <1>2 DEF RotationOK, WaitingOK
  <2>4. certificateAdmin[r] # None => IF certificateAdmin[r].pending = None
                                      THEN certificateRegistry[r].revoked
                                        /\ certificateAdmin[r].active
                                           = certificateRegistry[r].active
                                      ELSE certificateAdmin[r].active = certificateTable.active
                                        \/ certificateAdmin[r].pending <= certificateTable.active
    BY <1>2 DEF RotationOK, AdminOK
  <2>. QED BY <1>1, <1>3, <2>1, <2>2, <2>3, <2>4, SoundEnds
<1>4. CASE /\ Certificates!Reaches(r) /\ certificateIssued < MaxCerts
              /\ certificateIssued' = certificateIssued + 1
           /\ Becomes(r, Pended(r), Staged(r))
  <2>. DEFINE e == Pended(r)
  <2>1. e \in Certificates!Entry /\ e.active = certificateRegistry[r].active
        /\ e.pending = certificateIssued + 1
    BY <1>4, PendedEntry
  <2>. HIDE DEF e
  <2>2. /\ certificateRegistry'[r] = e /\ certificateRotation'[r].installed
           = certificateRotation[r].installed
        /\ Pc(r)' = "staging" /\ Bundle(r)' = certificateIssued + 1 /\ Write(r)' = e
    BY <1>4, NowAt DEF Staged, e
  <2>3. /\ certificateRegistry[r].active = certificateTable.active
           /\ certificateRegistry[r].pending \in {None, certificateTable.pending}
        /\ certificateAgent.cert = certificateTable.active /\ ~certificateRotation[r].installed
           /\ certificateRegistry[r].active <= certificateIssued
    BY <1>1, <1>2 DEF RotationOK, WaitingOK, KnownOK, Known
  <2>4. certificateTable.active \in Nat /\ certificateAgent.cert # None
        /\ (certificateTable.pending # None => certificateTable.pending \in Nat)
        /\ (certificateRegistry[r].pending # None => certificateRegistry[r].pending \in Nat)
        /\ (certificateAdmin[r] # None => certificateAdmin[r].active \in Nat
            /\ certificateAdmin[r].pending \in Nat \cup {None})
    BY <1>1, <2>3, Numbers
  <2>5. RowOK'
    BY <1>1, <1>2, <1>4, <2>4 DEF RowOK, Ordered, Known
  <2>6. e # None /\ e.active < certificateIssued + 1
    BY <1>1, <2>1, <2>3, <2>4, Numbers
  <2>7. WaitingOK(r)' /\ StagingOK(r)' /\ InstalledOK(r)' /\ EndingOK(r)'
    BY <1>1, <2>1, <2>2, <2>3, <2>6 DEF WaitingOK, StagingOK, InstalledOK, EndingOK, Same
  <2>8. KnownOK(r)'
    BY <1>1, <1>2, <1>4, <2>1, <2>2, <2>3, <2>4 DEF RotationOK, KnownOK, Known
  <2>9. certificateAdmin[r] # None => certificateAdmin[r].pending # None
    <3>1. ~certificateRegistry[r].revoked
      BY <1>2, <1>4, <2>3, <2>4 DEF Certificates!Reaches, Certificates!Accepted, RowOK, Ordered
    <3>. QED BY <1>2, <3>1 DEF RotationOK, AdminOK
  <2>10. AdminOK(r)'
    BY <1>1, <1>2, <2>2, <2>4, <2>9 DEF RotationOK, AdminOK, KnownOK, Known
  <2>. QED BY <2>5, <2>7, <2>8, <2>10, AloneSound DEF RotationOK
<1>. QED BY <1>3, <1>4, PreflightBecomes

LEMMA SoundWriteLands ==
  ASSUME CertConstants, CertTypes, Alone, Sound, NEW r \in Rotators, Certificates!WriteLands(r)
  PROVE  Sound'
<1>1. Write(r) # None /\ certificateTable' = Write(r) /\ UNCHANGED <<certificateAdmin,
      certificateAgent, certificateIssued>>
  BY DEF Certificates!WriteLands, Write
<1>2. RowOK /\ RotationOK(r)
  BY DEF Sound
<1>3. /\ certificateRegistry[r] \in Certificates!Entry /\ certificateTable \in Certificates!Entry
         /\ BundleOK(r)
      /\ certificateAdmin[r] \in Certificates!Entry \cup {None} /\ Pc(r) \in Certificates!Points
      /\ (Pc(r) \notin {"idle", "preflight"} => Bundle(r) \in Certificates!Cert)
  BY Fields, Globals DEF Pc, Bundle, BundleOK
<1>4. CASE Pc(r) = "staging"
  <2>1. Becomes(r, certificateRegistry[r], Moved(r, "installing", None))
    BY <1>4, WriteLandsBecomes DEF Pc
  <2>2. /\ certificateRegistry'[r] = certificateRegistry[r]
           /\ certificateRotation'[r].installed = certificateRotation[r].installed
        /\ Pc(r)' = "installing" /\ Bundle(r)' = Bundle(r) /\ Write(r)' = None
    BY <2>1, NowAt DEF Moved, Bundle
  <2>3. /\ certificateTable'.active = certificateRegistry[r].active
           /\ certificateTable'.pending = certificateRegistry[r].pending
        /\ certificateRegistry[r].active = certificateTable.active
           /\ certificateRegistry[r].pending = Bundle(r)
        /\ certificateRegistry[r].active < Bundle(r)
           /\ certificateAgent.cert = certificateTable.active /\ ~certificateRotation[r].installed
    BY <1>1, <1>2, <1>4 DEF RotationOK, StagingOK, Same
  <2>4. RowOK'
    BY <1>1, <1>2, <2>3 DEF RowOK, Ordered, Known, RotationOK, KnownOK
  <2>5. WaitingOK(r)' /\ StagingOK(r)' /\ InstalledOK(r)' /\ EndingOK(r)'
    BY <1>1, <2>2, <2>3 DEF WaitingOK, StagingOK, InstalledOK, EndingOK, Same
  <2>6. AdminOK(r)' /\ KnownOK(r)'
    BY <1>1, <1>2, <1>4, <2>2, <2>3 DEF RotationOK, AdminOK, KnownOK
  <2>. QED BY <2>4, <2>5, <2>6, AloneSound DEF RotationOK
<1>5. CASE Pc(r) # "staging"
  <2>1. Becomes(r, certificateRegistry[r], Certificates!Idle)
    BY <1>5, WriteLandsBecomes DEF Pc
  <2>2. Pc(r) \in {"activating", "clearing"}
    BY <1>1, <1>2, <1>3, <1>5 DEF RotationOK, WaitingOK, StagingOK, InstalledOK,
       Certificates!Points
  <2>3. /\ certificateTable'.active = certificateRegistry[r].active
           /\ certificateTable'.pending = certificateRegistry[r].pending
        /\ certificateRegistry[r].pending = None
           /\ certificateAgent.cert = certificateRegistry[r].active
    BY <1>1, <1>2, <2>2 DEF RotationOK, EndingOK, Same
  <2>4. RowOK'
    BY <1>1, <1>2, <2>3 DEF RowOK, Ordered, Known, RotationOK, KnownOK
  <2>5. certificateRegistry[r].active = Bundle(r)
        \/ certificateRegistry[r].active = certificateTable.active
    BY <1>2, <2>2 DEF RotationOK, EndingOK
  <2>6. certificateAdmin[r] # None /\ certificateAdmin[r].pending # None =>
          certificateAdmin[r].active = certificateTable'.active
            \/ certificateAdmin[r].pending <= certificateTable'.active
    <3>1. CASE Pc(r) = "clearing"
      BY <1>2, <2>3, <3>1 DEF RotationOK, EndingOK, AdminOK
    <3>2. CASE Pc(r) = "activating"
      BY <1>2, <1>3, <2>3, <3>2, Numbers DEF RotationOK, EndingOK, AdminOK
    <3>. QED BY <2>2, <3>1, <3>2
  <2>7. /\ Known(certificateRegistry[r], certificateIssued')
           /\ (certificateAdmin'[r] # None => Known(certificateAdmin[r], certificateIssued'))
        /\ certificateAdmin'[r] = certificateAdmin[r]
    BY <1>1, <1>2 DEF RotationOK, KnownOK
  <2>8. certificateAdmin[r] # None /\ certificateAdmin[r].pending = None =>
          certificateRegistry[r].revoked /\ certificateAdmin[r].active
            = certificateRegistry[r].active
    BY <1>2 DEF RotationOK, AdminOK
  <2>. QED BY <1>1, <1>3, <2>1, <2>3, <2>4, <2>6, <2>7, <2>8, SoundEnds
<1>. QED BY <1>4, <1>5

LEMMA SoundWriteFails ==
  ASSUME CertConstants, CertTypes, Alone, Sound, NEW r \in Rotators, Certificates!WriteFails(r),
         ~certificateMishap'
  PROVE  Sound'
<1>1. UNCHANGED <<certificateTable, certificateAdmin, certificateAgent, certificateIssued>>
  BY DEF Certificates!WriteFails
<1>2. RowOK /\ RotationOK(r) /\ certificateRegistry[r] \in Certificates!Entry
  BY Fields DEF Sound
<1>3. CASE /\ Pc(r) = "staging"
           /\ Becomes(r, Certificates!Cleared(certificateRegistry[r]),
                      Moved(r, "clearing", Certificates!Cleared(certificateRegistry[r])))
  <2>1. certificateRegistry[r].active = certificateTable.active
        /\ certificateAgent'.cert = certificateTable.active
    BY <1>1, <1>2, <1>3 DEF RotationOK, StagingOK
  <2>. QED BY <1>1, <1>3, <2>1, SoundClears
<1>4. CASE Pc(r) = "clearing" /\ Becomes(r, certificateRegistry[r], Certificates!Idle)
  <2>1. /\ certificateRegistry[r].pending = None
           /\ certificateRegistry[r].active = certificateTable'.active
        /\ certificateAgent'.cert = certificateTable'.active
           /\ certificateAdmin'[r] = certificateAdmin[r]
    BY <1>1, <1>2, <1>4 DEF RotationOK, EndingOK
  <2>2. RowOK'
    BY <1>1, <1>2 DEF RowOK, Ordered, Known
  <2>3. Known(certificateRegistry[r], certificateIssued')
        /\ (certificateAdmin'[r] # None => Known(certificateAdmin[r], certificateIssued'))
    BY <1>1, <1>2 DEF RotationOK, KnownOK
  <2>4. certificateAdmin[r] # None => IF certificateAdmin[r].pending = None
                                      THEN certificateRegistry[r].revoked
                                        /\ certificateAdmin[r].active
                                           = certificateRegistry[r].active
                                      ELSE certificateAdmin[r].active = certificateTable'.active
                                        \/ certificateAdmin[r].pending <= certificateTable'.active
    BY <1>1, <1>2 DEF RotationOK, AdminOK
  <2>. QED BY <1>2, <1>4, <2>1, <2>2, <2>3, <2>4, SoundEnds
<1>. QED BY <1>3, <1>4, WriteFailsBecomes DEF Pc

LEMMA SoundInstall ==
  ASSUME CertConstants, CertTypes, Alone, Sound, NEW r \in Rotators, Certificates!Install(r),
         ~certificateMishap'
  PROVE  Sound'
<1>1. UNCHANGED <<certificateTable, certificateAdmin, certificateIssued>> /\ Pc(r) = "installing"
  BY DEF Certificates!Install, Certificates!At, Pc
<1>2. RowOK /\ RotationOK(r)
  BY DEF Sound
<1>3. /\ Write(r) = None /\ certificateRegistry[r].active = certificateTable.active
         /\ certificateRegistry[r].pending = certificateTable.pending
      /\ ~certificateRotation[r].installed /\ certificateTable.pending = Bundle(r)
         /\ certificateAgent.cert = certificateTable.active
  BY <1>1, <1>2 DEF RotationOK, StagingOK, Same
<1>4. CASE /\ certificateAgent' = [cert |-> certificateRotation[r].bundle,
                                   before |-> certificateAgent.cert, up |-> FALSE]
           /\ Becomes(r, certificateRegistry[r], Installed(r))
  <2>1. /\ certificateRegistry'[r] = certificateRegistry[r] /\ certificateRotation'[r].installed
        /\ Pc(r)' = "reloading" /\ Bundle(r)' = Bundle(r) /\ Write(r)' = None
    BY <1>3, <1>4, NowAt DEF Installed, Bundle, Write
  <2>2. certificateAgent'.cert = Bundle(r) /\ certificateAgent'.before = certificateTable.active
    BY <1>3, <1>4 DEF Bundle
  <2>3. RowOK'
    BY <1>1, <1>2, <1>3, <2>2 DEF RowOK, Ordered, Known
  <2>4. WaitingOK(r)' /\ StagingOK(r)' /\ InstalledOK(r)' /\ EndingOK(r)'
    BY <1>1, <1>3, <2>1, <2>2 DEF WaitingOK, StagingOK, InstalledOK, EndingOK, Same
  <2>5. AdminOK(r)' /\ KnownOK(r)'
    BY <1>1, <1>2, <2>1 DEF RotationOK, AdminOK, KnownOK
  <2>. QED BY <2>3, <2>4, <2>5, AloneSound DEF RotationOK
<1>5. CASE Certificates!Fail(r) /\ UNCHANGED certificateAgent
  BY <1>1, <1>3, <1>5, FailBecomes, SoundClears
<1>. QED BY <1>4, <1>5, InstallBecomes DEF Certificates!Mishap

\* A failure behind the installation goes to the rollback.
LEMMA SoundReloaded ==
  ASSUME CertConstants, CertTypes, Alone, Sound, NEW r \in Rotators, Certificates!Reloaded(r)
  PROVE  Sound'
<1>1. UNCHANGED <<certificateTable, certificateAdmin, certificateAgent, certificateIssued>>
      /\ Pc(r) = "reloading"
  BY DEF Certificates!Reloaded, Certificates!At, Pc
<1>2. RowOK /\ RotationOK(r) /\ certificateRegistry[r] \in Certificates!Entry
  BY Fields DEF Sound
<1>3. /\ Write(r) = None /\ certificateRegistry[r].active = certificateTable.active
         /\ certificateRegistry[r].pending = certificateTable.pending
      /\ certificateRotation[r].installed /\ certificateTable.pending = Bundle(r)
         /\ certificateAgent.cert = Bundle(r)
      /\ certificateAgent.before = certificateTable.active
  BY <1>1, <1>2 DEF RotationOK, InstalledOK, Same
<1>4. RowOK'
  BY <1>1, <1>2 DEF RowOK, Ordered, Known
<1>5. certificateAdmin[r] # None => certificateAdmin[r].pending # None
  BY <1>1, <1>2 DEF RotationOK, AdminOK
<1>6. CASE Becomes(r, certificateRegistry[r], Moved(r, "rollback", certificateRotation[r].write))
  <2>1. /\ certificateRegistry'[r] = certificateRegistry[r]
           /\ certificateRotation'[r].installed = certificateRotation[r].installed
        /\ Pc(r)' = "rollback" /\ Bundle(r)' = Bundle(r) /\ Write(r)' = Write(r)
    BY <1>6, NowAt DEF Moved, Bundle, Write
  <2>2. WaitingOK(r)' /\ StagingOK(r)' /\ InstalledOK(r)' /\ EndingOK(r)'
    BY <1>1, <1>3, <2>1 DEF WaitingOK, StagingOK, InstalledOK, EndingOK, Same
  <2>3. AdminOK(r)' /\ KnownOK(r)'
    BY <1>1, <1>2, <1>5, <2>1 DEF RotationOK, AdminOK, KnownOK
  <2>. QED BY <1>4, <2>2, <2>3, AloneSound DEF RotationOK
<1>7. CASE /\ certificateRegistry[r].pending # None
           /\ Becomes(r, Certificates!Activated(certificateRegistry[r]),
                      Moved(r, "activating", Certificates!Activated(certificateRegistry[r])))
  <2>. DEFINE e == Certificates!Activated(certificateRegistry[r])
  <2>1. e \in Certificates!Entry /\ e.active = certificateRegistry[r].pending /\ e.pending = None
    BY <1>2, <1>7, ChangedEntry
  <2>. HIDE DEF e
  <2>2. certificateRegistry'[r] = e /\ Pc(r)' = "activating" /\ Bundle(r)' = Bundle(r)
        /\ Write(r)' = e
    BY <1>7, NowAt DEF Moved, Bundle, e
  <2>3. e # None
    BY <2>1, Numbers
  <2>4. WaitingOK(r)' /\ StagingOK(r)' /\ InstalledOK(r)' /\ EndingOK(r)'
    BY <1>1, <1>3, <2>1, <2>2, <2>3 DEF WaitingOK, StagingOK, InstalledOK, EndingOK, Same
  <2>5. AdminOK(r)'
    BY <1>1, <1>2, <1>5, <2>2 DEF RotationOK, AdminOK
  <2>6. KnownOK(r)'
    BY <1>1, <1>2, <1>7, <2>1, <2>2 DEF RotationOK, KnownOK, Known
  <2>. QED BY <1>4, <2>4, <2>5, <2>6, AloneSound DEF RotationOK
<1>. QED BY <1>3, <1>6, <1>7, ReloadedBecomes, FailBecomes

LEMMA SoundRollback ==
  ASSUME CertConstants, CertTypes, Alone, Sound, NEW r \in Rotators, Certificates!Rollback(r)
  PROVE  Sound'
<1>1. UNCHANGED <<certificateTable, certificateAdmin, certificateIssued>> /\ Pc(r) = "rollback"
  BY DEF Certificates!Rollback, Certificates!At, Pc
<1>2. RowOK /\ RotationOK(r) /\ certificateRegistry[r] \in Certificates!Entry
      /\ certificateTable \in Certificates!Entry
      /\ certificateAgent \in Agents
  BY Fields, Globals DEF Sound
<1>3. /\ certificateRegistry[r].active = certificateTable.active
         /\ certificateRegistry[r].pending = certificateTable.pending
      /\ certificateTable.pending = Bundle(r) /\ certificateAgent.cert = Bundle(r)
         /\ certificateAgent.before = certificateTable.active
      /\ Bundle(r) # None
  <2>1. Bundle(r) \in Certificates!Cert
    BY <1>1, Fields DEF BundleOK, Pc, Bundle
  <2>. QED BY <1>1, <1>2, <2>1, Numbers DEF RotationOK, InstalledOK, Same
<1>4. certificateAgent'.cert \in {certificateTable.active, certificateTable.pending}
      /\ (certificateAgent' = [certificateAgent EXCEPT !.cert = certificateAgent.before]
          => certificateAgent'.cert = certificateTable.active)
  <2>1. certificateAgent' = [certificateAgent EXCEPT !.cert = certificateAgent.before]
        => certificateAgent'.cert = certificateAgent.before
    BY <1>2 DEF Agents
  <2>. QED BY <1>3, <2>1, RollbackBecomes
<1>5. RowOK'
  BY <1>1, <1>2, <1>4 DEF RowOK, Ordered, Known
<1>6. CASE Becomes(r, certificateRegistry[r], Certificates!Idle)
  <2>1. Known(certificateRegistry[r], certificateIssued')
        /\ (certificateAdmin'[r] # None => Known(certificateAdmin[r], certificateIssued'))
           /\ certificateAdmin'[r] = certificateAdmin[r]
    BY <1>1, <1>2 DEF RotationOK, KnownOK
  <2>2. certificateAdmin[r] # None => /\ certificateAdmin[r].pending # None
                                      /\ certificateAdmin[r].active = certificateTable'.active
                                         \/ certificateAdmin[r].pending <= certificateTable'.active
    BY <1>1, <1>2 DEF RotationOK, AdminOK
  <2>. QED BY <1>1, <1>2, <1>3, <1>5, <1>6, <2>1, <2>2, SoundEnds
<1>7. CASE /\ certificateAgent' = [certificateAgent EXCEPT !.cert = certificateAgent.before]
           /\ Becomes(r, Certificates!Cleared(certificateRegistry[r]),
                      Moved(r, "clearing", Certificates!Cleared(certificateRegistry[r])))
  BY <1>1, <1>3, <1>4, <1>7, SoundClears
<1>. QED BY <1>6, <1>7, RollbackBecomes

LEMMA SoundAgentReloads ==
  ASSUME CertTypes, Sound, Certificates!AgentReloads
  PROVE  Sound'
<1>1. /\ UNCHANGED <<certificateTable, certificateRegistry, certificateAdmin,
                     certificateRotation, certificateIssued>>
      /\ certificateAgent'.cert = certificateAgent.cert
         /\ certificateAgent'.before = certificateAgent.before
  BY Globals DEF Certificates!AgentReloads, Agents
<1>. QED BY <1>1 DEF Sound, RowOK, RotationOK, WaitingOK, StagingOK, InstalledOK, EndingOK,
         AdminOK,
       KnownOK, Ordered, Known, Same, Pc, Bundle, Write

LEMMA SoundRestart ==
  ASSUME CertConstants, CertTypes, Alone, Sound, NEW r \in Rotators, Certificates!Restart(r)
  PROVE  Sound'
<1>1. /\ UNCHANGED <<certificateTable, certificateAgent, certificateIssued>>
         /\ certificateAdmin'[r] = None
      /\ Becomes(r, certificateTable, Certificates!Idle)
  BY DEF Certificates!Restart, Certificates!Change, Becomes, CertTypes, Certificates!TypeOK
<1>2. RowOK /\ certificateTable \in Certificates!Entry
      /\ certificateAgent.cert \in Certificates!Cert
  BY Globals DEF Sound
<1>3. certificateTable.pending = None => certificateAgent.cert = certificateTable.active
  BY <1>2, Numbers DEF RowOK
<1>4. RowOK' /\ Known(certificateTable, certificateIssued')
  BY <1>1, <1>2 DEF RowOK, Ordered, Known
<1>. QED BY <1>1, <1>2, <1>3, <1>4, SoundEnds

LEMMA SoundKept ==
  ASSUME CertConstants, CertTypes, Alone, Sound, [Certificates!Next]_(Certificates!vars),
         ~certificateMishap'
  PROVE  Sound'
<1>1. CASE UNCHANGED Certificates!vars
  BY <1>1, SoundStutters DEF Certificates!vars
<1>2. CASE Certificates!AgentReloads
  BY <1>2, SoundAgentReloads
<1>3. ASSUME NEW r \in Rotators, Certificates!Heartbeat(r) \/ Certificates!RefreshReads(r)
      PROVE  Sound'
  BY <1>3, SoundStutters DEF Certificates!Heartbeat, Certificates!RefreshReads
<1>4. ASSUME NEW r \in Rotators, Certificates!Registry(r)
      PROVE  Sound'
  BY <1>3, <1>4, SoundHeartbeatLands, SoundRefreshInstalls DEF Certificates!Registry
<1>5. ASSUME NEW r \in Rotators, Certificates!Activate(r)
      PROVE  FALSE
  BY <1>5 DEF Certificates!Activate, Certificates!Mishap
<1>6. ASSUME NEW r \in Rotators, Certificates!Admin(r)
      PROVE  Sound'
  BY <1>5, <1>6, SoundRevoke, SoundAdminLands DEF Certificates!Admin
<1>7. ASSUME NEW r \in Rotators, Certificates!Rotation(r)
      PROVE  Sound'
  BY <1>7, SoundRotate, SoundPreflight, SoundWriteLands, SoundWriteFails, SoundInstall,
     SoundReloaded, SoundRollback DEF Certificates!Rotation
<1>. QED BY <1>1, <1>2, <1>4, <1>6, <1>7, SoundRestart DEF Certificates!Next

LEMMA MishapStays ==
  ASSUME CertTypes, [Certificates!Next]_(Certificates!vars), certificateMishap
  PROVE  certificateMishap'
BY DEF Certificates!Next, Certificates!vars, Certificates!Registry, Certificates!Admin,
   Certificates!Rotation,
   Certificates!Heartbeat, Certificates!HeartbeatLands, Certificates!RefreshReads,
     Certificates!RefreshInstalls,
   Certificates!Activate, Certificates!Revoke, Certificates!AdminLands, Certificates!Rotate,
   Certificates!Preflight, Certificates!WriteLands, Certificates!WriteFails, Certificates!Install,
   Certificates!AgentReloads, Certificates!Reloaded, Certificates!Rollback, Certificates!Restart,
   Certificates!Mishap

LEMMA SoundInit ==
  ASSUME CertConstants, Certificates!Init
  PROVE  Sound
BY DEF Certificates!Init, Certificates!First, Certificates!Idle, Sound, RowOK, RotationOK,
   WaitingOK, StagingOK,
   InstalledOK, EndingOK, AdminOK, KnownOK, Ordered, Known, Pc, Bundle, Write

\* For one API process and any number of rotations, restarts and revocations:
\* whatever fails and wherever the process stops, the stored row accepts the
\* certificate that the agent presents, unless it was revoked or a mishap came
\* between (CertificateRotationService.rotate and its roll-back).
THEOREM NodeNotLockedOutAlways ==
  ASSUME Alone
  PROVE  PanelSpec => []NodeNotLockedOut
<1>. DEFINE I == part = "certificates" => CertTypes /\ (~certificateMishap => Sound)
<1>1. CertConstants
  BY CertificatesFit DEF CertConstants
<1>2. PanelInit => I
  BY <1>1, CertTypesInit, SoundInit DEF PanelInit
<1>3. I /\ [PanelNext]_panelVars => I'
  BY <1>1, TypesKept, SoundKept, MishapStays, PartMoves
<1>4. I => NodeNotLockedOut
  BY DEF Sound, RowOK, NodeNotLockedOut, Certificates!NodeNotLockedOut, Certificates!Accepted
<1>. QED BY <1>2, <1>3, <1>4, PTL DEF PanelSpec

-----------------------------------------------------------------------------
(***************************************************************************)
(* Telemetry: TelemetryTrue, for any nodes, viewers, windows and answers.  *)
(*                                                                         *)
(* The window of a node is the end of its answers (Windowed), though a     *)
(* poll may have emptied it in between; so what is told of a node, in the  *)
(* cache and in the poll under way, is true of its answers (TrueOf).       *)
(***************************************************************************)

NodeAnswers == [at : Nat, healthy : BOOLEAN]
AlertRows == Telemetry!Statuses \cup {None}
AlertsUnknown == nodeAlerts.flight = None

TelemetryTypes ==
  /\ nodeRegistered \subseteq Nodes
  /\ nodeLog \in [Nodes -> Seq(NodeAnswers)] /\ nodeSamples \in [Nodes -> Seq(NodeAnswers)]
  /\ nodeFlight # None => nodeFlight = [asked |-> nodeFlight.asked, rows |-> nodeFlight.rows]
                       /\ nodeFlight.asked \subseteq Nodes

\* The answers of a node are numbered, and its window has the last of them.
Windowed ==
  \A n \in Nodes :
    /\ Len(nodeSamples[n]) <= Len(nodeLog[n])
    /\ \A i \in 1..Len(nodeLog[n]) : nodeLog[n][i].at = i
    /\ \A i \in 1..Len(nodeSamples[n]) :
         nodeSamples[n][i] = nodeLog[n][(Len(nodeLog[n]) - Len(nodeSamples[n])) + i]

\* What a row says is true of the answers so far, and stays so.
TrueOf(r, answers) ==
  /\ r.at \in 1..Len(answers) /\ r.since \in 1..r.at /\ r.checks \in Nat
  /\ \A i \in r.since..r.at : answers[i].healthy = r.healthy
  /\ r.since > 1 => (r.since = r.at - r.checks + 1 \/ answers[r.since - 1].healthy # r.healthy)

RowsTrue ==
  /\ \A n \in Nodes : nodeCache[n] # None => TrueOf(nodeCache[n], nodeLog[n])
  /\ nodeFlight # None => \A n \in DOMAIN nodeFlight.rows : n \in Nodes =>
       TrueOf(nodeFlight.rows[n], nodeLog[n])

\* Alerts are typed, so that a table of them is told from no stream.
AlertTypes ==
  /\ nodeAlerts = [flight |-> nodeAlerts.flight, rows |-> nodeAlerts.rows]
  /\ nodeAlerts.rows \in [Nodes -> AlertRows]
  /\ nodeAlerts.flight # None =>
       /\ nodeAlerts.flight = [asked |-> nodeAlerts.flight.asked, rows |-> nodeAlerts.flight.rows]
       /\ nodeAlerts.flight.asked \subseteq Nodes
       /\ nodeAlerts.flight.rows \in [DOMAIN nodeAlerts.flight.rows -> AlertRows]

Shown ==
  /\ \A v \in Observers : nodeSeen[v] # None =>
       DOMAIN nodeSeen[v] \subseteq Nodes
       /\ \A n \in DOMAIN nodeSeen[v] : nodeSeen[v][n] = nodeCache[n]
  /\ \A v \in Observers : nodeWatching[v] # None =>
       DOMAIN nodeWatching[v] \subseteq Nodes
       /\ \A n \in DOMAIN nodeWatching[v] : nodeWatching[v][n] = nodeAlerts.rows[n]
  /\ nodeTimer \in BOOLEAN /\ (nodeTimer <=> \E v \in Observers : nodeWatching[v] # None)
  /\ nodeSeen = [v \in Observers |-> nodeSeen[v]]
  /\ nodeWatching = [v \in Observers |-> nodeWatching[v]]

TelemetryInv == TelemetryTypes /\ Windowed /\ RowsTrue /\ AlertTypes /\ Shown

\* A set of places in a sequence has a last one, which is its maximum.
LEMMA LastPlace ==
  ASSUME NEW n \in Nat, NEW S \in SUBSET (1..n), S # {}
  PROVE  Telemetry!Max(S) \in S /\ \A j \in S : j <= Telemetry!Max(S)
<1>. DEFINE Less == {x \in Nat \X Nat : x[1] < x[2]}
            T == {m \in Nat : n - m \in S}
<1>1. IsWellFoundedOn(Less, Nat)
  BY NatLessThanWellFounded DEF OpToRel
<1>2. T \subseteq Nat /\ T # {}
  <2>1. PICK i \in S : TRUE
    OBVIOUS
  <2>2. n - i \in Nat /\ n - (n - i) = i
    BY <2>1
  <2>. QED BY <2>2
<1>. HIDE DEF Less
<1>3. PICK m \in T : \A k \in T : <<k, m>> \notin Less
  BY <1>1, <1>2, WFMin
<1>4. ASSUME NEW j \in S PROVE j <= n - m
  <2>1. n - j \in T /\ m \in Nat /\ n - j \in Nat /\ j \in Nat
    <3>1. n - j \in Nat /\ n - (n - j) = j
      OBVIOUS
    <3>. QED BY <1>3, <3>1
  <2>2. ~(n - j < m)
    <3>. DEFINE k == n - j
    <3>1. <<k, m>> \notin Less /\ k \in Nat /\ m \in Nat
      BY <1>3, <2>1
    <3>. HIDE DEF k
    <3>2. ~(k < m)
      BY <3>1 DEF Less
    <3>. QED BY <3>2 DEF k
  <2>. QED BY <2>1, <2>2
<1>5. \E i \in S : \A j \in S : i >= j
  BY <1>3, <1>4
<1>. QED BY <1>5 DEF Telemetry!Max

\* withAnalytics() of a window that is the end of the answers.
LEMMA AnalysedIsTrue ==
  ASSUME NEW h \in Seq(NodeAnswers), NEW answers \in Seq(NodeAnswers),
         Len(h) >= 1, Len(h) <= Len(answers),
         \A i \in 1..Len(answers) : answers[i].at = i,
         \A i \in 1..Len(h) : h[i] = answers[(Len(answers) - Len(h)) + i]
  PROVE  TrueOf(Telemetry!Analysed(h), answers)
<1>. DEFINE m == Len(h)
            k == Len(answers)
            other == {i \in DOMAIN h : h[i].healthy # h[m].healthy}
            first == IF other = {} THEN 1 ELSE Telemetry!Max(other) + 1
            r == Telemetry!Analysed(h)
<1>1. m \in Nat /\ k \in Nat /\ m >= 1 /\ m <= k /\ DOMAIN h = 1..m /\ k - m \in Nat
  OBVIOUS
<1>2. \A i \in 1..m : (k - m) + i \in 1..k /\ h[i] = answers[(k - m) + i] /\ h[i].at = (k - m) + i
  <2>. TAKE i \in 1..m
  <2>1. (k - m) + i \in 1..k
    BY <1>1
  <2>. QED BY <2>1
<1>3. other \in SUBSET (1..m) /\ m \notin other
  BY <1>1
<1>4. other # {} => Telemetry!Max(other) \in other /\ \A j \in other : j <= Telemetry!Max(other)
  BY <1>1, <1>3, LastPlace
<1>5. /\ first \in 1..m
      /\ \A i \in first..m : h[i].healthy = h[m].healthy
      /\ first > 1 => first - 1 \in 1..m /\ h[first - 1].healthy # h[m].healthy
  <2>1. CASE other = {}
    BY <1>1, <2>1
  <2>2. CASE other # {}
    <3>. DEFINE last == Telemetry!Max(other)
    <3>1. last \in 1..m /\ last \in other /\ last # m
      BY <1>3, <1>4, <2>2
    <3>2. \A j \in other : j <= last
      BY <1>4, <2>2
    <3>3. first = last + 1
      BY <2>2
    <3>. HIDE DEF last, first
    <3>4. first \in 1..m /\ first - 1 = last
      BY <1>1, <3>1, <3>3
    <3>5. ASSUME NEW i \in first..m PROVE h[i].healthy = h[m].healthy
      <4>1. i \in 1..m /\ ~(i <= last)
        BY <1>1, <3>1, <3>3, <3>4
      <4>. QED BY <1>1, <3>2, <4>1
    <3>6. h[last].healthy # h[m].healthy
      BY <3>1
    <3>. QED BY <3>1, <3>4, <3>5, <3>6
  <2>. QED BY <2>1, <2>2
<1>6. /\ r.at = h[m].at /\ r.healthy = h[m].healthy /\ r.checks = m /\ r.since = h[first].at
  BY DEF Telemetry!Analysed, Telemetry!Since
<1>. HIDE DEF r, first, other
<1>7. r.at = k /\ r.since = (k - m) + first /\ m \in 1..m
  BY <1>1, <1>2, <1>5, <1>6
<1>8. r.at \in 1..k /\ r.since \in 1..r.at /\ r.checks \in Nat
  BY <1>1, <1>5, <1>6, <1>7
<1>9. ASSUME NEW i \in r.since..r.at PROVE answers[i].healthy = r.healthy
  <2>1. i - (k - m) \in first..m /\ i - (k - m) \in 1..m /\ (k - m) + (i - (k - m)) = i
    BY <1>1, <1>5, <1>7
  <2>2. h[i - (k - m)] = answers[i]
    BY <1>2, <2>1
  <2>. QED BY <1>5, <1>6, <2>1, <2>2
<1>10. ASSUME r.since > 1, first > 1 PROVE answers[r.since - 1].healthy # r.healthy
  <2>1. (k - m) + (first - 1) = r.since - 1
    BY <1>1, <1>5, <1>7
  <2>. QED BY <1>2, <1>5, <1>6, <1>10, <2>1
<1>11. first = 1 => r.since = r.at - r.checks + 1
  BY <1>1, <1>6, <1>7
<1>12. first = 1 \/ first > 1
  BY <1>1, <1>5
<1>. QED BY <1>8, <1>9, <1>10, <1>11, <1>12 DEF TrueOf, r, k

\* More answers do not make a row false.
LEMMA TruthLasts ==
  ASSUME NEW a \in Seq(NodeAnswers), NEW e \in NodeAnswers, NEW r, TrueOf(r, a)
  PROVE  TrueOf(r, Append(a, e))
<1>1. Len(Append(a, e)) = Len(a) + 1 /\ \A i \in 1..Len(a) : Append(a, e)[i] = a[i]
  BY AppendProperties
<1>2. r.at \in 1..Len(a) /\ r.since \in 1..r.at /\ Len(a) \in Nat
  BY DEF TrueOf
<1>3. r.at \in 1..Len(Append(a, e))
  BY <1>1, <1>2
<1>4. \A i \in r.since..r.at : i \in 1..Len(a)
  BY <1>2
<1>5. r.since > 1 => r.since - 1 \in 1..Len(a)
  BY <1>2
<1>. QED BY <1>1, <1>2, <1>3, <1>4, <1>5 DEF TrueOf

LEMMA TelemetryInit == Telemetry!Init => TelemetryInv
<1>. SUFFICES ASSUME Telemetry!Init PROVE TelemetryInv
  OBVIOUS
<1>. USE DEF Telemetry!Init, Telemetry!Asking
<1>1. TelemetryTypes
  BY DEF TelemetryTypes
<1>2. Windowed
  BY DEF Windowed
<1>3. RowsTrue
  <2>1. DOMAIN nodeFlight.rows = {}
    OBVIOUS
  <2>. QED BY <2>1 DEF RowsTrue
<1>4. AlertTypes
  BY DEF AlertTypes, AlertRows
<1>5. Shown
  BY DEF Shown
<1>. QED BY <1>1, <1>2, <1>3, <1>4, <1>5 DEF TelemetryInv

\* What the polls of statistics leave alone, and those of the alerts.
StatsStay == UNCHANGED <<nodeFlight, nodeCache, nodeSamples, nodeLog>>
AlertsStay == UNCHANGED <<nodeAlerts, nodeTimer, nodeWatching>>

LEMMA RowsStay ==
  ASSUME TelemetryInv, StatsStay, nodeRegistered' \subseteq Nodes
  PROVE  TelemetryTypes' /\ Windowed' /\ RowsTrue'
BY DEF TelemetryInv, StatsStay, TelemetryTypes, Windowed, RowsTrue

\* One node answers: its window is cut to size, and what is told of it is true.
LEMMA AnswerKeeps ==
  ASSUME TelemetryInv, NEW n \in Nodes, NEW healthy \in BOOLEAN, Telemetry!Answer(n, healthy)
  PROVE  TelemetryTypes' /\ Windowed' /\ RowsTrue'
<1>. DEFINE log == nodeLog[n]
            e == [at |-> Len(nodeLog[n]) + 1, healthy |-> healthy]
            answers == Append(log, e)
            all == Append(nodeSamples[n], e)
            from == IF Len(all) > Window THEN 2 ELSE 1
            h == SubSeq(all, from, Len(all))
<1>1. log \in Seq(NodeAnswers) /\ nodeSamples[n] \in Seq(NodeAnswers)
      /\ Len(log) \in Nat /\ Len(nodeSamples[n]) \in Nat /\ Len(nodeSamples[n]) <= Len(log)
  BY DEF TelemetryInv, TelemetryTypes, Windowed
<1>2. e \in NodeAnswers
  BY <1>1 DEF NodeAnswers
<1>. HIDE DEF e
<1>3. /\ answers \in Seq(NodeAnswers) /\ Len(answers) = Len(log) + 1
      /\ \A i \in 1..Len(log) : answers[i] = log[i]
      /\ answers[Len(log) + 1] = e
  BY <1>1, <1>2, AppendProperties
<1>4. /\ all \in Seq(NodeAnswers) /\ Len(all) = Len(nodeSamples[n]) + 1
      /\ \A i \in 1..Len(nodeSamples[n]) : all[i] = nodeSamples[n][i]
      /\ all[Len(nodeSamples[n]) + 1] = e
  BY <1>1, <1>2, AppendProperties
<1>5. from \in 1..2 /\ from <= Len(all) /\ Len(all) \in Nat
  BY <1>1, <1>4, TelemetryFits DEF Telemetry!NodeTelemetryAssumption
<1>. HIDE DEF answers, all, from
<1>6. /\ h \in Seq(NodeAnswers) /\ Len(h) = (Len(all) - from) + 1
      /\ \A i \in 1..((Len(all) - from) + 1) : h[i] = all[(from + i) - 1]
  <2>1. \A i \in from..Len(all) : all[i] \in NodeAnswers
    <3>. TAKE i \in from..Len(all)
    <3>1. i \in 1..Len(all)
      BY <1>5
    <3>. QED BY <1>4, <3>1, ElementOfSeq
  <2>. QED BY <1>5, <2>1, SubSeqProperties
<1>. HIDE DEF h
<1>7. \A i \in 1..Len(answers) : answers[i].at = i
  <2>1. e.at = Len(log) + 1
    BY DEF e
  <2>2. \A i \in 1..Len(log) : log[i].at = i
    BY DEF TelemetryInv, Windowed
  <2>. QED BY <1>1, <1>3, <2>1, <2>2
<1>n. PICK L \in Nat, P \in Nat : L = Len(log) /\ P = Len(nodeSamples[n])
  BY <1>1
<1>l. /\ P <= L /\ Len(answers) = L + 1 /\ Len(all) = P + 1 /\ Len(h) = (P + 2) - from
      /\ from \in 1..2 /\ from <= P + 1
  <2>1. P <= L /\ Len(answers) = L + 1 /\ Len(all) = P + 1
    BY <1>1, <1>3, <1>4, <1>n
  <2>2. Len(h) = (Len(all) - from) + 1
    BY <1>6
  <2>. QED BY <1>5, <2>1, <2>2
<1>8. ASSUME NEW i \in 1..(P + 1) PROVE all[i] = answers[(L - P) + i]
  <2>1. CASE i = P + 1
    <3>1. (L - P) + i = L + 1
      BY <1>l, <2>1
    <3>2. all[P + 1] = e /\ answers[L + 1] = e
      BY <1>3, <1>4, <1>n
    <3>. QED BY <2>1, <3>1, <3>2
  <2>2. CASE i \in 1..P
    <3>1. nodeSamples[n][i] = log[(Len(log) - Len(nodeSamples[n])) + i]
      BY <1>n, <2>2 DEF TelemetryInv, Windowed
    <3>2. (L - P) + i \in 1..L
      BY <1>l, <2>2
    <3>3. all[i] = nodeSamples[n][i]
      BY <1>4, <1>n, <2>2
    <3>4. answers[(L - P) + i] = log[(L - P) + i]
      BY <1>3, <1>n, <3>2
    <3>5. nodeSamples[n][i] = log[(L - P) + i]
      BY <1>n, <3>1
    <3>. QED BY <3>3, <3>4, <3>5
  <2>3. i = P + 1 \/ i \in 1..P
    OBVIOUS
  <2>. QED BY <2>1, <2>2, <2>3
<1>9. /\ Len(h) >= 1 /\ Len(h) <= Len(answers)
      /\ \A i \in 1..Len(h) : h[i] = answers[(Len(answers) - Len(h)) + i]
  <2>1. Len(h) >= 1 /\ Len(h) <= Len(answers)
    BY <1>l
  <2>2. ASSUME NEW i \in 1..((P + 2) - from)
        PROVE  h[i] = answers[(Len(answers) - Len(h)) + i]
    <3>1. (from + i) - 1 \in 1..(P + 1)
      BY <1>l
    <3>2. all[(from + i) - 1] = answers[(L - P) + ((from + i) - 1)]
      BY <1>8, <3>1
    <3>3. (L - P) + ((from + i) - 1) = (Len(answers) - Len(h)) + i
      BY <1>l
    <3>4. i \in 1..((Len(all) - from) + 1)
      BY <1>l
    <3>5. h[i] = all[(from + i) - 1]
      BY <1>6, <3>4
    <3>. QED BY <3>2, <3>3, <3>5
  <2>. QED BY <1>l, <2>1, <2>2
<1>10. TrueOf(Telemetry!Analysed(h), answers)
  BY <1>3, <1>6, <1>7, <1>9, AnalysedIsTrue
<1>11. /\ nodeLog' = [nodeLog EXCEPT ![n] = answers]
          /\ nodeSamples' = [nodeSamples EXCEPT ![n] = h]
       /\ nodeFlight # None
       /\ nodeFlight' = [nodeFlight EXCEPT !.rows =
                          Telemetry!Told(nodeFlight.rows, n, Telemetry!Analysed(h))]
       /\ nodeCache' = nodeCache /\ nodeRegistered' = nodeRegistered
  BY DEF Telemetry!Answer, e, all, answers, from, h
<1>12. TelemetryTypes'
  BY <1>3, <1>6, <1>11 DEF TelemetryInv, TelemetryTypes
<1>13. Windowed'
  <2>1. \A m \in Nodes : nodeLog'[m] = IF m = n THEN answers ELSE nodeLog[m]
    BY <1>11 DEF TelemetryInv, TelemetryTypes
  <2>2. \A m \in Nodes : nodeSamples'[m] = IF m = n THEN h ELSE nodeSamples[m]
    BY <1>11 DEF TelemetryInv, TelemetryTypes
  <2>. QED BY <1>7, <1>9, <2>1, <2>2 DEF TelemetryInv, Windowed
<1>14. RowsTrue'
  <2>1. \A m \in Nodes : nodeLog'[m] = IF m = n THEN answers ELSE nodeLog[m]
    BY <1>11 DEF TelemetryInv, TelemetryTypes
  <2>2. ASSUME NEW m \in Nodes, NEW r, TrueOf(r, nodeLog[m]) PROVE TrueOf(r, nodeLog[m]')
    <3>1. CASE m = n
      BY <1>1, <1>2, <2>1, <2>2, <3>1, TruthLasts DEF answers
    <3>2. CASE m # n
      BY <2>1, <2>2, <3>2
    <3>. QED BY <3>1, <3>2
  <2>3. nodeFlight'.rows = Telemetry!Told(nodeFlight.rows, n, Telemetry!Analysed(h))
    BY <1>11 DEF TelemetryInv, TelemetryTypes
  <2>4. DOMAIN nodeFlight'.rows = DOMAIN nodeFlight.rows \cup {n}
        /\ \A m \in DOMAIN nodeFlight.rows \cup {n} : nodeFlight'.rows[m] =
             IF m = n THEN Telemetry!Analysed(h) ELSE nodeFlight.rows[m]
    BY <2>3 DEF Telemetry!Told
  <2>5. ASSUME NEW m \in DOMAIN nodeFlight'.rows, m \in Nodes
        PROVE  TrueOf(nodeFlight'.rows[m], nodeLog[m]')
    <3>1. CASE m = n
      BY <1>10, <2>1, <2>4, <3>1
    <3>2. CASE m # n
      <4>1. TrueOf(nodeFlight.rows[m], nodeLog[m])
        BY <1>11, <2>4, <2>5, <3>2 DEF TelemetryInv, RowsTrue
      <4>. QED BY <2>2, <2>4, <2>5, <3>2, <4>1
    <3>. QED BY <3>1, <3>2
  <2>6. \A m \in Nodes : nodeCache'[m] # None => TrueOf(nodeCache'[m], nodeLog[m]')
    BY <1>11, <2>2 DEF TelemetryInv, RowsTrue
  <2>. QED BY <2>5, <2>6 DEF RowsTrue
<1>. QED BY <1>12, <1>13, <1>14

\* The end of a poll: its rows are the cache, and some windows are emptied.
LEMMA EndPollKeeps ==
  ASSUME TelemetryInv, Telemetry!EndPoll
  PROVE  TelemetryInv'
<1>1. nodeFlight' = None /\ nodeLog' = nodeLog /\ nodeRegistered' = nodeRegistered
      /\ nodeRegistered \subseteq Nodes
  BY DEF Telemetry!EndPoll, TelemetryInv, TelemetryTypes
<1>2. \A n \in Nodes : nodeSamples'[n] = nodeSamples[n] \/ nodeSamples'[n] = <<>>
  BY DEF Telemetry!EndPoll
<1>3. nodeCache' = [n \in Nodes |-> nodeCache'[n]]
      /\ \A n \in Nodes : nodeCache'[n] # None => TrueOf(nodeCache'[n], nodeLog[n])
  <2>1. nodeCache' = [n \in Nodes |-> IF n \in nodeFlight.asked THEN nodeFlight.rows[n] ELSE None]
        /\ nodeFlight # None /\ DOMAIN nodeFlight.rows = nodeFlight.asked
    BY DEF Telemetry!EndPoll
  <2>. QED BY <2>1 DEF TelemetryInv, RowsTrue
<1>4. TelemetryTypes'
  <2>1. nodeSamples' = [n \in Nodes |-> nodeSamples'[n]]
    BY DEF Telemetry!EndPoll
  <2>2. ASSUME NEW n \in Nodes PROVE nodeSamples'[n] \in Seq(NodeAnswers)
    <3>1. nodeSamples[n] \in Seq(NodeAnswers)
      BY DEF TelemetryInv, TelemetryTypes
    <3>2. <<>> \in Seq(NodeAnswers)
      BY EmptySeq
    <3>. QED BY <1>2, <3>1, <3>2
  <2>3. nodeSamples' \in [Nodes -> Seq(NodeAnswers)]
    BY <2>1, <2>2
  <2>4. nodeLog \in [Nodes -> Seq(NodeAnswers)] /\ nodeRegistered' \subseteq Nodes
    BY <1>1 DEF TelemetryInv, TelemetryTypes
  <2>. QED BY <1>1, <2>3, <2>4 DEF TelemetryTypes
<1>5. Windowed'
  <2>. SUFFICES ASSUME NEW n \in Nodes
       PROVE  /\ Len(nodeSamples'[n]) <= Len(nodeLog[n])
              /\ \A i \in 1..Len(nodeSamples'[n]) :
                   nodeSamples'[n][i] = nodeLog[n][(Len(nodeLog[n]) - Len(nodeSamples'[n])) + i]
    BY <1>1 DEF TelemetryInv, Windowed
  <2>1. CASE nodeSamples'[n] = nodeSamples[n]
    BY <2>1 DEF TelemetryInv, Windowed
  <2>2. CASE nodeSamples'[n] = <<>>
    <3>1. Len(nodeLog[n]) \in Nat /\ Len(nodeSamples'[n]) = 0
      BY <2>2 DEF TelemetryInv, TelemetryTypes
    <3>. QED BY <3>1
  <2>. QED BY <1>2, <2>1, <2>2
<1>6. RowsTrue'
  BY <1>1, <1>3 DEF RowsTrue
<1>7. AlertTypes'
  BY DEF TelemetryInv, AlertTypes, Telemetry!EndPoll, Telemetry!alertVars
<1>8. Shown'
  <2>1. nodeSeen' = [v \in Observers |-> IF nodeSeen[v] = None THEN None
                                         ELSE [n \in nodeRegistered |-> nodeCache'[n]]]
    BY DEF Telemetry!EndPoll, Telemetry!Snapshot
  <2>2. ASSUME NEW v \in Observers, nodeSeen'[v] # None
        PROVE  nodeSeen'[v] = [n \in nodeRegistered |-> nodeCache'[n]]
    BY <2>1, <2>2
  <2>3. AlertsStay
    BY DEF Telemetry!EndPoll, Telemetry!alertVars, AlertsStay
  <2>4. \A v \in Observers : nodeSeen'[v] # None =>
          DOMAIN nodeSeen'[v] \subseteq Nodes
          /\ \A n \in DOMAIN nodeSeen'[v] : nodeSeen'[v][n] = nodeCache'[n]
    BY <1>1, <2>2
  <2>5. nodeSeen' = [v \in Observers |-> nodeSeen'[v]]
    BY <2>1
  <2>. QED BY <2>3, <2>4, <2>5 DEF TelemetryInv, Shown, AlertsStay
<1>. QED BY <1>4, <1>5, <1>6, <1>7, <1>8 DEF TelemetryInv

\* A snapshot shows what there is; one of the alerts is not "no stream".
LEMMA SnapshotShows ==
  ASSUME NEW rows, NEW nodes \in SUBSET Nodes
  PROVE  /\ DOMAIN Telemetry!Snapshot(rows, nodes) \subseteq Nodes
         /\ \A n \in DOMAIN Telemetry!Snapshot(rows, nodes) :
              Telemetry!Snapshot(rows, nodes)[n] = rows[n]
         /\ rows \in [Nodes -> AlertRows] => Telemetry!Snapshot(rows, nodes) # None
<1>1. rows \in [Nodes -> AlertRows] => Telemetry!Snapshot(rows, nodes) \in [nodes -> AlertRows]
  BY DEF Telemetry!Snapshot
<1>2. None \notin [nodes -> AlertRows]
  BY TelemetryFits DEF Telemetry!NoAlertsAssumption, AlertRows
<1>. QED BY <1>1, <1>2 DEF Telemetry!Snapshot

LEMMA AlertsStand ==
  ASSUME TelemetryInv, AlertsStay, UNCHANGED <<nodeCache, nodeSeen>>
  PROVE  AlertTypes' /\ Shown'
BY DEF TelemetryInv, AlertsStay, AlertTypes, Shown

\* A poll that begins has no rows yet.
LEMMA PollBegins ==
  ASSUME TelemetryInv, UNCHANGED <<nodeCache, nodeSamples, nodeLog, nodeRegistered>>,
         nodeFlight' = Telemetry!Refreshed
  PROVE  TelemetryTypes' /\ Windowed' /\ RowsTrue'
<1>1. CASE nodeFlight' = nodeFlight
  BY <1>1 DEF TelemetryInv, TelemetryTypes, Windowed, RowsTrue
<1>2. CASE nodeFlight' = Telemetry!Asking(nodeRegistered)
  <2>1. nodeFlight' = [asked |-> nodeRegistered, rows |-> [n \in {} |-> None]]
    BY <1>2 DEF Telemetry!Asking
  <2>2. DOMAIN nodeFlight'.rows = {} /\ nodeFlight'.asked = nodeRegistered
        /\ nodeFlight' = [asked |-> nodeFlight'.asked, rows |-> nodeFlight'.rows]
    BY <2>1
  <2>. QED BY <2>2 DEF TelemetryInv, TelemetryTypes, Windowed, RowsTrue
<1>. QED BY <1>1, <1>2 DEF Telemetry!Refreshed

\* The steps of the alerts and of who watches them.
LEMMA AlertsKept ==
  ASSUME TelemetryInv,
         \/ Telemetry!PollAlerts \/ Telemetry!EndAlerts
         \/ \E n \in Nodes, status \in Telemetry!Statuses : Telemetry!AnswerAlerts(n, status)
         \/ \E v \in Observers : Telemetry!Watch(v) \/ Telemetry!Unwatch(v)
  PROVE  AlertTypes' /\ Shown'
<1>. USE DEF AlertsUnknown
<1>1. nodeRegistered \subseteq Nodes /\ AlertTypes /\ Shown
  BY DEF TelemetryInv, TelemetryTypes
<1>2. CASE Telemetry!PollAlerts
  <2>1. nodeAlerts' = [nodeAlerts EXCEPT !.flight = Telemetry!Asking(nodeRegistered)]
        /\ UNCHANGED <<nodeSeen, nodeCache, nodeTimer, nodeWatching>>
    BY <1>2 DEF Telemetry!PollAlerts, Telemetry!statsVars
  <2>2. /\ nodeAlerts' = [flight |-> nodeAlerts'.flight, rows |-> nodeAlerts.rows]
        /\ nodeAlerts'.rows = nodeAlerts.rows
        /\ nodeAlerts'.flight = [asked |-> nodeRegistered, rows |-> [n \in {} |-> None]]
    BY <1>1, <2>1 DEF AlertTypes, Telemetry!Asking
  <2>3. nodeAlerts'.flight.rows \in [DOMAIN nodeAlerts'.flight.rows -> AlertRows]
        /\ nodeAlerts'.flight.asked = nodeRegistered
        /\ nodeAlerts'.flight = [asked |-> nodeAlerts'.flight.asked,
                                 rows |-> nodeAlerts'.flight.rows]
    BY <2>2
  <2>. QED BY <1>1, <2>1, <2>2, <2>3 DEF AlertTypes, Shown
<1>3. CASE Telemetry!EndAlerts
  <2>. DEFINE rows == [n \in Nodes |-> IF n \in nodeAlerts.flight.asked
                                       THEN nodeAlerts.flight.rows[n] ELSE None]
  <2>1. /\ nodeAlerts.flight # None /\ DOMAIN nodeAlerts.flight.rows = nodeAlerts.flight.asked
        /\ nodeAlerts' = [flight |-> None, rows |-> rows]
        /\ UNCHANGED <<nodeSeen, nodeCache, nodeTimer>>
    BY <1>3 DEF Telemetry!EndAlerts, Telemetry!statsVars
  <2>2. rows \in [Nodes -> AlertRows]
    <3>1. \A n \in nodeAlerts.flight.asked : nodeAlerts.flight.rows[n] \in AlertRows
      BY <1>1, <2>1 DEF AlertTypes
    <3>2. None \in AlertRows
      BY DEF AlertRows
    <3>. QED BY <3>1, <3>2
  <2>. HIDE DEF rows
  <2>3. nodeAlerts'.flight = None /\ nodeAlerts'.rows = rows
        /\ nodeAlerts' = [flight |-> nodeAlerts'.flight, rows |-> nodeAlerts'.rows]
    BY <2>1
  <2>4. nodeWatching' = [v \in Observers |-> IF nodeWatching[v] = None THEN None
                           ELSE Telemetry!Snapshot(rows, nodeRegistered)]
    BY <1>3, <2>3 DEF Telemetry!EndAlerts
  <2>. DEFINE told == Telemetry!Snapshot(rows, nodeRegistered)
  <2>5. DOMAIN told \subseteq Nodes /\ (\A n \in DOMAIN told : told[n] = rows[n]) /\ told # None
    BY <1>1, <2>2, SnapshotShows
  <2>. HIDE DEF told
  <2>6. nodeWatching' = [v \in Observers |-> IF nodeWatching[v] = None THEN None ELSE told]
    BY <2>4 DEF told
  <2>7. \A v \in Observers : nodeWatching'[v] = IF nodeWatching[v] = None THEN None ELSE told
    BY <2>6
  <2>8. (\E v \in Observers : nodeWatching'[v] # None) <=> \E v \in Observers :
        nodeWatching[v] # None
    BY <2>5, <2>7
  <2>9. nodeWatching' = [v \in Observers |-> nodeWatching'[v]]
    BY <2>6
  <2>10. \A v \in Observers : nodeWatching'[v] # None =>
           DOMAIN nodeWatching'[v] \subseteq Nodes
           /\ \A n \in DOMAIN nodeWatching'[v] : nodeWatching'[v][n] = nodeAlerts'.rows[n]
    BY <2>3, <2>5, <2>7
  <2>11. AlertTypes'
    BY <2>2, <2>3 DEF AlertTypes
  <2>12. /\ \A v \in Observers : nodeSeen'[v] # None =>
               DOMAIN nodeSeen'[v] \subseteq Nodes
               /\ \A n \in DOMAIN nodeSeen'[v] : nodeSeen'[v][n] = nodeCache'[n]
         /\ nodeTimer' \in BOOLEAN
         /\ (nodeTimer' <=> \E v \in Observers : nodeWatching[v] # None)
         /\ nodeSeen' = [v \in Observers |-> nodeSeen'[v]]
    BY <1>1, <2>1 DEF Shown
  <2>13. Shown'
    BY <2>8, <2>9, <2>10, <2>12 DEF Shown
  <2>. QED BY <2>11, <2>13
<1>4. ASSUME NEW n \in Nodes, NEW status \in Telemetry!Statuses, Telemetry!AnswerAlerts(n, status)
      PROVE  AlertTypes' /\ Shown'
  <2>. DEFINE f == nodeAlerts.flight
              told == Telemetry!Told(f.rows, n, status)
  <2>1. /\ f # None /\ nodeAlerts' = [nodeAlerts EXCEPT !.flight = [f EXCEPT !.rows = told]]
        /\ UNCHANGED <<nodeSeen, nodeCache, nodeTimer, nodeWatching>>
    BY <1>4 DEF Telemetry!AnswerAlerts, Telemetry!statsVars
  <2>2. f = [asked |-> f.asked, rows |-> f.rows] /\ f.asked \subseteq Nodes
        /\ f.rows \in [DOMAIN f.rows -> AlertRows]
    BY <1>1, <2>1 DEF AlertTypes
  <2>3. told \in [DOMAIN told -> AlertRows]
    <3>1. \A m \in DOMAIN f.rows \cup {n} : (IF m = n THEN status ELSE f.rows[m]) \in AlertRows
      BY <2>2 DEF AlertRows
    <3>. QED BY <3>1 DEF Telemetry!Told
  <2>. HIDE DEF told
  <2>4. nodeAlerts' = [flight |-> [asked |-> f.asked, rows |-> told], rows |-> nodeAlerts.rows]
    <3>1. [f EXCEPT !.rows = told] = [asked |-> f.asked, rows |-> told]
      BY <2>2
    <3>. HIDE DEF f
    <3>. QED BY <1>1, <2>1, <3>1 DEF AlertTypes
  <2>5. AlertTypes'
    <3>1. nodeAlerts'.flight = [asked |-> f.asked, rows |-> told]
          /\ nodeAlerts'.rows = nodeAlerts.rows
          /\ nodeAlerts' = [flight |-> nodeAlerts'.flight, rows |-> nodeAlerts'.rows]
      BY <2>4
    <3>2. nodeAlerts'.flight.asked = f.asked /\ nodeAlerts'.flight.rows = told
      BY <3>1
    <3>. QED BY <1>1, <2>2, <2>3, <3>1, <3>2 DEF AlertTypes
  <2>6. nodeAlerts'.rows = nodeAlerts.rows
    BY <2>4
  <2>. QED BY <1>1, <2>1, <2>5, <2>6 DEF Shown
<1>5. ASSUME NEW v \in Observers, Telemetry!Watch(v) PROVE AlertTypes' /\ Shown'
  <2>. DEFINE told == Telemetry!Snapshot(nodeAlerts.rows, nodeRegistered)
  <2>1. /\ nodeWatching' = [nodeWatching EXCEPT ![v] = told]
        /\ UNCHANGED <<nodeSeen, nodeCache>>
        /\ \/ nodeTimer' = TRUE
              /\ nodeAlerts' = [nodeAlerts EXCEPT !.flight =
                   IF nodeAlerts.flight = None THEN Telemetry!Asking(nodeRegistered)
                   ELSE nodeAlerts.flight]
           \/ Telemetry!Watchers # {} /\ UNCHANGED <<nodeTimer, nodeAlerts>>
    BY <1>5 DEF Telemetry!Watch, Telemetry!statsVars
  <2>2. DOMAIN told \subseteq Nodes /\ told # None
        /\ \A n \in DOMAIN told : told[n] = nodeAlerts.rows[n]
    BY <1>1, SnapshotShows DEF AlertTypes
  <2>. HIDE DEF told
  <2>3. nodeTimer' = TRUE
    BY <1>1, <2>1 DEF Shown, Telemetry!Watchers
  <2>4. AlertTypes' /\ nodeAlerts'.rows = nodeAlerts.rows
    <3>1. CASE nodeAlerts' = nodeAlerts
      BY <1>1, <3>1 DEF AlertTypes
    <3>2. CASE nodeAlerts' = [nodeAlerts EXCEPT !.flight = Telemetry!Asking(nodeRegistered)]
      <4>1. /\ nodeAlerts' = [flight |-> nodeAlerts'.flight, rows |-> nodeAlerts.rows]
            /\ nodeAlerts'.rows = nodeAlerts.rows
            /\ nodeAlerts'.flight = [asked |-> nodeRegistered, rows |-> [n \in {} |-> None]]
        BY <1>1, <3>2 DEF AlertTypes, Telemetry!Asking
      <4>2. nodeAlerts'.flight.rows \in [DOMAIN nodeAlerts'.flight.rows -> AlertRows]
            /\ nodeAlerts'.flight.asked = nodeRegistered
            /\ nodeAlerts'.flight = [asked |-> nodeAlerts'.flight.asked,
                                     rows |-> nodeAlerts'.flight.rows]
        BY <4>1
      <4>. QED BY <1>1, <4>1, <4>2 DEF AlertTypes
    <3>3. [nodeAlerts EXCEPT !.flight = nodeAlerts.flight] = nodeAlerts
      BY <1>1 DEF AlertTypes
    <3>. QED BY <2>1, <3>1, <3>2, <3>3
  <2>5. nodeWatching' = [nodeWatching EXCEPT ![v] = told] /\ nodeWatching'[v] = told
        /\ nodeWatching' = [o \in Observers |-> nodeWatching'[o]]
        /\ \A o \in Observers \ {v} : nodeWatching'[o] = nodeWatching[o]
    <3>1. nodeWatching = [o \in Observers |-> nodeWatching[o]]
      BY <1>1 DEF Shown
    <3>. QED BY <2>1, <3>1
  <2>6. \A o \in Observers : nodeWatching'[o] # None =>
          DOMAIN nodeWatching'[o] \subseteq Nodes
          /\ \A n \in DOMAIN nodeWatching'[o] : nodeWatching'[o][n] = nodeAlerts'.rows[n]
    BY <1>1, <2>2, <2>4, <2>5 DEF Shown
  <2>7. \E o \in Observers : nodeWatching'[o] # None
    BY <2>2, <2>5
  <2>8. /\ \A o \in Observers : nodeSeen'[o] # None =>
             DOMAIN nodeSeen'[o] \subseteq Nodes
             /\ \A n \in DOMAIN nodeSeen'[o] : nodeSeen'[o][n] = nodeCache'[n]
        /\ nodeSeen' = [o \in Observers |-> nodeSeen'[o]]
    BY <1>1, <2>1 DEF Shown
  <2>9. Shown'
    BY <2>3, <2>5, <2>6, <2>7, <2>8 DEF Shown
  <2>. QED BY <2>4, <2>9
<1>6. ASSUME NEW v \in Observers, Telemetry!Unwatch(v) PROVE AlertTypes' /\ Shown'
  <2>1. /\ nodeWatching' = [nodeWatching EXCEPT ![v] = None]
        /\ nodeTimer' = (nodeTimer /\ Telemetry!Watchers # {v})
        /\ UNCHANGED <<nodeSeen, nodeCache, nodeAlerts>>
    BY <1>6 DEF Telemetry!Unwatch, Telemetry!statsVars
  <2>2. nodeWatching' = [o \in Observers |-> nodeWatching'[o]] /\ nodeWatching'[v] = None
        /\ \A o \in Observers \ {v} : nodeWatching'[o] = nodeWatching[o]
    <3>1. nodeWatching = [o \in Observers |-> nodeWatching[o]]
      BY <1>1 DEF Shown
    <3>. QED BY <2>1, <3>1
  <2>3. (nodeTimer /\ Telemetry!Watchers # {v}) <=> \E o \in Observers : nodeWatching'[o] # None
    <3>1. Telemetry!Watchers = {o \in Observers : nodeWatching[o] # None}
      BY DEF Telemetry!Watchers
    <3>2. nodeWatching[v] # None /\ v \in Telemetry!Watchers
      BY <1>6, <3>1 DEF Telemetry!Unwatch
    <3>3. nodeTimer
      BY <1>1, <3>2 DEF Shown
    <3>. QED BY <2>2, <3>1, <3>2, <3>3
  <2>4. nodeTimer' \in BOOLEAN /\ (nodeTimer' <=> \E o \in Observers : nodeWatching'[o] # None)
    BY <2>1, <2>3
  <2>5. \A o \in Observers : nodeWatching'[o] # None =>
          DOMAIN nodeWatching'[o] \subseteq Nodes
          /\ \A n \in DOMAIN nodeWatching'[o] : nodeWatching'[o][n] = nodeAlerts'.rows[n]
    BY <1>1, <2>1, <2>2 DEF Shown
  <2>6. /\ \A o \in Observers : nodeSeen'[o] # None =>
             DOMAIN nodeSeen'[o] \subseteq Nodes
             /\ \A n \in DOMAIN nodeSeen'[o] : nodeSeen'[o][n] = nodeCache'[n]
        /\ nodeSeen' = [o \in Observers |-> nodeSeen'[o]]
    BY <1>1, <2>1 DEF Shown
  <2>7. Shown'
    BY <2>2, <2>4, <2>5, <2>6 DEF Shown
  <2>. QED BY <1>1, <2>1, <2>7 DEF AlertTypes
<1>. QED BY <1>2, <1>3, <1>4, <1>5, <1>6

LEMMA SubscribersKept ==
  ASSUME TelemetryInv, NEW v \in Observers, Telemetry!Subscribe(v) \/ Telemetry!Unsubscribe(v)
  PROVE  TelemetryInv'
<1>1. AlertsStay /\ nodeCache' = nodeCache /\ nodeRegistered' = nodeRegistered
  BY DEF Telemetry!Subscribe, Telemetry!Unsubscribe, Telemetry!alertVars, AlertsStay
<1>2. TelemetryTypes' /\ Windowed' /\ RowsTrue'
  <2>1. CASE Telemetry!Subscribe(v)
    BY <2>1, PollBegins DEF Telemetry!Subscribe
  <2>2. CASE Telemetry!Unsubscribe(v)
    BY <2>2, RowsStay DEF Telemetry!Unsubscribe, StatsStay, TelemetryInv, TelemetryTypes
  <2>. QED BY <2>1, <2>2
<1>. DEFINE told == Telemetry!Snapshot(nodeCache, nodeRegistered)
<1>3. DOMAIN told \subseteq Nodes /\ \A n \in DOMAIN told : told[n] = nodeCache[n]
  BY SnapshotShows DEF TelemetryInv, TelemetryTypes
<1>4. nodeSeen' = [nodeSeen EXCEPT ![v] = told] \/ nodeSeen' = [nodeSeen EXCEPT ![v] = None]
  BY DEF Telemetry!Subscribe, Telemetry!Unsubscribe
<1>. HIDE DEF told
<1>5. nodeSeen' = [o \in Observers |-> nodeSeen'[o]]
      /\ (nodeSeen'[v] = told \/ nodeSeen'[v] = None)
      /\ \A o \in Observers \ {v} : nodeSeen'[o] = nodeSeen[o]
  <2>1. nodeSeen = [o \in Observers |-> nodeSeen[o]]
    BY DEF TelemetryInv, Shown
  <2>. QED BY <1>4, <2>1
<1>6. \A o \in Observers : nodeSeen'[o] # None =>
        DOMAIN nodeSeen'[o] \subseteq Nodes
        /\ \A n \in DOMAIN nodeSeen'[o] : nodeSeen'[o][n] = nodeCache'[n]
  BY <1>1, <1>3, <1>5 DEF TelemetryInv, Shown
<1>7. AlertTypes' /\ Shown'
  BY <1>1, <1>5, <1>6 DEF TelemetryInv, AlertTypes, Shown, AlertsStay
<1>. QED BY <1>2, <1>7 DEF TelemetryInv

LEMMA TelemetryKept ==
  ASSUME TelemetryInv, [Telemetry!Next]_(Telemetry!vars)
  PROVE  TelemetryInv'
<1>1. CASE Telemetry!Poll
  <2>1. TelemetryTypes' /\ Windowed' /\ RowsTrue'
    BY <1>1, PollBegins DEF Telemetry!Poll
  <2>2. AlertTypes' /\ Shown'
    BY <1>1, AlertsStand DEF Telemetry!Poll, Telemetry!alertVars, AlertsStay
  <2>. QED BY <2>1, <2>2 DEF TelemetryInv
<1>2. CASE Telemetry!EndPoll
  BY <1>2, EndPollKeeps
<1>3. ASSUME NEW n \in Nodes, NEW healthy \in BOOLEAN, Telemetry!Answer(n, healthy)
      PROVE  TelemetryInv'
  <2>1. AlertTypes' /\ Shown'
    BY <1>3, AlertsStand DEF Telemetry!Answer, Telemetry!alertVars, AlertsStay
  <2>. QED BY <1>3, <2>1, AnswerKeeps DEF TelemetryInv
<1>4. CASE \/ Telemetry!PollAlerts \/ Telemetry!EndAlerts
           \/ \E n \in Nodes, status \in Telemetry!Statuses : Telemetry!AnswerAlerts(n, status)
           \/ \E v \in Observers : Telemetry!Watch(v) \/ Telemetry!Unwatch(v)
  <2>1. StatsStay /\ nodeRegistered' = nodeRegistered
    BY <1>4 DEF Telemetry!PollAlerts, Telemetry!EndAlerts, Telemetry!AnswerAlerts,
       Telemetry!Watch, Telemetry!Unwatch, Telemetry!statsVars, StatsStay
  <2>2. TelemetryTypes' /\ Windowed' /\ RowsTrue'
    BY <2>1, RowsStay DEF TelemetryInv, TelemetryTypes
  <2>. QED BY <1>4, <2>2, AlertsKept DEF TelemetryInv
<1>5. ASSUME NEW v \in Observers, Telemetry!Subscribe(v) \/ Telemetry!Unsubscribe(v)
      PROVE  TelemetryInv'
  BY <1>5, SubscribersKept
<1>6. ASSUME StatsStay, AlertsStay, nodeSeen' = nodeSeen, nodeRegistered' \subseteq Nodes
      PROVE  TelemetryInv'
  <2>1. nodeCache' = nodeCache
    BY <1>6 DEF StatsStay
  <2>. QED BY <1>6, <2>1, RowsStay, AlertsStand DEF TelemetryInv
<1>7. ASSUME NEW n \in Nodes,
             \/ Telemetry!StageUpdate(n) \/ Telemetry!CheckRestart(n) \/ Telemetry!Restart(n)
             \/ Telemetry!RegisterNode(n) \/ Telemetry!RemoveNode(n)
      PROVE  TelemetryInv'
  <2>1. StatsStay /\ AlertsStay /\ nodeSeen' = nodeSeen /\ nodeRegistered' \subseteq Nodes
    BY <1>7 DEF Telemetry!StageUpdate, Telemetry!CheckRestart, Telemetry!Restart,
       Telemetry!RegisterNode, Telemetry!RemoveNode, Telemetry!statsVars, Telemetry!alertVars,
       StatsStay, AlertsStay, TelemetryInv, TelemetryTypes
  <2>. QED BY <1>6, <2>1
<1>8. CASE UNCHANGED (Telemetry!vars)
  <2>1. StatsStay /\ AlertsStay /\ nodeSeen' = nodeSeen /\ nodeRegistered' \subseteq Nodes
    BY <1>8 DEF Telemetry!vars, StatsStay, AlertsStay, TelemetryInv, TelemetryTypes
  <2>. QED BY <1>6, <2>1
<1>. QED BY <1>1, <1>2, <1>3, <1>4, <1>5, <1>7, <1>8 DEF Telemetry!Next

LEMMA TelemetryHolds == TelemetryInv => Telemetry!TelemetryTrue
<1>. SUFFICES ASSUME TelemetryInv PROVE Telemetry!TelemetryTrue
  OBVIOUS
<1>1. Telemetry!StatusSince
  BY DEF TelemetryInv, RowsTrue, TrueOf, Telemetry!StatusSince
<1>2. Telemetry!ViewersHaveLatest
  <2>1. (Telemetry!Watchers # {}) <=> \E v \in Observers : nodeWatching[v] # None
    BY DEF Telemetry!Watchers
  <2>2. nodeTimer = (Telemetry!Watchers # {})
    BY <2>1 DEF TelemetryInv, Shown
  <2>. QED BY <2>2 DEF TelemetryInv, Shown, Telemetry!ViewersHaveLatest
<1>. QED BY <1>1, <1>2 DEF Telemetry!TelemetryTrue

\* For any nodes, viewers, answers and sizes of the window: the status of a node
\* is never said to be older than its answers show, nor younger than the window
\* shows; everybody with a stream was shown the rows that there are; and alerts
\* are polled exactly while somebody watches them.
THEOREM TelemetryTrueAlways == PanelSpec => []TelemetryTrue
<1>. DEFINE I == part = "telemetry" => TelemetryInv
<1>1. PanelInit => I
  BY TelemetryInit DEF PanelInit
<1>2. I /\ [PanelNext]_panelVars => I'
  BY TelemetryKept, PartMoves
<1>3. I => TelemetryTrue
  BY TelemetryHolds DEF TelemetryTrue
<1>. QED BY <1>1, <1>2, <1>3, PTL DEF PanelSpec

-----------------------------------------------------------------------------
(***************************************************************************)
(* Versions: InstallsSound, for any upstream, providers, requests and      *)
(* failures.                                                               *)
(*                                                                         *)
(* A job knows what it chose (JobOK), and the installation that is under   *)
(* way, if there is one alone, knows what it has done to the server: which *)
(* JAR is there (Named) and what is stopped (Powered).                     *)
(***************************************************************************)

Looking == {"versions", "builds", "entry", "versions2", "builds2"}
Changing == {"stop", "stopDbs", "upload", "save"}
Starting == {"startDbs", "start", "recoverDbs", "recover"}
JobFields(j) ==
  /\ j = [kind |-> j.kind, version |-> j.version, build |-> j.build, pick |-> j.pick,
          stage |-> j.stage, pc |-> j.pc, got |-> j.got, wasRunning |-> j.wasRunning,
          vars |-> j.vars]
  /\ j.vars = [version |-> j.vars.version, build |-> j.vars.build]

\* A document that is kept came before now, and expires in time.
Came(v, now) == v.came \in Nat /\ v.came <= now /\ v.expires = v.came + Lifetime
Document(v) == v.edition \in DOMAIN Editions \cup {0}

\* The build that an installation asks for.
Wished(build) == \E wish \in Wishes : wish.kind = "install" /\ wish.build = build
\* What was picked and what the variables will be, once that is decided.
Picked(j, p) == p # "vanilla" /\ j.build # None => j.pick = j.build
Chosen(j, p) ==
  /\ j.vars.version = j.version
  /\ p # "vanilla" /\ j.build # None => j.vars.build = j.build

JobOK(j, now, p) == j.stage # "idle" =>
  /\ JobFields(j) /\ j.kind \in {"browse", "install"} /\ j.wasRunning \in BOOLEAN
  /\ j.stage \in Looking \cup Changing \cup Starting
  /\ j.kind = "browse" => j.stage \in {"versions", "builds"}
  /\ j.kind = "install" => Wished(j.build)
  /\ j.stage # "versions" => j.version \in Games!Addresses
  /\ j.kind = "install" /\ j.stage \notin {"versions", "builds"} => Picked(j, p)
  /\ j.stage \in Changing => Chosen(j, p)
  /\ j.stage \in Starting \cup {"stop", "stopDbs"} => j.wasRunning
  /\ j.stage \in Looking /\ j.pc = "save" => Came(j.got, now) /\ Document(j.got)

ServerFields(s) ==
  /\ s = [running |-> s.running, dbs |-> s.dbs, wanted |-> s.wanted, jar |-> s.jar,
          vars |-> s.vars]
  /\ s.vars = [version |-> s.vars.version, build |-> s.vars.build]
  /\ s.running \in BOOLEAN /\ s.dbs \in BOOLEAN /\ s.wanted \in BOOLEAN

InstallTypes ==
  /\ installEdition \in DOMAIN Editions \cup {0} /\ installNow \in Nat
  /\ installMemory = [r \in Installers |-> [a \in Games!Addresses |-> installMemory[r][a]]]
  /\ \A r \in Installers, a \in Games!Addresses : installMemory[r][a] # None =>
       Came(installMemory[r][a], installNow) /\ Document(installMemory[r][a])
  /\ installRow = [a \in Games!Addresses |-> installRow[a]]
  /\ \A a \in Games!Addresses : installRow[a] # None =>
       Came(installRow[a], installNow) /\ Document(installRow[a])
  /\ installJob = [r \in Installers |-> installJob[r]]
  /\ \A r \in Installers : JobOK(installJob[r], installNow, installProvider)
  /\ ServerFields(installServer)

Installs(r) == installJob[r].stage # "idle" /\ installJob[r].kind = "install"
OneInstalls ==
  "overlap" \notin installExcused => \A r, q \in Installers : Installs(r) /\ Installs(q) => r = q

\* The variables name the JAR, except between the two calls.
NamesIt(s, p) ==
  /\ s.vars.version = s.jar.version
  /\ (\A wish \in Wishes : wish.kind = "install" => wish.build # None) /\ p # "vanilla" =>
       s.vars.build = s.jar.build
Uploaded(r) == Installs(r) /\ installJob[r].stage = "save"
Named == {"overlap", "jar"} \cap installExcused = {} =>
  /\ \A r \in Installers : Uploaded(r) =>
       installServer.jar = [version |-> installJob[r].version, build |-> installJob[r].pick]
  /\ (\A r \in Installers : ~Uploaded(r)) => NamesIt(installServer, installProvider)

\* What an installation left of a server that ran.
AsWanted(s) == (s.running <=> s.wanted) /\ (s.dbs <=> s.wanted)
PowerOf(s, j) ==
  /\ j.wasRunning <=> s.wanted
  /\ j.stage \in Looking \cup {"stop"} => AsWanted(s)
  /\ j.stage \in {"stopDbs", "start", "recover"} => ~s.running /\ s.dbs
  /\ j.stage \in {"startDbs", "recoverDbs"} => ~s.running /\ ~s.dbs
  /\ j.stage \in {"upload", "save"} => ~s.running /\ ~s.dbs
Powered == {"overlap", "power"} \cap installExcused = {} =>
  /\ \A r \in Installers : Installs(r) => PowerOf(installServer, installJob[r])
  /\ (\A r \in Installers : ~Installs(r)) => AsWanted(installServer)

Fresh == Games!ListsAreFresh

InstallInv == InstallTypes /\ OneInstalls /\ Named /\ Powered /\ Fresh

LEMMA InstallInit == Games!Init => InstallInv
<1>. SUFFICES ASSUME Games!Init PROVE InstallInv
  OBVIOUS
<1>1. \A r \in Installers : installJob[r].stage = "idle"
  BY DEF Games!Init, Games!Idle
<1>2. InstallTypes
  <2>1. \A r \in Installers : JobOK(installJob[r], installNow, installProvider)
    BY <1>1 DEF JobOK
  <2>2. ServerFields(installServer)
    BY DEF Games!Init, ServerFields
  <2>3. /\ installMemory = [r \in Installers |-> [a \in Games!Addresses |-> installMemory[r][a]]]
        /\ \A r \in Installers, a \in Games!Addresses : installMemory[r][a] = None
    BY DEF Games!Init
  <2>4. /\ installRow = [a \in Games!Addresses |-> installRow[a]]
        /\ \A a \in Games!Addresses : installRow[a] = None
    BY DEF Games!Init
  <2>5. installJob = [r \in Installers |-> installJob[r]] /\ installNow \in Nat
        /\ installEdition \in DOMAIN Editions \cup {0}
    BY DEF Games!Init
  <2>. QED BY <2>1, <2>2, <2>3, <2>4, <2>5 DEF InstallTypes
<1>3. OneInstalls
  BY <1>1 DEF OneInstalls, Installs
<1>4. Named
  BY <1>1 DEF Games!Init, Named, Uploaded, Installs, NamesIt
<1>5. Powered
  BY <1>1 DEF Games!Init, Powered, Installs, AsWanted
<1>6. Fresh
  <2>1. installUsed.at = 0 /\ installUsed.came = 0 /\ Lifetime \in Nat \ {0}
    BY VersionsFit DEF Games!Init, Games!VersionInstallAssumption
  <2>. QED BY <2>1 DEF Fresh, Games!ListsAreFresh
<1>. QED BY <1>2, <1>3, <1>4, <1>5, <1>6 DEF InstallInv

-----------------------------------------------------------------------------
(* What a job is once it has an answer. *)

LEMMA BeginIs ==
  ASSUME NEW j, JobFields(j), NEW stage
  PROVE  LET k == Games!Begin(j, stage) IN
         /\ JobFields(k) /\ k.stage = stage /\ k.pc = "look"
         /\ k.kind = j.kind /\ k.version = j.version /\ k.build = j.build /\ k.pick = j.pick
         /\ k.got = j.got /\ k.wasRunning = j.wasRunning /\ k.vars = j.vars
<1>. DEFINE k == Games!Begin(j, stage)
<1>1. k = [kind |-> j.kind, version |-> j.version, build |-> j.build, pick |-> j.pick,
           stage |-> stage, pc |-> "look", got |-> j.got, wasRunning |-> j.wasRunning,
           vars |-> j.vars]
  <2>. DEFINE m == [j EXCEPT !.stage = stage]
  <2>1. k = [m EXCEPT !.pc = "look"]
    BY DEF Games!Begin
  <2>2. m = [kind |-> j.kind, version |-> j.version, build |-> j.build, pick |-> j.pick,
             stage |-> stage, pc |-> j.pc, got |-> j.got, wasRunning |-> j.wasRunning,
             vars |-> j.vars]
    BY DEF JobFields
  <2>. HIDE DEF m
  <2>3. [m EXCEPT !.pc = "look"] =
          [kind |-> j.kind, version |-> j.version, build |-> j.build, pick |-> j.pick,
           stage |-> stage, pc |-> "look", got |-> j.got, wasRunning |-> j.wasRunning,
           vars |-> j.vars]
    BY <2>2
  <2>. QED BY <2>1, <2>3
<1>. HIDE DEF k
<1>2. /\ k.stage = stage /\ k.pc = "look"
      /\ k.kind = j.kind /\ k.version = j.version /\ k.build = j.build /\ k.pick = j.pick
      /\ k.got = j.got /\ k.wasRunning = j.wasRunning /\ k.vars = j.vars
  BY <1>1
<1>3. JobFields(k)
  BY <1>1, <1>2 DEF JobFields
<1>. QED BY <1>2, <1>3 DEF k

\* A document's versions have addresses, and so has what is preferred among them.
LEMMA ListedHaveAddresses ==
  ASSUME NEW e \in DOMAIN Editions, NEW version
  PROVE  /\ Games!Range(Games!VersionsFor(Editions[e])) \subseteq Games!Addresses
         /\ Games!Preferred(version, Games!VersionsFor(Editions[e])) \in Games!Addresses
         /\ Games!Latest \in Games!Addresses /\ Games!All \in Games!Addresses
<1>. DEFINE doc == Editions[e]
            list == Games!VersionsFor(doc)
            S == DOMAIN doc.builds
<1>1. S \subseteq Games!Addresses /\ Games!Latest \in Games!Addresses
      /\ Games!All \in Games!Addresses
  BY DEF Games!Addresses
<1>2. list \in Seq(S)
  BY VersionsFit DEF Games!VersionInstallAssumption, Games!VersionsFor
<1>. HIDE DEF list, S, doc
<1>3. Games!Range(list) \subseteq S
  BY <1>2 DEF Games!Range
<1>4. list # <<>> => list[1] \in S
  <2>1. list # <<>> => 1 \in 1..Len(list)
    BY <1>2, EmptySeq
  <2>. QED BY <1>2, <2>1, ElementOfSeq
<1>5. Games!Preferred(version, list) \in S \cup {Games!Latest}
  BY <1>3, <1>4 DEF Games!Preferred
<1>. QED BY <1>1, <1>3, <1>5 DEF list, doc

\* The address that a job asks is one of those that are cached.
LEMMA AddressIs ==
  ASSUME NEW j, NEW now, JobOK(j, now, installProvider), j.stage \in Looking
  PROVE  Games!Address(j) \in Games!Addresses
BY DEF JobOK, Looking, Games!Address, Games!Addresses

\* A job that looks things up goes on looking, is over, or is ready to change the
\* server, and then it knows what it chose.
Proceeds(j, k) ==
  k.stage # "idle" =>
    /\ k.kind = j.kind /\ (k.wasRunning <=> j.wasRunning)
    /\ k.stage \in Looking \cup {"stop", "upload"}
    /\ k.stage = "stop" => j.wasRunning
    /\ k.stage = "upload" => ~j.wasRunning

LEMMA ReadyIs ==
  ASSUME NEW j, NEW now, JobOK(j, now, installProvider), j.stage \in Looking, j.kind = "install",
         j.stage \notin {"versions", "builds"}, NEW k,
         k = [Games!Begin(j, IF j.wasRunning THEN "stop" ELSE "upload") EXCEPT
                !.vars = [version |-> j.version,
                          build |-> IF Games!HasBuilds /\ j.build # None THEN j.build
                                    ELSE j.vars.build]]
  PROVE  JobOK(k, now, installProvider) /\ Proceeds(j, k)
<1>. DEFINE b == Games!Begin(j, IF j.wasRunning THEN "stop" ELSE "upload")
            v == [version |-> j.version,
                  build |-> IF Games!HasBuilds /\ j.build # None THEN j.build ELSE j.vars.build]
<1>1. JobFields(j) /\ j.wasRunning \in BOOLEAN /\ j.stage # "idle"
  BY DEF JobOK, Looking
<1>2. /\ JobFields(b) /\ b.stage = (IF j.wasRunning THEN "stop" ELSE "upload")
      /\ b.kind = j.kind /\ b.version = j.version /\ b.build = j.build /\ b.pick = j.pick
      /\ b.wasRunning = j.wasRunning
  BY <1>1, BeginIs
<1>3. v = [version |-> v.version, build |-> v.build] /\ v.version = j.version
      /\ (Games!HasBuilds /\ j.build # None => v.build = j.build)
  OBVIOUS
<1>. HIDE DEF b, v
<1>4. k = [kind |-> b.kind, version |-> b.version, build |-> b.build, pick |-> b.pick,
           stage |-> b.stage, pc |-> b.pc, got |-> b.got, wasRunning |-> b.wasRunning, vars |-> v]
  <2>1. k = [b EXCEPT !.vars = v]
    BY DEF b, v
  <2>. QED BY <1>2, <2>1 DEF JobFields
<1>5. /\ k.kind = j.kind /\ k.version = j.version /\ k.build = j.build /\ k.pick = j.pick
      /\ k.stage = b.stage /\ k.wasRunning = j.wasRunning /\ k.vars = v
  BY <1>2, <1>4
<1>6. JobFields(k)
  BY <1>3, <1>4, <1>5 DEF JobFields
<1>7. k.stage \in {"stop", "upload"} /\ (k.stage = "stop" <=> j.wasRunning)
  BY <1>2, <1>5
<1>8. Chosen(k, installProvider)
  BY <1>3, <1>5 DEF Games!HasBuilds, Chosen
<1>9. Picked(k, installProvider) /\ Wished(k.build) /\ k.version \in Games!Addresses
  BY <1>1, <1>5 DEF Games!HasBuilds, JobOK, Picked
<1>10. Proceeds(j, k)
  BY <1>1, <1>5, <1>7 DEF Proceeds
<1>11. JobOK(k, now, installProvider)
  BY <1>1, <1>5, <1>6, <1>7, <1>8, <1>9 DEF JobOK, Looking, Changing, Starting
<1>. QED BY <1>10, <1>11

LEMMA DecidedIs ==
  ASSUME NEW j, NEW now, JobOK(j, now, installProvider), j.stage \in Looking,
         NEW doc, doc = None \/ \E e \in DOMAIN Editions : doc = Editions[e]
  PROVE  JobOK(Games!Decided(j, doc), now, installProvider) /\ Proceeds(j, Games!Decided(j, doc))
<1>. DEFINE k == Games!Decided(j, doc)
<1>0. j.stage # "idle" /\ JobFields(j) /\ j.kind \in {"browse", "install"}
      /\ j.wasRunning \in BOOLEAN /\ Games!Idle.stage = "idle"
  BY DEF JobOK, Looking, Games!Idle
<1>1. ASSUME k = Games!Idle PROVE JobOK(k, now, installProvider) /\ Proceeds(j, k)
  BY <1>0, <1>1 DEF JobOK, Proceeds
<1>2. CASE j.kind = "browse"
  <2>1. k = Games!Browse(j, doc)
    BY <1>2 DEF Games!Decided
  <2>2. SUFFICES ASSUME k # Games!Idle PROVE JobOK(k, now, installProvider) /\ Proceeds(j, k)
    BY <1>1
  <2>. DEFINE version == Games!Preferred(j.version, Games!VersionsFor(doc))
              c == [j EXCEPT !.version = version]
  <2>3. k = Games!Begin(c, "builds") /\ doc # None
    BY <2>1, <2>2 DEF Games!Browse
  <2>4. version \in Games!Addresses
    BY <2>3, ListedHaveAddresses
  <2>. HIDE DEF version
  <2>5. c = [kind |-> j.kind, version |-> version, build |-> j.build, pick |-> j.pick,
             stage |-> j.stage, pc |-> j.pc, got |-> j.got, wasRunning |-> j.wasRunning,
             vars |-> j.vars]
    BY <1>0 DEF JobFields
  <2>6. JobFields(c) /\ c.kind = j.kind /\ c.version = version /\ c.wasRunning = j.wasRunning
    BY <1>0, <2>5 DEF JobFields
  <2>. HIDE DEF c, k
  <2>7. JobFields(k) /\ k.stage = "builds" /\ k.pc = "look" /\ k.kind = "browse"
        /\ k.version = version /\ k.wasRunning = j.wasRunning
    BY <1>2, <2>3, <2>6, BeginIs
  <2>. QED BY <1>0, <1>2, <2>4, <2>7 DEF JobOK, Proceeds, Looking, Changing, Starting
<1>. DEFINE Goes(b, s) ==
       /\ JobFields(b) /\ b.kind = "install" /\ b.version = j.version /\ b.build = j.build
       /\ b.wasRunning = j.wasRunning /\ b.stage = s /\ b.pc = "look"
<1>3. ASSUME NEW b, NEW s \in Looking \ {"versions"}, Goes(b, s), b.version \in Games!Addresses,
             j.kind = "install",
             s # "builds" => Picked(b, installProvider)
      PROVE  JobOK(b, now, installProvider) /\ Proceeds(j, b)
  <2>1. Wished(b.build)
    BY <1>0, <1>3 DEF JobOK
  <2>. QED BY <1>0, <1>3, <2>1 DEF JobOK, Proceeds, Looking, Changing, Starting
<1>4. \A s : JobFields(Games!Begin(j, s)) /\ Games!Begin(j, s).pick = j.pick
             /\ (j.kind = "install" => Goes(Games!Begin(j, s), s))
  BY <1>0, BeginIs
<1>5. CASE j.kind = "install" /\ j.stage = "versions"
  <2>1. k = Games!Artifact(j, doc)
    BY <1>5 DEF Games!Decided
  <2>2. SUFFICES ASSUME k # Games!Idle PROVE JobOK(k, now, installProvider) /\ Proceeds(j, k)
    BY <1>1
  <2>3. /\ doc # None /\ j.version \in Games!OfferedVersions(doc)
        /\ Games!HasBuilds \/ j.build = None
        /\ k = Games!Begin(j, IF Games!HasBuilds THEN "builds" ELSE "entry")
    BY <1>5, <2>1, <2>2 DEF Games!Artifact
  <2>4. j.version \in Games!Addresses
    BY <2>3, ListedHaveAddresses DEF Games!OfferedVersions
  <2>. DEFINE s == IF Games!HasBuilds THEN "builds" ELSE "entry"
  <2>5. Goes(k, s)
    BY <1>4, <1>5, <2>3
  <2>6. s \in Looking \ {"versions"} /\ (s # "builds" => ~Games!HasBuilds)
    BY DEF Looking
  <2>. HIDE DEF s, k
  <2>7. s # "builds" => Picked(k, installProvider)
    BY <2>6 DEF Games!HasBuilds, Picked
  <2>8. k.version \in Games!Addresses
    BY <2>4, <2>5
  <2>. QED BY <1>3, <1>5, <2>5, <2>6, <2>7, <2>8
<1>6. CASE j.kind = "install" /\ j.stage = "builds"
  <2>1. k = Games!Artifact(j, doc)
    BY <1>6 DEF Games!Decided
  <2>2. SUFFICES ASSUME k # Games!Idle PROVE JobOK(k, now, installProvider) /\ Proceeds(j, k)
    BY <1>1
  <2>. DEFINE builds == Games!BuildsFor(doc, j.version)
              pick == IF j.build = None THEN builds[1] ELSE j.build
              s == IF installProvider = "purpur" THEN "versions2" ELSE "entry"
              c == [j EXCEPT !.pick = pick]
  <2>3. k = Games!Begin(c, s)
    BY <1>6, <2>1, <2>2 DEF Games!Artifact
  <2>4. j.build # None => pick = j.build
    OBVIOUS
  <2>. HIDE DEF pick
  <2>5. c = [kind |-> j.kind, version |-> j.version, build |-> j.build, pick |-> pick,
             stage |-> j.stage, pc |-> j.pc, got |-> j.got, wasRunning |-> j.wasRunning,
             vars |-> j.vars]
    BY <1>0 DEF JobFields
  <2>6. JobFields(c) /\ c.kind = j.kind /\ c.version = j.version /\ c.wasRunning = j.wasRunning
        /\ c.build = j.build /\ c.pick = pick
    BY <1>0, <2>5 DEF JobFields
  <2>7. s \in Looking \ {"versions"}
    BY DEF Looking
  <2>. HIDE DEF c, k, s
  <2>8. Goes(k, s) /\ k.pick = pick
    BY <1>6, <2>3, <2>6, BeginIs
  <2>9. Picked(k, installProvider)
    BY <2>4, <2>8 DEF Games!HasBuilds, Picked
  <2>10. k.version \in Games!Addresses
    BY <1>6, <2>8 DEF JobOK, Looking
  <2>. QED BY <1>3, <1>6, <2>7, <2>8, <2>9, <2>10
<1>7. ASSUME NEW s \in Looking \ {"versions"}, k = Games!Begin(j, s), j.kind = "install",
             j.stage \notin {"versions", "builds"}
      PROVE  JobOK(k, now, installProvider) /\ Proceeds(j, k)
  <2>1. Goes(k, s) /\ k.pick = j.pick
    BY <1>4, <1>7
  <2>2. Picked(j, installProvider) /\ j.version \in Games!Addresses
    BY <1>0, <1>7 DEF JobOK
  <2>. HIDE DEF k
  <2>3. Picked(k, installProvider) /\ k.version \in Games!Addresses
    BY <2>1, <2>2 DEF Games!HasBuilds, Picked
  <2>. QED BY <1>3, <1>7, <2>1, <2>3
<1>8. CASE j.kind = "install" /\ j.stage = "entry"
  <2>1. k = Games!Artifact(j, doc)
    BY <1>8 DEF Games!Decided
  <2>2. k = Games!Idle \/ k = Games!Begin(j, "versions2")
    BY <1>8, <2>1 DEF Games!Artifact
  <2>. QED BY <1>1, <1>7, <1>8, <2>2 DEF Looking
<1>9. CASE j.kind = "install" /\ j.stage \in {"versions2", "builds2"}
  <2>1. k = Games!Selection(j, doc)
    BY <1>9 DEF Games!Decided
  <2>. DEFINE ready == [Games!Begin(j, IF j.wasRunning THEN "stop" ELSE "upload") EXCEPT
                          !.vars = [version |-> j.version,
                                    build |-> IF Games!HasBuilds /\ j.build # None THEN j.build
                                              ELSE j.vars.build]]
  <2>2. k = Games!Idle \/ k = Games!Begin(j, "builds2") \/ k = ready
    BY <1>9, <2>1 DEF Games!Selection
  <2>3. JobOK(ready, now, installProvider) /\ Proceeds(j, ready)
    BY <1>9, ReadyIs DEF Looking
  <2>. QED BY <1>1, <1>7, <1>9, <2>2, <2>3 DEF Looking
<1>. QED BY <1>0, <1>2, <1>5, <1>6, <1>8, <1>9 DEF Looking

-----------------------------------------------------------------------------
(* One job moves; what the server was left with. *)

Moves(r, k) == installJob' = [installJob EXCEPT ![r] = k]
Excuses == installExcused \subseteq installExcused' /\ installProvider' = installProvider

LEMMA OneMoves ==
  ASSUME InstallInv, NEW r \in Installers, NEW k, Moves(r, k)
  PROVE  /\ installJob'[r] = k /\ installJob' = [q \in Installers |-> installJob'[q]]
         /\ \A q \in Installers \ {r} : installJob'[q] = installJob[q]
<1>1. installJob = [q \in Installers |-> installJob[q]]
  BY DEF InstallInv, InstallTypes
<1>. QED BY <1>1 DEF Moves

\* A job is as good later, and a document as old as it was.
LEMMA JobsLater ==
  ASSUME NEW j, NEW p, NEW n \in Nat, NEW m \in Nat, n <= m, JobOK(j, n, p)
  PROVE  JobOK(j, m, p)
BY DEF JobOK, Came

LEMMA DocumentsLater ==
  ASSUME NEW v, NEW n \in Nat, NEW m \in Nat, n <= m, Came(v, n)
  PROVE  Came(v, m)
BY DEF Came

\* No installation begins in this step, so that there is still one at most.
LEMMA OneStill ==
  ASSUME InstallInv, Excuses, NEW r \in Installers, NEW k, Moves(r, k),
         k.stage # "idle" /\ k.kind = "install" => Installs(r)
  PROVE  OneInstalls'
<1>1. installJob'[r] = k /\ \A q \in Installers \ {r} : installJob'[q] = installJob[q]
  BY OneMoves
<1>2. \A q \in Installers : Installs(q)' => Installs(q)
  BY <1>1 DEF Installs
<1>. QED BY <1>2 DEF InstallInv, OneInstalls, Excuses

\* The installation that is alone moves.
LEMMA AloneMoves ==
  ASSUME InstallInv, Excuses, NEW r \in Installers, Installs(r), NEW k, Moves(r, k),
         k.stage # "idle" => k.kind = "install",
         {"overlap", "jar"} \cap installExcused' = {} =>
           IF k.stage = "save"
           THEN installServer'.jar = [version |-> k.version, build |-> k.pick]
           ELSE NamesIt(installServer', installProvider),
         {"overlap", "power"} \cap installExcused' = {} =>
           IF k.stage = "idle" THEN AsWanted(installServer') ELSE PowerOf(installServer', k)
  PROVE  OneInstalls' /\ Named' /\ Powered'
<1>1. installJob'[r] = k /\ \A q \in Installers \ {r} : installJob'[q] = installJob[q]
  BY OneMoves
<1>2. OneInstalls'
  BY OneStill
<1>3. ASSUME "overlap" \notin installExcused', NEW q \in Installers \ {r} PROVE ~Installs(q)'
  <2>1. ~Installs(q)
    BY <1>3 DEF InstallInv, OneInstalls, Excuses
  <2>. QED BY <1>1, <2>1 DEF Installs
<1>4. Named'
  <2>. SUFFICES ASSUME {"overlap", "jar"} \cap installExcused' = {}
       PROVE  /\ \A q \in Installers : Uploaded(q)' =>
                   installServer'.jar =
                     [version |-> installJob'[q].version, build |-> installJob'[q].pick]
              /\ (\A q \in Installers : ~Uploaded(q)') =>
                   NamesIt(installServer', installProvider)
    BY DEF Named, Excuses
  <2>1. \A q \in Installers : Uploaded(q)' => q = r /\ k.stage = "save"
    BY <1>1, <1>3 DEF Uploaded, Installs
  <2>2. k.stage = "save" => Uploaded(r)'
    BY <1>1 DEF Uploaded, Installs
  <2>. QED BY <1>1, <2>1, <2>2
<1>5. Powered'
  <2>. SUFFICES ASSUME {"overlap", "power"} \cap installExcused' = {}
       PROVE  /\ \A q \in Installers : Installs(q)' => PowerOf(installServer', installJob'[q])
              /\ (\A q \in Installers : ~Installs(q)') => AsWanted(installServer')
    BY DEF Powered
  <2>1. \A q \in Installers : Installs(q)' => q = r /\ k.stage # "idle"
    BY <1>1, <1>3 DEF Installs
  <2>2. k.stage # "idle" => Installs(r)'
    BY <1>1 DEF Installs
  <2>. QED BY <1>1, <2>1, <2>2
<1>. QED BY <1>2, <1>4, <1>5

\* Somebody who browses moves, and the server does not.
LEMMA BrowserMoves ==
  ASSUME InstallInv, Excuses, NEW r \in Installers, ~Installs(r), NEW k, Moves(r, k),
         ~(k.stage # "idle" /\ k.kind = "install"), installServer' = installServer
  PROVE  OneInstalls' /\ Named' /\ Powered'
<1>1. installJob'[r] = k /\ \A q \in Installers \ {r} : installJob'[q] = installJob[q]
  BY OneMoves
<1>2. OneInstalls'
  BY OneStill
<1>3. \A q \in Installers : (Installs(q)' <=> Installs(q)) /\ (Uploaded(q)' <=> Uploaded(q))
                            /\ (Installs(q) => installJob'[q] = installJob[q])
  BY <1>1 DEF Installs, Uploaded
<1>4. Named'
  BY <1>3 DEF InstallInv, Named, Excuses, Uploaded
<1>5. Powered'
  BY <1>3 DEF InstallInv, Powered, Excuses
<1>. QED BY <1>2, <1>4, <1>5

\* An answer, whatever it is, takes nothing from the server.
LEMMA LookingKeeps ==
  ASSUME InstallInv, Excuses, NEW r \in Installers, installJob[r].stage \in Looking,
         NEW k, Moves(r, k), Proceeds(installJob[r], k),
         JobOK(k, installNow, installProvider), installServer' = installServer
  PROVE  OneInstalls' /\ Named' /\ Powered'
<1>. DEFINE j == installJob[r]
<1>1. JobOK(j, installNow, installProvider) /\ j.stage # "idle" /\ ServerFields(installServer)
  BY DEF InstallInv, InstallTypes, Looking
<1>2. CASE j.kind # "install"
  <2>1. ~Installs(r) /\ ~(k.stage # "idle" /\ k.kind = "install")
    BY <1>2 DEF Installs, Proceeds
  <2>. QED BY <2>1, BrowserMoves
<1>3. CASE j.kind = "install"
  <2>1. Installs(r) /\ (k.stage # "idle" => k.kind = "install") /\ k.stage # "save"
    BY <1>1, <1>3 DEF Installs, Proceeds, Looking
  <2>2. ASSUME {"overlap", "jar"} \cap installExcused' = {}
        PROVE  NamesIt(installServer', installProvider)
    <3>1. {"overlap", "jar"} \cap installExcused = {}
      BY <2>2 DEF Excuses
    <3>2. \A q \in Installers : ~Uploaded(q)
      BY <2>1, <3>1 DEF InstallInv, OneInstalls, Uploaded, Looking
    <3>. QED BY <3>1, <3>2 DEF InstallInv, Named
  <2>3. ASSUME {"overlap", "power"} \cap installExcused' = {}
        PROVE  IF k.stage = "idle" THEN AsWanted(installServer') ELSE PowerOf(installServer', k)
    <3>1. PowerOf(installServer, j)
      BY <2>1, <2>3 DEF InstallInv, Powered, Excuses
    <3>2. AsWanted(installServer) /\ (j.wasRunning <=> installServer.wanted)
      BY <3>1 DEF PowerOf
    <3>3. k.stage # "idle" => (k.wasRunning <=> installServer.wanted)
            /\ k.stage \in Looking \cup {"stop", "upload"}
            /\ (k.stage = "upload" => ~installServer.running /\ ~installServer.dbs)
      BY <3>2 DEF Proceeds, AsWanted
    <3>. QED BY <3>2, <3>3 DEF PowerOf, Looking
  <2>. QED BY <2>1, <2>2, <2>3, AloneMoves
<1>. QED BY <1>2, <1>3

-----------------------------------------------------------------------------
(* requestText() *)

\* What an answer changes besides the server: the caches and the job.
Caches ==
  /\ installMemory' = [r \in Installers |-> [a \in Games!Addresses |-> installMemory'[r][a]]]
  /\ \A r \in Installers, a \in Games!Addresses : installMemory'[r][a] # None =>
       Came(installMemory'[r][a], installNow) /\ Document(installMemory'[r][a])
  /\ installRow' = [a \in Games!Addresses |-> installRow'[a]]
  /\ \A a \in Games!Addresses : installRow'[a] # None =>
       Came(installRow'[a], installNow) /\ Document(installRow'[a])

LEMMA AnswerKept ==
  ASSUME InstallInv, Excuses, Caches, NEW r \in Installers, installJob[r].stage \in Looking,
         NEW k, Moves(r, k), Proceeds(installJob[r], k),
         JobOK(k, installNow, installProvider), Fresh',
         UNCHANGED <<installServer, installNow, installEdition>>
  PROVE  InstallInv'
<1>1. installJob'[r] = k /\ installJob' = [q \in Installers |-> installJob'[q]]
      /\ \A q \in Installers \ {r} : installJob'[q] = installJob[q]
  BY OneMoves
<1>2. \A q \in Installers : JobOK(installJob'[q], installNow', installProvider')
  BY <1>1 DEF InstallInv, InstallTypes, Excuses
<1>3. InstallTypes'
  BY <1>1, <1>2 DEF InstallInv, InstallTypes, Caches
<1>. QED BY <1>3, LookingKeeps DEF InstallInv

LEMMA CachesStay ==
  ASSUME InstallInv, UNCHANGED <<installMemory, installRow>>
  PROVE  Caches
BY DEF InstallInv, InstallTypes, Caches

\* Waiting for the next place to look at.
LEMMA WaitsOn ==
  ASSUME NEW j, NEW p, NEW now, JobOK(j, now, p), j.stage \in Looking, NEW pc, pc # "save"
  PROVE  JobOK([j EXCEPT !.pc = pc], now, p) /\ Proceeds(j, [j EXCEPT !.pc = pc])
<1>. DEFINE k == [j EXCEPT !.pc = pc]
<1>1. JobFields(j) /\ j.stage # "idle" /\ j.wasRunning \in BOOLEAN
  BY DEF JobOK, Looking
<1>2. k = [kind |-> j.kind, version |-> j.version, build |-> j.build, pick |-> j.pick,
           stage |-> j.stage, pc |-> pc, got |-> j.got, wasRunning |-> j.wasRunning,
           vars |-> j.vars]
  BY <1>1 DEF JobFields
<1>. HIDE DEF k
<1>3. /\ k.kind = j.kind /\ k.version = j.version /\ k.build = j.build /\ k.pick = j.pick
      /\ k.got = j.got /\ k.wasRunning = j.wasRunning /\ k.vars = j.vars /\ k.stage = j.stage
      /\ k.pc = pc
  BY <1>2
<1>4. JobFields(k)
  BY <1>1, <1>2, <1>3 DEF JobFields
<1>5. JobOK(k, now, p)
  BY <1>1, <1>3, <1>4 DEF JobOK, Picked, Chosen, Looking, Changing, Starting
<1>6. Proceeds(j, k)
  BY <1>1, <1>3 DEF Proceeds, Looking
<1>. QED BY <1>5, <1>6 DEF k

\* What is read from a cache is young enough.
LEMMA UsesIs ==
  ASSUME InstallInv, NEW r \in Installers, installJob[r].stage \in Looking, NEW v,
         Came(v, installNow), Document(v), v.expires > installNow, Games!Uses(r, v)
  PROVE  LET k == Games!Decided(installJob[r], Games!Doc(v)) IN
         Moves(r, k) /\ JobOK(k, installNow, installProvider) /\ Proceeds(installJob[r], k)
         /\ Fresh'
<1>1. Games!Doc(v) = None \/ \E e \in DOMAIN Editions : Games!Doc(v) = Editions[e]
  BY DEF Games!Doc, Document
<1>2. JobOK(installJob[r], installNow, installProvider) /\ installNow \in Nat
  BY DEF InstallInv, InstallTypes
<1>3. Fresh'
  <2>1. installUsed'.at = installNow /\ installUsed'.came = v.came
    BY DEF Games!Uses
  <2>2. Lifetime \in Nat
    BY VersionsFit DEF Games!VersionInstallAssumption
  <2>. QED BY <1>2, <2>1, <2>2 DEF Came, Fresh, Games!ListsAreFresh
<1>. QED BY <1>1, <1>2, <1>3, DecidedIs DEF Games!Uses, Games!Answered, Games!Goes, Moves

LEMMA LookupKeeps ==
  ASSUME InstallInv, NEW r \in Installers, Games!Lookup(r)
  PROVE  InstallInv'
<1>. DEFINE j == installJob[r]
            v == installMemory[r][Games!Address(j)]
<1>1. j.stage \in Looking /\ JobOK(j, installNow, installProvider)
  BY DEF InstallInv, InstallTypes, Games!Lookup, Games!Asks, Looking
<1>2. Excuses /\ Caches /\ UNCHANGED <<installServer, installNow, installEdition>>
  BY CachesStay DEF Games!Lookup, Excuses
<1>3. Games!Address(j) \in Games!Addresses
  BY <1>1, AddressIs
<1>4. CASE v # None /\ v.expires > installNow
  <2>1. Came(v, installNow) /\ Document(v)
    BY <1>3, <1>4 DEF InstallInv, InstallTypes
  <2>2. Games!Uses(r, v)
    BY <1>4 DEF Games!Lookup
  <2>. HIDE DEF v
  <2>3. PICK k : Moves(r, k) /\ JobOK(k, installNow, installProvider) /\ Proceeds(j, k) /\ Fresh'
    BY <1>1, <1>4, <2>1, <2>2, UsesIs
  <2>. QED BY <1>1, <1>2, <2>3, AnswerKept
<1>5. CASE ~(v # None /\ v.expires > installNow)
  <2>. DEFINE k == [j EXCEPT !.pc = "row"]
  <2>1. Moves(r, k) /\ installUsed' = installUsed
    BY <1>5 DEF Games!Lookup, Games!Goes, Moves
  <2>2. JobOK(k, installNow, installProvider) /\ Proceeds(j, k)
    BY <1>1, WaitsOn
  <2>3. Fresh'
    BY <2>1 DEF InstallInv, Fresh, Games!ListsAreFresh
  <2>. HIDE DEF k
  <2>. QED BY <1>1, <1>2, <2>1, <2>2, <2>3, AnswerKept
<1>. QED BY <1>4, <1>5

LEMMA ReadRowKeeps ==
  ASSUME InstallInv, NEW r \in Installers, Games!ReadRow(r)
  PROVE  InstallInv'
<1>. DEFINE j == installJob[r]
            a == Games!Address(j)
            v == installRow[a]
<1>1. j.stage \in Looking /\ JobOK(j, installNow, installProvider)
  BY DEF InstallInv, InstallTypes, Games!ReadRow, Games!Asks, Looking
<1>2. Excuses /\ UNCHANGED <<installServer, installNow, installEdition, installRow>>
  BY DEF Games!ReadRow, Games!Works, Games!Fails, Excuses
<1>3. a \in Games!Addresses
  BY <1>1, AddressIs
<1>4. CASE /\ v # None /\ v.expires > installNow
           /\ installMemory' = [installMemory EXCEPT ![r][a] = v] /\ Games!Uses(r, v)
  <2>1. Came(v, installNow) /\ Document(v)
    BY <1>3, <1>4 DEF InstallInv, InstallTypes
  <2>. HIDE DEF a
  <2>2. Caches
    <3>. HIDE DEF v, j
    <3>1. installMemory = [q \in Installers |-> [b \in Games!Addresses |-> installMemory[q][b]]]
      BY DEF InstallInv, InstallTypes
    <3>. DEFINE cached(q, b) == IF q = r /\ b = a THEN v ELSE installMemory[q][b]
    <3>2. installMemory' = [q \in Installers |-> [b \in Games!Addresses |-> cached(q, b)]]
      <4>1. installMemory' = [installMemory EXCEPT ![r] = [installMemory[r] EXCEPT ![a] = v]]
        BY <1>4
      <4>2. [installMemory[r] EXCEPT ![a] = v] = [b \in Games!Addresses |-> cached(r, b)]
        BY <1>3, <3>1
      <4>. QED BY <1>3, <3>1, <4>1, <4>2
    <3>3. \A q \in Installers, b \in Games!Addresses : installMemory'[q][b] = cached(q, b)
      BY <3>2
    <3>4. installMemory' = [q \in Installers |-> [b \in Games!Addresses |-> installMemory'[q][b]]]
      BY <3>2
    <3>. QED BY <1>2, <2>1, <3>3, <3>4 DEF InstallInv, InstallTypes, Caches
  <2>. HIDE DEF v
  <2>3. PICK k : Moves(r, k) /\ JobOK(k, installNow, installProvider) /\ Proceeds(j, k) /\ Fresh'
    BY <1>1, <1>4, <2>1, UsesIs
  <2>. QED BY <1>1, <1>2, <2>2, <2>3, AnswerKept
<1>5. CASE Games!Goes(r, [j EXCEPT !.pc = "fetch"]) /\ UNCHANGED <<installMemory, installUsed>>
  <2>. DEFINE k == [j EXCEPT !.pc = "fetch"]
  <2>1. Moves(r, k) /\ Caches
    BY <1>2, <1>5, CachesStay DEF Games!Goes, Moves
  <2>2. JobOK(k, installNow, installProvider) /\ Proceeds(j, k)
    BY <1>1, WaitsOn
  <2>3. Fresh'
    BY <1>5 DEF InstallInv, Fresh, Games!ListsAreFresh
  <2>. HIDE DEF k
  <2>. QED BY <1>1, <1>2, <2>1, <2>2, <2>3, AnswerKept
<1>. QED BY <1>4, <1>5 DEF Games!ReadRow

LEMMA FetchKeeps ==
  ASSUME InstallInv, NEW r \in Installers, Games!Fetch(r)
  PROVE  InstallInv'
<1>. DEFINE j == installJob[r]
            a == Games!Address(j)
            v == [edition |-> installEdition, came |-> installNow,
                  expires |-> installNow + Lifetime]
<1>1. j.stage \in Looking /\ JobOK(j, installNow, installProvider)
  BY DEF InstallInv, InstallTypes, Games!Fetch, Games!Asks, Looking
<1>2. Excuses /\ UNCHANGED <<installServer, installNow, installEdition, installRow, installUsed>>
  BY DEF Games!Fetch, Games!Works, Games!Fails, Excuses
<1>3. a \in Games!Addresses
  BY <1>1, AddressIs
<1>4. Fresh'
  BY <1>2 DEF InstallInv, Fresh, Games!ListsAreFresh
<1>5. Came(v, installNow) /\ Document(v)
  BY DEF InstallInv, InstallTypes, Came, Document
<1>6. CASE installMemory' = [installMemory EXCEPT ![r][a] = v]
           /\ Games!Goes(r, [j EXCEPT !.pc = "save", !.got = v])
  <2>. DEFINE k == [j EXCEPT !.pc = "save", !.got = v]
  <2>. HIDE DEF a, v
  <2>1. Caches
    <3>. HIDE DEF j
    <3>1. installMemory = [q \in Installers |-> [b \in Games!Addresses |-> installMemory[q][b]]]
      BY DEF InstallInv, InstallTypes
    <3>. DEFINE cached(q, b) == IF q = r /\ b = a THEN v ELSE installMemory[q][b]
    <3>2. installMemory' = [q \in Installers |-> [b \in Games!Addresses |-> cached(q, b)]]
      <4>1. installMemory' = [installMemory EXCEPT ![r] = [installMemory[r] EXCEPT ![a] = v]]
        BY <1>6
      <4>2. [installMemory[r] EXCEPT ![a] = v] = [b \in Games!Addresses |-> cached(r, b)]
        BY <1>3, <3>1
      <4>. QED BY <1>3, <3>1, <4>1, <4>2
    <3>3. \A q \in Installers, b \in Games!Addresses : installMemory'[q][b] = cached(q, b)
      BY <3>2
    <3>4. installMemory' = [q \in Installers |-> [b \in Games!Addresses |-> installMemory'[q][b]]]
      BY <3>2
    <3>. QED BY <1>2, <1>5, <3>3, <3>4 DEF InstallInv, InstallTypes, Caches
  <2>2. JobFields(j) /\ j.stage # "idle" /\ j.wasRunning \in BOOLEAN
    BY <1>1 DEF JobOK, Looking
  <2>3. k = [kind |-> j.kind, version |-> j.version, build |-> j.build, pick |-> j.pick,
             stage |-> j.stage, pc |-> "save", got |-> v, wasRunning |-> j.wasRunning,
             vars |-> j.vars]
    <3>. DEFINE m == [j EXCEPT !.pc = "save"]
    <3>1. k = [m EXCEPT !.got = v]
      OBVIOUS
    <3>2. m = [kind |-> j.kind, version |-> j.version, build |-> j.build, pick |-> j.pick,
               stage |-> j.stage, pc |-> "save", got |-> j.got, wasRunning |-> j.wasRunning,
               vars |-> j.vars]
      BY <2>2 DEF JobFields
    <3>. HIDE DEF m
    <3>3. [m EXCEPT !.got = v] =
            [kind |-> j.kind, version |-> j.version, build |-> j.build, pick |-> j.pick,
             stage |-> j.stage, pc |-> "save", got |-> v, wasRunning |-> j.wasRunning,
             vars |-> j.vars]
      BY <3>2
    <3>. QED BY <3>1, <3>3
  <2>4. Moves(r, k)
    BY <1>6 DEF Games!Goes, Moves
  <2>. HIDE DEF k
  <2>5. /\ k.kind = j.kind /\ k.version = j.version /\ k.build = j.build /\ k.pick = j.pick
        /\ k.got = v /\ k.wasRunning = j.wasRunning /\ k.vars = j.vars /\ k.stage = j.stage
    BY <2>3
  <2>6. JobFields(k)
    BY <2>2, <2>3, <2>5 DEF JobFields
  <2>7. JobOK(k, installNow, installProvider)
    BY <1>1, <1>5, <2>2, <2>5, <2>6 DEF JobOK, Picked, Chosen, Looking, Changing, Starting
  <2>8. Proceeds(j, k)
    BY <1>1, <2>2, <2>5 DEF Proceeds, Looking
  <2>. QED BY <1>1, <1>2, <1>4, <2>1, <2>4, <2>7, <2>8, AnswerKept
<1>7. CASE Games!Answered(r, None) /\ installMemory' = installMemory
  <2>. DEFINE k == Games!Decided(j, None)
  <2>1. JobOK(k, installNow, installProvider) /\ Proceeds(j, k)
    BY <1>1, DecidedIs
  <2>2. Moves(r, k) /\ Caches
    BY <1>2, <1>7, CachesStay DEF Games!Answered, Games!Goes, Moves
  <2>. HIDE DEF k
  <2>. QED BY <1>1, <1>2, <1>4, <2>1, <2>2, AnswerKept
<1>. QED BY <1>6, <1>7 DEF Games!Fetch

LEMMA SaveRowKeeps ==
  ASSUME InstallInv, NEW r \in Installers, Games!SaveRow(r)
  PROVE  InstallInv'
<1>. DEFINE j == installJob[r]
            v == j.got
            a == Games!Address(j)
            k == Games!Decided(j, Games!Doc(v))
<1>1. j.stage \in Looking /\ JobOK(j, installNow, installProvider) /\ j.pc = "save"
  BY DEF InstallInv, InstallTypes, Games!SaveRow, Games!Asks, Looking
<1>2. Excuses /\ UNCHANGED <<installServer, installNow, installEdition, installMemory>>
  BY DEF Games!SaveRow, Games!Works, Games!Fails, Excuses
<1>3. Came(v, installNow) /\ Document(v)
  BY <1>1 DEF JobOK, Looking
<1>4. Caches
  <2>1. installRow' = [installRow EXCEPT ![a] = v] \/ installRow' = installRow
    BY DEF Games!SaveRow
  <2>2. installRow = [b \in Games!Addresses |-> installRow[b]]
    BY DEF InstallInv, InstallTypes
  <2>. HIDE DEF a, v, j
  <2>3. /\ installRow' = [b \in Games!Addresses |-> installRow'[b]]
        /\ \A b \in Games!Addresses : installRow'[b] = v \/ installRow'[b] = installRow[b]
    BY <2>1, <2>2
  <2>. QED BY <1>2, <1>3, <2>3 DEF InstallInv, InstallTypes, Caches
<1>5. Fresh'
  <2>1. installUsed'.at = v.came /\ installUsed'.came = v.came
    BY DEF Games!SaveRow
  <2>2. Lifetime \in Nat \ {0}
    BY VersionsFit DEF Games!VersionInstallAssumption
  <2>. QED BY <1>3, <2>1, <2>2 DEF Came, Fresh, Games!ListsAreFresh
<1>6. Games!Doc(v) = None \/ \E e \in DOMAIN Editions : Games!Doc(v) = Editions[e]
  BY <1>3 DEF Games!Doc, Document
<1>7. JobOK(k, installNow, installProvider) /\ Proceeds(j, k)
  BY <1>1, <1>6, DecidedIs
<1>8. Moves(r, k)
  BY DEF Games!SaveRow, Games!Answered, Games!Goes, Moves
<1>. HIDE DEF k
<1>. QED BY <1>1, <1>2, <1>4, <1>5, <1>7, <1>8, AnswerKept

-----------------------------------------------------------------------------
(* The installation. *)

\* What the installation knows of the server before one of its calls.
LEMMA KnowsOf ==
  ASSUME InstallInv, NEW r \in Installers, installJob[r].stage \in Changing \cup Starting
  PROVE  LET j == installJob[r] IN
         /\ Installs(r) /\ JobOK(j, installNow, installProvider) /\ ServerFields(installServer)
         /\ JobFields(j) /\ j.kind = "install" /\ j.wasRunning \in BOOLEAN
         /\ {"overlap", "jar"} \cap installExcused = {} =>
              IF j.stage = "save"
              THEN installServer.jar = [version |-> j.version, build |-> j.pick]
              ELSE NamesIt(installServer, installProvider)
         /\ {"overlap", "power"} \cap installExcused = {} => PowerOf(installServer, j)
<1>. DEFINE j == installJob[r]
<1>1. /\ JobOK(j, installNow, installProvider) /\ ServerFields(installServer)
      /\ JobFields(j) /\ j.kind = "install" /\ j.wasRunning \in BOOLEAN /\ j.stage # "idle"
  BY DEF InstallInv, InstallTypes, JobOK, Changing, Starting
<1>2. Installs(r)
  BY <1>1 DEF Installs
<1>3. ASSUME {"overlap", "jar"} \cap installExcused = {}, j.stage # "save"
      PROVE  NamesIt(installServer, installProvider)
  <2>1. \A q \in Installers : ~Uploaded(q)
    BY <1>2, <1>3 DEF InstallInv, OneInstalls, Uploaded
  <2>. QED BY <1>3, <2>1 DEF InstallInv, Named
<1>4. ASSUME {"overlap", "jar"} \cap installExcused = {}, j.stage = "save"
      PROVE  installServer.jar = [version |-> j.version, build |-> j.pick]
  BY <1>2, <1>4 DEF InstallInv, Named, Uploaded
<1>5. {"overlap", "power"} \cap installExcused = {} => PowerOf(installServer, j)
  BY <1>2 DEF InstallInv, Powered
<1>. QED BY <1>1, <1>2, <1>3, <1>4, <1>5

\* The job before its next call.
LEMMA NextIs ==
  ASSUME NEW j, NEW now, NEW p, JobOK(j, now, p), j.stage \in Changing \cup Starting,
         NEW s \in Changing \cup Starting,
         s \in Changing => j.stage \in Changing,
         s \in Starting \cup {"stopDbs"} => j.wasRunning, s # "stop"
  PROVE  LET k == Games!Begin(j, s) IN
         /\ JobOK(k, now, p) /\ k.stage = s /\ k.kind = "install" /\ k.wasRunning = j.wasRunning
         /\ k.version = j.version /\ k.pick = j.pick
<1>. DEFINE k == Games!Begin(j, s)
<1>1. JobFields(j) /\ j.stage # "idle" /\ j.kind = "install" /\ j.wasRunning \in BOOLEAN
  BY DEF JobOK, Changing, Starting
<1>2. /\ JobFields(k) /\ k.stage = s /\ k.kind = j.kind /\ k.version = j.version
      /\ k.build = j.build /\ k.pick = j.pick /\ k.wasRunning = j.wasRunning /\ k.vars = j.vars
  BY <1>1, BeginIs
<1>. HIDE DEF k
<1>3. j.stage \notin {"versions", "builds"} /\ s \notin Looking
  BY DEF Changing, Starting, Looking
<1>4. Picked(k, p) /\ Wished(k.build) /\ k.version \in Games!Addresses
  BY <1>1, <1>2, <1>3 DEF JobOK, Picked
<1>5. s \in Changing => Chosen(k, p)
  BY <1>1, <1>2 DEF JobOK, Chosen
<1>6. JobOK(k, now, p)
  BY <1>1, <1>2, <1>3, <1>4, <1>5 DEF JobOK
<1>. QED BY <1>1, <1>2, <1>6 DEF k

LEMMA RunningIs ==
  ASSUME NEW s, ServerFields(s), NEW run
  PROVE  [s EXCEPT !.running = run] =
           [running |-> run, dbs |-> s.dbs, wanted |-> s.wanted, jar |-> s.jar, vars |-> s.vars]
BY DEF ServerFields

LEMMA DbsIs ==
  ASSUME NEW s, ServerFields(s), NEW dbs
  PROVE  [s EXCEPT !.dbs = dbs] =
           [running |-> s.running, dbs |-> dbs, wanted |-> s.wanted, jar |-> s.jar,
             vars |-> s.vars]
BY DEF ServerFields

LEMMA ServerIs ==
  ASSUME NEW s, ServerFields(s), NEW t,
         t = [running |-> t.running, dbs |-> t.dbs, wanted |-> t.wanted, jar |-> t.jar,
              vars |-> t.vars],
         t.running \in BOOLEAN, t.dbs \in BOOLEAN, t.wanted = s.wanted,
         t.vars = s.vars \/ t.vars = [version |-> t.vars.version, build |-> t.vars.build]
  PROVE  ServerFields(t)
BY DEF ServerFields

\* One call of the saga, if it succeeds and if it fails.
LEMMA CallKeeps ==
  ASSUME InstallInv, NEW r \in Installers, NEW stage \in Changing \cup Starting, NEW effect,
         NEW next, NEW excuse, NEW otherwise,
         Games!Call(r, stage, effect, next, excuse, otherwise), ServerFields(effect),
         JobOK(next, installNow, installProvider),
         JobOK(otherwise, installNow, installProvider),
         next.stage # "idle" => next.kind = "install",
         otherwise.stage # "idle" => otherwise.kind = "install",
         {"overlap", "jar"} \cap installExcused = {} =>
           IF next.stage = "save"
           THEN effect.jar = [version |-> next.version, build |-> next.pick]
           ELSE NamesIt(effect, installProvider),
         {"overlap", "power"} \cap installExcused = {} =>
           IF next.stage = "idle" THEN AsWanted(effect) ELSE PowerOf(effect, next),
         otherwise.stage # "save",
         \A s \in {installServer, effect} :
           {"overlap", "jar"} \cap (installExcused \cup excuse) = {}
             => NamesIt(s, installProvider),
         \A s \in {installServer, effect} :
           {"overlap", "power"} \cap (installExcused \cup excuse) = {} =>
             IF otherwise.stage = "idle" THEN AsWanted(s) ELSE PowerOf(s, otherwise)
  PROVE  InstallInv'
<1>1. /\ UNCHANGED <<installMemory, installRow, installNow, installEdition, installProvider,
                     installUsed>>
      /\ installJob[r].stage = stage
  BY DEF Games!Call, Games!catalogVars, Games!At
<1>2. Installs(r) /\ ServerFields(installServer)
  BY <1>1, KnowsOf
<1>3. Fresh'
  BY <1>1 DEF InstallInv, Fresh, Games!ListsAreFresh
<1>4. ASSUME NEW k, Moves(r, k), JobOK(k, installNow, installProvider),
      ServerFields(installServer')
      PROVE  InstallTypes'
  <2>1. installJob'[r] = k /\ installJob' = [q \in Installers |-> installJob'[q]]
        /\ \A q \in Installers \ {r} : installJob'[q] = installJob[q]
    BY <1>4, OneMoves
  <2>2. \A q \in Installers : JobOK(installJob'[q], installNow', installProvider')
    BY <1>1, <1>4, <2>1 DEF InstallInv, InstallTypes
  <2>. QED BY <1>1, <1>4, <2>1, <2>2 DEF InstallInv, InstallTypes
<1>5. CASE installServer' = effect /\ Games!Goes(r, next) /\ Games!Works
  <2>1. Moves(r, next) /\ Excuses /\ installExcused' = installExcused
    BY <1>1, <1>5 DEF Games!Goes, Games!Works, Moves, Excuses
  <2>2. OneInstalls' /\ Named' /\ Powered'
    BY <1>2, <1>5, <2>1, AloneMoves
  <2>. QED BY <1>3, <1>4, <1>5, <2>1, <2>2 DEF InstallInv
<1>6. CASE installServer' \in {installServer, effect} /\ Games!Goes(r, otherwise)
           /\ Games!Fails(excuse)
  <2>1. Moves(r, otherwise) /\ Excuses /\ installExcused' = installExcused \cup excuse
    BY <1>1, <1>6 DEF Games!Goes, Games!Fails, Moves, Excuses
  <2>2. OneInstalls' /\ Named' /\ Powered'
    BY <1>2, <1>6, <2>1, AloneMoves
  <2>3. ServerFields(installServer')
    BY <1>2, <1>6
  <2>. QED BY <1>3, <1>4, <2>1, <2>2, <2>3 DEF InstallInv
<1>. QED BY <1>5, <1>6 DEF Games!Call

LEMMA IdleJob ==
  /\ Games!Idle.stage = "idle"
  /\ \A now, p : JobOK(Games!Idle, now, p)
BY DEF Games!Idle, JobOK

\* The calls that stop the server and its databases, and that start the databases.
LEMMA SwitchKeeps ==
  ASSUME InstallInv, NEW r \in Installers,
         Games!Stop(r) \/ Games!StopDbs(r) \/ Games!StartDbs(r) \/ Games!RecoverDbs(r)
  PROVE  InstallInv'
<1>. DEFINE j == installJob[r]
<1>0. ASSUME NEW stage \in {"stop", "stopDbs", "startDbs", "recoverDbs"}, j.stage = stage,
             NEW next \in {"stopDbs", "upload", "start", "recover"},
             stage = "stop" => next = "stopDbs", stage = "stopDbs" => next = "upload",
             stage = "startDbs" => next = "start", stage = "recoverDbs" => next = "recover",
             NEW effect, ServerFields(effect), effect.jar = installServer.jar,
             effect.vars = installServer.vars, effect.wanted = installServer.wanted,
             stage = "stop" => ~effect.running /\ (effect.dbs <=> installServer.dbs),
             stage # "stop" => (effect.running <=> installServer.running)
                               /\ (effect.dbs <=> stage # "stopDbs"),
             NEW otherwise, otherwise = Games!Idle \/ otherwise = Games!Begin(j, next),
             Games!Call(r, stage, effect, Games!Begin(j, next), {"power"}, otherwise)
      PROVE  InstallInv'
  <2>. DEFINE k == Games!Begin(j, next)
  <2>1. stage \in Changing \cup Starting /\ next \in Changing \cup Starting /\ next # "stop"
        /\ (next \in Changing => j.stage \in Changing)
    BY <1>0 DEF Changing, Starting
  <2>2. /\ Installs(r) /\ JobOK(j, installNow, installProvider)
        /\ {"overlap", "jar"} \cap installExcused = {} => NamesIt(installServer, installProvider)
        /\ {"overlap", "power"} \cap installExcused = {} => PowerOf(installServer, j)
    BY <1>0, <2>1, KnowsOf
  <2>3. j.wasRunning
    BY <1>0, <2>2 DEF JobOK, Starting
  <2>4. /\ JobOK(k, installNow, installProvider) /\ k.stage = next /\ k.kind = "install"
        /\ k.wasRunning = j.wasRunning
    BY <1>0, <2>1, <2>2, <2>3, NextIs
  <2>. HIDE DEF k
  <2>5. NamesIt(installServer, installProvider) => NamesIt(effect, installProvider)
    BY <1>0 DEF NamesIt
  <2>6. ASSUME PowerOf(installServer, j) PROVE PowerOf(effect, k)
    <3>1. installServer.wanted /\ effect.wanted
      BY <1>0, <2>3, <2>6 DEF PowerOf
    <3>2. stage = "stop" => installServer.running /\ installServer.dbs
      BY <1>0, <2>6, <3>1 DEF PowerOf, AsWanted
    <3>3. stage # "stop" => ~installServer.running
      BY <1>0, <2>6 DEF PowerOf
    <3>4. ~effect.running
      BY <1>0, <3>3
    <3>5. effect.dbs <=> next # "upload"
      BY <1>0, <3>2
    <3>. QED BY <1>0, <2>3, <2>4, <3>1, <3>4, <3>5 DEF PowerOf, Looking
  <2>7. otherwise = Games!Idle \/ otherwise = k
    BY <1>0 DEF k
  <2>8. /\ JobOK(otherwise, installNow, installProvider) /\ otherwise.stage # "save"
        /\ otherwise.stage # "idle" => otherwise.kind = "install"
    BY <1>0, <2>4, <2>7, IdleJob
  <2>9. Games!Call(r, stage, effect, k, {"power"}, otherwise)
    BY <1>0 DEF k
  <2>10. \A s \in {installServer, effect} :
           {"overlap", "jar"} \cap (installExcused \cup {"power"}) = {} =>
             NamesIt(s, installProvider)
    BY <2>2, <2>5
  <2>11. {"overlap", "power"} \cap (installExcused \cup {"power"}) # {}
    OBVIOUS
  <2>12. {"overlap", "jar"} \cap installExcused = {} => NamesIt(effect, installProvider)
    BY <2>2, <2>5
  <2>13. {"overlap", "power"} \cap installExcused = {} => PowerOf(effect, k)
    BY <2>2, <2>6
  <2>14. k.stage # "save" /\ k.stage # "idle"
    BY <1>0, <2>4
  <2>. QED BY <1>0, <2>1, <2>4, <2>8, <2>9, <2>10, <2>11, <2>12, <2>13, <2>14, CallKeeps
<1>1. ServerFields(installServer)
  BY DEF InstallInv, InstallTypes
<1>. DEFINE s == installServer
<1>2. CASE Games!Stop(r)
  <2>. DEFINE effect == [s EXCEPT !.running = FALSE]
  <2>1. j.stage = "stop" /\ Games!Call(r, "stop", effect, Games!Begin(j, "stopDbs"), {"power"},
                                       Games!Idle)
    BY <1>2 DEF Games!Stop, Games!Call, Games!At
  <2>2. effect = [running |-> FALSE, dbs |-> s.dbs, wanted |-> s.wanted,
                  jar |-> s.jar, vars |-> s.vars]
    BY <1>1, RunningIs, Zenon
  <2>. HIDE DEF effect
  <2>3. /\ effect.running = FALSE /\ effect.dbs = s.dbs /\ effect.wanted = s.wanted
        /\ effect.jar = s.jar /\ effect.vars = s.vars
    BY <2>2
  <2>4. ServerFields(effect)
    BY <1>1, <2>2, <2>3, ServerIs DEF ServerFields
  <2>. HIDE DEF j
  <2>. QED BY <1>0, <2>1, <2>3, <2>4 DEF j
<1>3. CASE Games!StopDbs(r)
  <2>. DEFINE effect == [s EXCEPT !.dbs = FALSE]
  <2>1. j.stage = "stopDbs" /\ Games!Call(r, "stopDbs", effect, Games!Begin(j, "upload"),
                                          {"power"}, Games!Idle)
    BY <1>3 DEF Games!StopDbs, Games!Call, Games!At
  <2>2. effect = [running |-> s.running, dbs |-> FALSE, wanted |-> s.wanted,
                  jar |-> s.jar, vars |-> s.vars]
    BY <1>1, DbsIs, Zenon
  <2>. HIDE DEF effect
  <2>3. /\ effect.running = s.running /\ effect.dbs = FALSE /\ effect.wanted = s.wanted
        /\ effect.jar = s.jar /\ effect.vars = s.vars
    BY <2>2
  <2>4. ServerFields(effect)
    BY <1>1, <2>2, <2>3, ServerIs DEF ServerFields
  <2>. HIDE DEF j
  <2>. QED BY <1>0, <2>1, <2>3, <2>4 DEF j
<1>4. CASE Games!StartDbs(r)
  <2>. DEFINE effect == [s EXCEPT !.dbs = TRUE]
  <2>1. j.stage = "startDbs" /\ Games!Call(r, "startDbs", effect, Games!Begin(j, "start"),
                                           {"power"}, Games!Idle)
    BY <1>4 DEF Games!StartDbs, Games!Call, Games!At
  <2>2. effect = [running |-> s.running, dbs |-> TRUE, wanted |-> s.wanted,
                  jar |-> s.jar, vars |-> s.vars]
    BY <1>1, DbsIs, Zenon
  <2>. HIDE DEF effect
  <2>3. /\ effect.running = s.running /\ effect.dbs = TRUE /\ effect.wanted = s.wanted
        /\ effect.jar = s.jar /\ effect.vars = s.vars
    BY <2>2
  <2>4. ServerFields(effect)
    BY <1>1, <2>2, <2>3, ServerIs DEF ServerFields
  <2>. HIDE DEF j
  <2>. QED BY <1>0, <2>1, <2>3, <2>4 DEF j
<1>5. CASE Games!RecoverDbs(r)
  <2>. DEFINE effect == [s EXCEPT !.dbs = TRUE]
  <2>1. j.stage = "recoverDbs" /\ Games!Call(r, "recoverDbs", effect, Games!Begin(j, "recover"),
                                             {"power"}, Games!Begin(j, "recover"))
    BY <1>5 DEF Games!RecoverDbs, Games!Call, Games!At
  <2>2. effect = [running |-> s.running, dbs |-> TRUE, wanted |-> s.wanted,
                  jar |-> s.jar, vars |-> s.vars]
    BY <1>1, DbsIs, Zenon
  <2>. HIDE DEF effect
  <2>3. /\ effect.running = s.running /\ effect.dbs = TRUE /\ effect.wanted = s.wanted
        /\ effect.jar = s.jar /\ effect.vars = s.vars
    BY <2>2
  <2>4. ServerFields(effect)
    BY <1>1, <2>2, <2>3, ServerIs DEF ServerFields
  <2>. HIDE DEF j
  <2>. QED BY <1>0, <2>1, <2>3, <2>4 DEF j
<1>. QED BY <1>2, <1>3, <1>4, <1>5

\* The calls that start the server, with which the installation ends.
LEMMA LaunchKeeps ==
  ASSUME InstallInv, NEW r \in Installers, Games!Start(r) \/ Games!Recover(r)
  PROVE  InstallInv'
<1>. DEFINE j == installJob[r]
            s == installServer
            effect == [s EXCEPT !.running = TRUE]
<1>1. PICK stage \in {"start", "recover"} :
        j.stage = stage /\ Games!Call(r, stage, effect, Games!Idle, {"power"}, Games!Idle)
  BY DEF Games!Start, Games!Recover, Games!Call, Games!At
<1>2. /\ Installs(r) /\ JobOK(j, installNow, installProvider) /\ ServerFields(s)
      /\ {"overlap", "jar"} \cap installExcused = {} => NamesIt(s, installProvider)
      /\ {"overlap", "power"} \cap installExcused = {} => PowerOf(s, j)
  BY <1>1, KnowsOf DEF Starting
<1>3. /\ ServerFields(effect) /\ effect.running = TRUE /\ effect.dbs = s.dbs
      /\ effect.wanted = s.wanted /\ effect.jar = s.jar /\ effect.vars = s.vars
  <2>1. effect = [running |-> TRUE, dbs |-> s.dbs, wanted |-> s.wanted, jar |-> s.jar,
                  vars |-> s.vars]
    BY <1>2, RunningIs, Zenon
  <2>. HIDE DEF effect
  <2>2. /\ effect.running = TRUE /\ effect.dbs = s.dbs /\ effect.wanted = s.wanted
        /\ effect.jar = s.jar /\ effect.vars = s.vars
    BY <2>1
  <2>. QED BY <1>2, <2>1, <2>2, ServerIs DEF ServerFields
<1>4. j.wasRunning
  BY <1>1, <1>2 DEF JobOK, Starting
<1>. HIDE DEF effect
<1>5. PowerOf(s, j) => AsWanted(effect)
  BY <1>1, <1>3, <1>4 DEF PowerOf, AsWanted
<1>6. NamesIt(s, installProvider) => NamesIt(effect, installProvider)
  BY <1>3 DEF NamesIt
<1>7. \A t \in {s, effect} :
        {"overlap", "jar"} \cap (installExcused \cup {"power"}) = {}
          => NamesIt(t, installProvider)
  BY <1>2, <1>6
<1>8. {"overlap", "power"} \cap (installExcused \cup {"power"}) # {}
  OBVIOUS
<1>9. Games!Idle.stage = "idle" /\ JobOK(Games!Idle, installNow, installProvider)
      /\ stage \in Changing \cup Starting
  BY IdleJob DEF Starting
<1>. QED BY <1>1, <1>2, <1>3, <1>5, <1>6, <1>7, <1>8, <1>9, CallKeeps

\* After an error behind the stop the server is started again, if it ran.
LEMMA RecoveryIs ==
  ASSUME NEW j, NEW now, NEW p, JobOK(j, now, p), j.stage \in {"upload", "save"}
  PROVE  LET k == Games!Recovery(j) IN
         /\ JobOK(k, now, p) /\ k.stage \in {"idle", "recoverDbs"}
         /\ k.stage # "idle" => k.kind = "install"
         /\ \A s : ServerFields(s) /\ PowerOf(s, j) =>
              IF k.stage = "idle" THEN AsWanted(s) ELSE PowerOf(s, k)
<1>. DEFINE k == Games!Recovery(j)
<1>0. j.wasRunning \in BOOLEAN
  BY DEF JobOK
<1>1. CASE j.wasRunning
  <2>1. k = Games!Begin(j, "recoverDbs")
    BY <1>1 DEF Games!Recovery
  <2>2. JobOK(k, now, p) /\ k.stage = "recoverDbs" /\ k.kind = "install"
        /\ k.wasRunning = j.wasRunning
    <3>1. /\ "recoverDbs" \in Starting /\ "recoverDbs" \notin Changing
          /\ "recoverDbs" \in Changing \cup Starting /\ "recoverDbs" # "stop"
          /\ j.stage \in Changing \cup Starting
      BY DEF Changing, Starting
    <3>. HIDE DEF k
    <3>2. LET q == Games!Begin(j, "recoverDbs") IN
          JobOK(q, now, p) /\ q.stage = "recoverDbs" /\ q.kind = "install"
            /\ q.wasRunning = j.wasRunning
      BY <1>1, <3>1, NextIs
    <3>. QED BY <2>1, <3>2
  <2>. HIDE DEF k
  <2>3. \A s : ServerFields(s) /\ PowerOf(s, j) => PowerOf(s, k)
    BY <1>1, <2>2 DEF PowerOf, Looking
  <2>. QED BY <2>2, <2>3 DEF k
<1>2. CASE ~j.wasRunning
  <2>1. k = Games!Idle
    BY <1>2 DEF Games!Recovery
  <2>2. \A s : ServerFields(s) /\ PowerOf(s, j) => AsWanted(s)
    BY <1>2 DEF PowerOf, AsWanted
  <2>. QED BY <2>1, <2>2, IdleJob
<1>. QED BY <1>0, <1>1, <1>2

LEMMA UploadKeeps ==
  ASSUME InstallInv, NEW r \in Installers, Games!Upload(r)
  PROVE  InstallInv'
<1>. DEFINE j == installJob[r]
            s == installServer
            jar == [version |-> j.version, build |-> j.pick]
            effect == [s EXCEPT !.jar = jar]
            k == Games!Begin(j, "save")
            o == Games!Recovery(j)
<1>1. j.stage = "upload" /\ Games!Call(r, "upload", effect, k, {"jar"}, o)
  BY DEF Games!Upload, Games!Call, Games!At
<1>2. /\ JobOK(j, installNow, installProvider) /\ ServerFields(s)
      /\ {"overlap", "power"} \cap installExcused = {} => PowerOf(s, j)
  BY <1>1, KnowsOf DEF Changing
<1>3. /\ ServerFields(effect) /\ effect.jar = jar /\ effect.running = s.running
      /\ effect.dbs = s.dbs /\ effect.wanted = s.wanted
  <2>1. effect = [running |-> s.running, dbs |-> s.dbs, wanted |-> s.wanted, jar |-> jar,
                  vars |-> s.vars]
    BY <1>2 DEF ServerFields
  <2>. HIDE DEF effect, jar
  <2>2. /\ effect.running = s.running /\ effect.dbs = s.dbs /\ effect.wanted = s.wanted
        /\ effect.jar = jar /\ effect.vars = s.vars
    BY <2>1
  <2>. QED BY <1>2, <2>1, <2>2, ServerIs DEF ServerFields
<1>4. /\ JobOK(k, installNow, installProvider) /\ k.stage = "save" /\ k.kind = "install"
      /\ k.wasRunning = j.wasRunning /\ k.version = j.version /\ k.pick = j.pick
  BY <1>1, <1>2, NextIs DEF Changing, Starting
<1>5. /\ JobOK(o, installNow, installProvider) /\ o.stage \in {"idle", "recoverDbs"}
      /\ o.stage # "idle" => o.kind = "install"
      /\ \A t : ServerFields(t) /\ PowerOf(t, j) =>
           IF o.stage = "idle" THEN AsWanted(t) ELSE PowerOf(t, o)
  BY <1>1, <1>2, RecoveryIs
<1>6. effect.jar = [version |-> k.version, build |-> k.pick]
  BY <1>3, <1>4
<1>. HIDE DEF effect, k, o, jar
<1>7. PowerOf(s, j) => PowerOf(effect, j) /\ PowerOf(effect, k)
  BY <1>1, <1>3, <1>4 DEF PowerOf, AsWanted, Looking
<1>8. {"overlap", "jar"} \cap (installExcused \cup {"jar"}) # {}
  OBVIOUS
<1>9. \A t \in {s, effect} : {"overlap", "power"} \cap (installExcused \cup {"jar"}) = {} =>
        IF o.stage = "idle" THEN AsWanted(t) ELSE PowerOf(t, o)
  BY <1>2, <1>3, <1>5, <1>7
<1>10. "upload" \in Changing \cup Starting /\ o.stage # "save"
  BY <1>5 DEF Changing
<1>. QED BY <1>1, <1>2, <1>3, <1>4, <1>5, <1>6, <1>7, <1>8, <1>9, <1>10, CallKeeps

LEMMA SaveKeeps ==
  ASSUME InstallInv, NEW r \in Installers, Games!Save(r)
  PROVE  InstallInv'
<1>. DEFINE j == installJob[r]
            s == installServer
            effect == [s EXCEPT !.vars = j.vars]
            k == IF j.wasRunning THEN Games!Begin(j, "startDbs") ELSE Games!Idle
            o == Games!Recovery(j)
<1>1. j.stage = "save" /\ Games!Call(r, "save", effect, k, {"jar"}, o)
  BY DEF Games!Save, Games!Call, Games!At
<1>2. /\ JobOK(j, installNow, installProvider) /\ ServerFields(s) /\ j.wasRunning \in BOOLEAN
      /\ JobFields(j)
      /\ {"overlap", "jar"} \cap installExcused = {} =>
           s.jar = [version |-> j.version, build |-> j.pick]
      /\ {"overlap", "power"} \cap installExcused = {} => PowerOf(s, j)
  BY <1>1, KnowsOf DEF Changing
<1>3. /\ ServerFields(effect) /\ effect.vars = j.vars /\ effect.running = s.running
      /\ effect.dbs = s.dbs /\ effect.wanted = s.wanted /\ effect.jar = s.jar
  <2>1. effect = [running |-> s.running, dbs |-> s.dbs, wanted |-> s.wanted, jar |-> s.jar,
                  vars |-> j.vars]
    BY <1>2 DEF ServerFields
  <2>2. j.vars = [version |-> j.vars.version, build |-> j.vars.build]
    BY <1>2 DEF JobFields
  <2>. HIDE DEF effect, j
  <2>3. /\ effect.running = s.running /\ effect.dbs = s.dbs /\ effect.wanted = s.wanted
        /\ effect.jar = s.jar /\ effect.vars = j.vars
    BY <2>1
  <2>. QED BY <1>2, <2>1, <2>2, <2>3, ServerIs DEF ServerFields
<1>4. /\ JobOK(k, installNow, installProvider) /\ k.stage \in {"idle", "startDbs"}
      /\ k.stage # "idle" => k.kind = "install" /\ j.wasRunning /\ k.wasRunning = j.wasRunning
      /\ k.stage = "idle" => ~j.wasRunning
  BY <1>1, <1>2, NextIs, IdleJob DEF Changing, Starting
<1>5. /\ JobOK(o, installNow, installProvider) /\ o.stage \in {"idle", "recoverDbs"}
      /\ o.stage # "idle" => o.kind = "install"
      /\ \A t : ServerFields(t) /\ PowerOf(t, j) =>
           IF o.stage = "idle" THEN AsWanted(t) ELSE PowerOf(t, o)
  BY <1>1, <1>2, RecoveryIs
<1>6. Chosen(j, installProvider) /\ Picked(j, installProvider) /\ Wished(j.build)
  BY <1>1, <1>2, KnowsOf DEF JobOK, Changing
<1>. HIDE DEF effect, k, o
<1>7. ASSUME s.jar = [version |-> j.version, build |-> j.pick]
      PROVE  NamesIt(effect, installProvider)
  <2>1. effect.jar.version = j.version /\ effect.jar.build = j.pick
    BY <1>3, <1>7
  <2>. QED BY <1>3, <1>6, <2>1 DEF NamesIt, Chosen, Picked, Wished
<1>8. PowerOf(s, j) => PowerOf(effect, j)
                       /\ IF k.stage = "idle" THEN AsWanted(effect) ELSE PowerOf(effect, k)
  BY <1>1, <1>3, <1>4 DEF PowerOf, AsWanted, Looking
<1>9. {"overlap", "jar"} \cap (installExcused \cup {"jar"}) # {}
  OBVIOUS
<1>10. \A t \in {s, effect} : {"overlap", "power"} \cap (installExcused \cup {"jar"}) = {} =>
         IF o.stage = "idle" THEN AsWanted(t) ELSE PowerOf(t, o)
  BY <1>2, <1>3, <1>5, <1>8
<1>11. "save" \in Changing \cup Starting /\ o.stage # "save" /\ k.stage # "save"
  BY <1>4, <1>5 DEF Changing
<1>12. \A t \in {s, effect} : {"overlap", "jar"} \cap (installExcused \cup {"jar"}) = {} =>
         NamesIt(t, installProvider)
  BY <1>9
<1>13. {"overlap", "jar"} \cap installExcused = {} =>
         IF k.stage = "save" THEN effect.jar = [version |-> k.version, build |-> k.pick]
         ELSE NamesIt(effect, installProvider)
  BY <1>2, <1>7, <1>11
<1>14. {"overlap", "power"} \cap installExcused = {} =>
         IF k.stage = "idle" THEN AsWanted(effect) ELSE PowerOf(effect, k)
  BY <1>2, <1>8
<1>15. (k.stage # "idle" => k.kind = "install") /\ ServerFields(effect)
       /\ JobOK(k, installNow, installProvider)
  BY <1>3, <1>4
<1>16. (o.stage # "idle" => o.kind = "install") /\ JobOK(o, installNow, installProvider)
  BY <1>5
<1>17. Games!Call(r, "save", effect, k, {"jar"}, o)
  BY <1>1
<1>. HIDE DEF j, s
<1>18. s = installServer
  BY DEF s
<1>. QED
  BY <1>10, <1>11, <1>12, <1>13, <1>14, <1>15, <1>16, <1>17, <1>18, CallKeeps

-----------------------------------------------------------------------------
(* Requests, and everybody else. *)

LEMMA AskKeeps ==
  ASSUME InstallInv, NEW r \in Installers, NEW wish \in Wishes, Games!Ask(r, wish)
  PROVE  InstallInv'
<1>. DEFINE s == installServer
            k == [kind |-> wish.kind, version |-> wish.version, build |-> wish.build,
                  pick |-> None, stage |-> "versions", pc |-> "look", got |-> None,
                  wasRunning |-> s.running, vars |-> s.vars]
<1>1. /\ installJob[r].stage = "idle" /\ Moves(r, k) /\ Excuses
      /\ UNCHANGED <<installMemory, installRow, installNow, installEdition, installUsed,
                     installServer>>
  BY DEF Games!Ask, Games!Busy, Games!Goes, Games!catalogVars, Moves, Excuses
<1>2. ServerFields(s) /\ installServer' = s
  BY <1>1 DEF InstallInv, InstallTypes
<1>3. wish.kind \in {"browse", "install"}
  BY VersionsFit DEF Games!VersionInstallAssumption
<1>. HIDE DEF s
<1>4. /\ k.kind = wish.kind /\ k.stage = "versions" /\ k.wasRunning = s.running
      /\ k.pc = "look" /\ k.vars = s.vars /\ k.build = wish.build
  OBVIOUS
<1>5. s.vars = [version |-> s.vars.version, build |-> s.vars.build] =>
        JobOK(k, installNow, installProvider)
  <2>1. wish.kind = "install" => Wished(wish.build)
    BY DEF Wished
  <2>2. s.running \in BOOLEAN
    BY <1>2 DEF ServerFields
  <2>. QED BY <1>3, <2>1, <2>2 DEF JobOK, JobFields, Looking, Changing, Starting
<1>. HIDE DEF k
<1>6. /\ installJob'[r] = k /\ installJob' = [q \in Installers |-> installJob'[q]]
      /\ \A q \in Installers \ {r} : installJob'[q] = installJob[q]
  BY <1>1, OneMoves
<1>7. InstallTypes'
  <2>1. s.vars = [version |-> s.vars.version, build |-> s.vars.build]
    BY <1>2 DEF ServerFields
  <2>2. \A q \in Installers : JobOK(installJob'[q], installNow', installProvider')
    BY <1>1, <1>5, <1>6, <2>1 DEF InstallInv, InstallTypes, Excuses
  <2>. QED BY <1>1, <1>2, <1>6, <2>2 DEF InstallInv, InstallTypes
<1>8. Fresh'
  BY <1>1 DEF InstallInv, Fresh, Games!ListsAreFresh
<1>9. CASE wish.kind = "browse"
  <2>1. ~Installs(r) /\ k.kind # "install"
    BY <1>1, <1>4, <1>9 DEF Installs
  <2>. QED BY <1>1, <1>7, <1>8, <2>1, BrowserMoves DEF InstallInv
<1>10. CASE wish.kind = "install"
  <2>1. Installs(r)' /\ ~Uploaded(r)'
    BY <1>4, <1>6, <1>10 DEF Installs, Uploaded
  <2>2. ASSUME "overlap" \notin installExcused', NEW q \in Installers \ {r} PROVE ~Installs(q)
    BY <1>10, <2>2 DEF Games!Ask, Games!Busy, Installs
  <2>3. \A q \in Installers \ {r} : (Installs(q)' <=> Installs(q))
                                    /\ (Uploaded(q)' <=> Uploaded(q))
    BY <1>6 DEF Installs, Uploaded
  <2>4. ~Installs(r) /\ ~Uploaded(r)
    BY <1>1 DEF Installs, Uploaded
  <2>5. OneInstalls'
    BY <2>2, <2>3 DEF OneInstalls
  <2>6. Named'
    <3>. SUFFICES ASSUME {"overlap", "jar"} \cap installExcused' = {}
         PROVE  (\A q \in Installers : ~Uploaded(q)') /\ NamesIt(installServer', installProvider')
      BY DEF Named
    <3>1. \A q \in Installers : ~Uploaded(q)
      BY <2>2, <2>4 DEF Uploaded
    <3>2. NamesIt(installServer, installProvider)
      BY <1>1, <3>1 DEF InstallInv, Named, Excuses
    <3>. QED BY <1>1, <2>1, <2>3, <3>1, <3>2 DEF Excuses
  <2>7. Powered'
    <3>. SUFFICES ASSUME {"overlap", "power"} \cap installExcused' = {}
         PROVE  \A q \in Installers : Installs(q)' => PowerOf(installServer', installJob'[q])
      BY <2>1 DEF Powered
    <3>1. \A q \in Installers : ~Installs(q)
      BY <2>2, <2>4
    <3>2. AsWanted(s)
      BY <1>1, <3>1 DEF InstallInv, Powered, Excuses, s
    <3>3. PowerOf(s, k)
      BY <1>4, <3>2 DEF PowerOf, AsWanted, Looking
    <3>. QED BY <1>2, <1>6, <2>3, <3>1, <3>3
  <2>. QED BY <1>7, <1>8, <2>5, <2>6, <2>7 DEF InstallInv
<1>. QED BY <1>3, <1>9, <1>10

\* Time passes, and upstream publishes.
LEMMA WorldKeeps ==
  ASSUME InstallInv, UNCHANGED <<installMemory, installRow, installJob, installServer,
                                 installUsed, installExcused, installProvider>>,
         installNow' \in Nat, installNow <= installNow',
         installEdition' \in DOMAIN Editions \cup {0}
  PROVE  InstallInv'
<1>1. installNow \in Nat
  BY DEF InstallInv, InstallTypes
<1>2. \A r \in Installers : JobOK(installJob[r], installNow', installProvider)
  BY <1>1, JobsLater DEF InstallInv, InstallTypes
<1>3. /\ \A r \in Installers, a \in Games!Addresses : installMemory[r][a] # None =>
           Came(installMemory[r][a], installNow')
      /\ \A a \in Games!Addresses : installRow[a] # None => Came(installRow[a], installNow')
  BY <1>1, DocumentsLater DEF InstallInv, InstallTypes
<1>4. InstallTypes'
  BY <1>2, <1>3 DEF InstallInv, InstallTypes
<1>5. OneInstalls' /\ Named' /\ Powered' /\ Fresh'
  BY DEF InstallInv, OneInstalls, Named, Powered, Fresh, Games!ListsAreFresh, Installs, Uploaded
<1>. QED BY <1>4, <1>5 DEF InstallInv

\* Somebody starts or stops the server.
LEMMA PowerKeeps ==
  ASSUME InstallInv, NEW on \in BOOLEAN, Games!Power(on)
  PROVE  InstallInv'
<1>. DEFINE s == installServer
            t == [s EXCEPT !.running = on, !.dbs = on, !.wanted = on]
<1>1. /\ installServer' = t /\ Excuses
      /\ UNCHANGED <<installMemory, installRow, installNow, installEdition, installUsed,
                     installJob, installProvider>>
  BY DEF Games!Power, Games!catalogVars, Excuses
<1>2. t = [running |-> on, dbs |-> on, wanted |-> on, jar |-> s.jar, vars |-> s.vars]
  <2>. DEFINE t1 == [s EXCEPT !.running = on]
              t2 == [t1 EXCEPT !.dbs = on]
  <2>1. t = [t2 EXCEPT !.wanted = on]
    OBVIOUS
  <2>2. t1 = [running |-> on, dbs |-> s.dbs, wanted |-> s.wanted, jar |-> s.jar, vars |-> s.vars]
    BY DEF InstallInv, InstallTypes, ServerFields
  <2>. HIDE DEF t1
  <2>3. t2 = [running |-> on, dbs |-> on, wanted |-> s.wanted, jar |-> s.jar, vars |-> s.vars]
    BY <2>2
  <2>. HIDE DEF t2
  <2>4. [t2 EXCEPT !.wanted = on] =
          [running |-> on, dbs |-> on, wanted |-> on, jar |-> s.jar, vars |-> s.vars]
    BY <2>3
  <2>. QED BY <2>1, <2>4
<1>3. t.running = on /\ t.dbs = on /\ t.wanted = on /\ t.jar = s.jar /\ t.vars = s.vars
  BY <1>2
<1>4. ServerFields(t)
  BY <1>2, <1>3 DEF InstallInv, InstallTypes, ServerFields
<1>. HIDE DEF t
<1>5. InstallTypes'
  BY <1>1, <1>4 DEF InstallInv, InstallTypes
<1>6. OneInstalls' /\ Fresh'
  BY <1>1 DEF InstallInv, OneInstalls, Installs, Excuses, Fresh, Games!ListsAreFresh
<1>7. Named'
  BY <1>1, <1>3 DEF InstallInv, Named, Uploaded, Installs, Excuses, NamesIt
<1>8. Powered'
  <2>1. "power" \notin installExcused' => \A r \in Installers : ~Installs(r)
    BY DEF Games!Power, Games!Busy, Installs
  <2>2. AsWanted(t)
    BY <1>3 DEF AsWanted
  <2>. QED BY <1>1, <2>1, <2>2 DEF Powered, Installs
<1>. QED BY <1>5, <1>6, <1>7, <1>8 DEF InstallInv

LEMMA InstallsKept ==
  ASSUME InstallInv, [Games!Next]_(Games!vars)
  PROVE  InstallInv'
<1>0. installNow \in Nat /\ installEdition \in DOMAIN Editions \cup {0}
  BY DEF InstallInv, InstallTypes
<1>1. CASE Games!Tick
  BY <1>0, <1>1, WorldKeeps DEF Games!Tick
<1>2. ASSUME NEW e \in DOMAIN Editions \cup {0}, Games!Publish(e) PROVE InstallInv'
  BY <1>0, <1>2, WorldKeeps DEF Games!Publish
<1>3. ASSUME NEW on \in BOOLEAN, Games!Power(on) PROVE InstallInv'
  BY <1>3, PowerKeeps
<1>4. ASSUME NEW r \in Installers,
             \/ \E wish \in Wishes : Games!Ask(r, wish)
             \/ Games!Lookup(r) \/ Games!ReadRow(r) \/ Games!Fetch(r) \/ Games!SaveRow(r)
      PROVE  InstallInv'
  BY <1>4, AskKeeps, LookupKeeps, ReadRowKeeps, FetchKeeps, SaveRowKeeps
<1>5. ASSUME NEW r \in Installers,
             \/ Games!Stop(r) \/ Games!StopDbs(r) \/ Games!Upload(r) \/ Games!Save(r)
             \/ Games!StartDbs(r) \/ Games!Start(r) \/ Games!RecoverDbs(r) \/ Games!Recover(r)
      PROVE  InstallInv'
  BY <1>5, SwitchKeeps, LaunchKeeps, UploadKeeps, SaveKeeps
<1>6. CASE UNCHANGED (Games!vars)
  BY <1>0, <1>6, WorldKeeps DEF Games!vars
<1>. QED BY <1>1, <1>2, <1>3, <1>4, <1>5, <1>6 DEF Games!Next

LEMMA InstallsHold == InstallInv => Games!InstallsSound
<1>. SUFFICES ASSUME InstallInv PROVE Games!InstallsSound
  OBVIOUS
<1>1. Games!AtRest => \A r \in Installers : ~Installs(r) /\ ~Uploaded(r)
  BY DEF Games!AtRest, Games!Busy, Installs, Uploaded
<1>2. Games!NamesTheJar
  <2>1. ASSUME Games!AtRest, installExcused \cap {"overlap", "jar"} = {}
        PROVE  NamesIt(installServer, installProvider)
    BY <1>1, <2>1 DEF InstallInv, Named
  <2>. QED BY <2>1 DEF NamesIt, Games!NamesTheJar, Games!HasBuilds
<1>3. Games!PowerIsKept
  <2>1. ASSUME Games!AtRest, installExcused \cap {"overlap", "power"} = {}
        PROVE  AsWanted(installServer)
    BY <1>1, <2>1 DEF InstallInv, Powered
  <2>2. ServerFields(installServer)
    BY DEF InstallInv, InstallTypes
  <2>3. AsWanted(installServer) => installServer.running = installServer.wanted
                                   /\ installServer.dbs = installServer.wanted
    BY <2>2 DEF AsWanted, ServerFields
  <2>. QED BY <2>1, <2>3 DEF Games!PowerIsKept
<1>. QED BY <1>2, <1>3 DEF InstallInv, Fresh, Games!InstallsSound

\* For any upstream, providers, requests and failures, and any number of
\* replicas: a list that is used is younger than its lifetime; the variables name
\* the JAR that is there, unless installations overlapped or one broke off between
\* the JAR and the variables; and the server and its databases are left as they
\* are wanted, unless a call for that failed or somebody made one meanwhile.
THEOREM InstallsSoundAlways == PanelSpec => []InstallsSound
<1>. DEFINE I == part = "versions" => InstallInv
<1>1. PanelInit => I
  BY InstallInit DEF PanelInit
<1>2. I /\ [PanelNext]_panelVars => I'
  BY InstallsKept, PartMoves
<1>3. I => InstallsSound
  BY InstallsHold DEF InstallsSound
<1>. QED BY <1>1, <1>2, <1>3, PTL DEF PanelSpec
=============================================================================
