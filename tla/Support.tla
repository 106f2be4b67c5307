------------------------------- MODULE Support -------------------------------
(***************************************************************************)
(* Support tickets and the notifications about them.  TicketsService and   *)
(* NotificationsService keep their records in memory and every operation   *)
(* runs to its end at once, so what matters is which operations follow     *)
(* each other: staff and requesters answer, close and reopen, roles change *)
(* and the oldest notifications of a user are dropped.  Mails, which carry *)
(* the same news, are left out.                                            *)
(***************************************************************************)
EXTENDS Naturals, Sequences, FiniteSets

CONSTANTS
  People,      \* ids of users
  Tickets,     \* ids of tickets
  Cap,         \* notifications kept per user (200 in the code)
  Settable,    \* statuses that update() is asked to set
  None,        \* undefined
  MaxOps       \* bound on the operations, which is the clock

Statuses == {"open", "waiting_on_staff", "waiting_on_user", "resolved", "closed"}
SupportAssumption == Settable \subseteq Statuses /\ Cap \in Nat \ {0} /\ MaxOps \in Nat

VARIABLES
  role,        \* UsersService: the role of each account, None when removed
  ticket,      \* TicketsService.tickets
  list,        \* NotificationsService.notifications, by recipient, oldest first
  notifying,   \* PanelSettings.support.notificationsEnabled
  clock,
  seen         \* history: what the requester of each ticket last saw of it, whether
               \* its last change was to be told, and when that change was

vars == <<role, ticket, list, notifying, clock, seen>>

Known == {t \in Tickets : ticket[t] # None}
Staff == {u \in People : role[u] = "staff"}
Present == {u \in People : role[u] # None}
\* assertCanView().
MayView(t, u) == t \in Known /\ u \in Present /\ (u \in Staff \/ ticket[t].owner = u)

Tick == clock < MaxOps /\ clock' = clock + 1

\* Seeded fault: the oldest are kept.
Prune_Oldest(s) == IF Len(s) > Cap THEN SubSeq(s, 1, Cap) ELSE s

\* NotificationsService.create(): prune() keeps the newest of every user.
Prune(s) == IF Len(s) > Cap THEN SubSeq(s, Len(s) - Cap + 1, Len(s)) ELSE s

Notice(t, status) == [ticket |-> t, status |-> status, at |-> clock, read |-> FALSE]
\* createForUsers(), when notifications are enabled.
Notify(users, t, status) ==
  list' = IF notifying THEN [u \in People |-> IF u \in users THEN Prune(Append(list[u], Notice(t, status)))
                                                          ELSE list[u]]
                       ELSE list
NotifyStaff(t, actor, status) == Notify(Staff \ {actor}, t, status)
\* Seeded fault: only other staff is told of what staff does.
NotifyRequester_Staff(t, actor, status) == Notify(Staff \ {actor}, t, status)
NotifyRequester(t, actor, status) == Notify({ticket[t].owner} \ {actor}, t, status)

\* What an operation means for the requester, who sees the answer to an
\* operation of its own.
Changed(t, actor, status) ==
  seen' = [seen EXCEPT ![t] =
    [status |-> IF actor = ticket'[t].owner THEN status ELSE @.status, told |-> notifying, at |-> clock]]

-----------------------------------------------------------------------------
(* Tickets. *)

Create(u, t) ==
  /\ Tick /\ u \in Present /\ t \notin Known
  /\ ticket' = [ticket EXCEPT ![t] =
       [owner |-> u, status |-> "waiting_on_staff", closed |-> FALSE, assignee |-> None]]
  /\ NotifyStaff(t, u, "waiting_on_staff")
  /\ Changed(t, u, "waiting_on_staff")
  /\ UNCHANGED <<role, notifying>>

\* A public answer.  Who is staff is answered as staff, in its own tickets too.
Reply(u, t) ==
  LET status == IF u \in Staff THEN "waiting_on_user" ELSE "waiting_on_staff" IN
  /\ Tick /\ MayView(t, u) /\ ticket[t].status # "closed"
  /\ ticket' = [ticket EXCEPT ![t] = [@ EXCEPT !.status = status, !.closed = FALSE]]
  /\ IF u \in Staff THEN NotifyRequester(t, u, status) ELSE NotifyStaff(t, u, status)
  /\ Changed(t, u, status)
  /\ UNCHANGED <<role, notifying>>

\* An internal note changes no status and tells nobody.
Note(u, t) ==
  /\ Tick /\ MayView(t, u) /\ u \in Staff /\ ticket[t].status # "closed"
  /\ ticket' = [ticket EXCEPT ![t].closed = FALSE]
  /\ UNCHANGED <<role, list, notifying, seen>>

\* The status that update() is asked for, if any.
Asked(t, change) == IF change = None THEN ticket[t].status ELSE change

\* update(): the status, which the requester is told of when it changes, and
\* the assignee, who is told unless it is the actor or had the ticket.
Update(u, t, change, assignee) ==
  LET before == ticket[t]
      status == Asked(t, change)
  IN
  /\ Tick /\ u \in Staff /\ t \in Known
  /\ assignee \in Staff \cup {None, before.assignee}
  /\ ticket' = [ticket EXCEPT ![t] = [@ EXCEPT !.status = status, !.closed = status = "closed", !.assignee = assignee]]
  /\ LET news == IF status # before.status /\ notifying THEN {before.owner} \ {u} ELSE {}
         work == {assignee} \ {None, before.assignee, u}
     IN list' = [v \in People |->
          LET first == IF v \in news THEN Prune(Append(list[v], Notice(t, status))) ELSE list[v]
          IN IF v \in work THEN Prune(Append(first, Notice(t, status))) ELSE first]
  /\ IF status # before.status \/ u = before.owner THEN Changed(t, u, status) ELSE UNCHANGED seen
  /\ UNCHANGED <<role, notifying>>

\* ... refused for an assignee who is no staff, when the status has been
\* written: nobody is told, and closedAt stays as it was.
UpdateRefused(u, t, change) ==
  LET status == Asked(t, change) IN
  /\ Tick /\ u \in Staff /\ t \in Known
  /\ ticket' = [ticket EXCEPT ![t].status = status]
  /\ seen' = IF status = ticket[t].status THEN seen
             ELSE [seen EXCEPT ![t] = [@ EXCEPT !.told = FALSE, !.at = clock]]
  /\ UNCHANGED <<role, list, notifying>>

Close(u, t) ==
  /\ Tick /\ MayView(t, u)
  /\ ticket' = [ticket EXCEPT ![t] = [@ EXCEPT !.status = "closed", !.closed = TRUE]]
  /\ NotifyRequester(t, u, "closed")
  /\ Changed(t, u, "closed")
  /\ UNCHANGED <<role, notifying>>

Reopen(u, t) ==
  /\ Tick /\ MayView(t, u) /\ ticket[t].status \in {"closed", "resolved"}
  /\ ticket' = [ticket EXCEPT ![t] = [@ EXCEPT !.status = "waiting_on_staff", !.closed = FALSE]]
  /\ IF u \in Staff THEN NotifyRequester(t, u, "waiting_on_staff") ELSE NotifyStaff(t, u, "waiting_on_staff")
  /\ Changed(t, u, "waiting_on_staff")
  /\ UNCHANGED <<role, notifying>>

-----------------------------------------------------------------------------
(* Notifications and accounts. *)

\* The requester of a ticket reads notifications: it knows from then on what
\* the latest of those it read says.
Saw(u, read) ==
  seen' = [t \in Tickets |->
    LET said == {i \in DOMAIN list[u] : list[u][i].ticket = t}
        last == CHOOSE i \in said : \A j \in said : j <= i
    IN IF t \in Known /\ ticket[t].owner = u /\ said # {} /\ last \in read
            /\ list[u][last].at >= seen[t].at
       THEN [seen[t] EXCEPT !.status = list[u][last].status] ELSE seen[t]]

\* markRead() and markAllRead().
MarkRead(u, read) ==
  /\ u \in Present /\ read # {} /\ \A i \in read : ~list[u][i].read
  /\ list' = [list EXCEPT ![u] = [i \in DOMAIN @ |-> IF i \in read THEN [@[i] EXCEPT !.read = TRUE] ELSE @[i]]]
  /\ Saw(u, read)
  /\ UNCHANGED <<role, ticket, notifying, clock>>
MarkOne(u) == \E i \in DOMAIN list[u] : MarkRead(u, {i})
MarkAllRead(u) == MarkRead(u, {i \in DOMAIN list[u] : ~list[u][i].read})

\* Tickets, assignments and notifications outlive a role and an account.
ChangeRole(u, r) ==
  /\ Tick /\ u \in Present /\ role[u] # r
  /\ role' = [role EXCEPT ![u] = r]
  /\ UNCHANGED <<ticket, list, notifying, seen>>

SetNotifying(n) ==
  /\ Tick /\ notifying # n
  /\ notifying' = n
  /\ UNCHANGED <<role, ticket, list, seen>>

Init ==
  /\ role \in {r \in [People -> {"user", "staff"}] : \E u \in People : r[u] = "staff"}
  /\ ticket = [t \in Tickets |-> None]
  /\ list = [u \in People |-> <<>>]
  /\ notifying = TRUE
  /\ clock = 0
  /\ seen = [t \in Tickets |-> [status |-> None, told |-> TRUE, at |-> 0]]

Next ==
  \/ \E u \in People, t \in Tickets :
       \/ Create(u, t) \/ Reply(u, t) \/ Note(u, t) \/ Close(u, t) \/ Reopen(u, t)
       \/ \E c \in Settable \cup {None} :
            UpdateRefused(u, t, c) \/ \E a \in People \cup {None} : Update(u, t, c, a)
  \/ \E u \in People : MarkOne(u) \/ MarkAllRead(u) \/ \E r \in {"user", "staff", None} : ChangeRole(u, r)
  \/ \E n \in BOOLEAN : SetNotifying(n)

Spec == Init /\ [][Next]_vars

-----------------------------------------------------------------------------
(* Properties. *)

\* closedAt is there exactly while the ticket is closed, unless its last change
\* was not told, and nobody has more notifications than are kept.
TypeOK ==
  /\ \A t \in Known :
       ticket[t].status \in Statuses /\ (seen[t].told => ticket[t].closed = (ticket[t].status = "closed"))
  /\ \A u \in People : Len(list[u]) <= Cap
  /\ clock \in 0..MaxOps

\* Whoever asked for support can tell how a ticket stands: it did the last
\* thing itself or read of it, an unread notification says so, or as many as
\* are kept came after it.  Excused is a ticket whose last change was not to be
\* told: notifications were off, or update() wrote the status and then refused
\* the assignee (update, notifyRequester, prune).
StatusReachesRequester ==
  \A t \in Known : seen[t].told =>
    LET mine == list[ticket[t].owner] IN
    \/ seen[t].status = ticket[t].status
    \/ \E i \in DOMAIN mine : ~mine[i].read /\ mine[i].ticket = t /\ mine[i].status = ticket[t].status
    \/ Len(mine) = Cap /\ \A i \in DOMAIN mine : mine[i].at >= seen[t].at /\ mine[i].ticket # t
==============================================================================
