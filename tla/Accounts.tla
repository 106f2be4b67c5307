------------------------------- MODULE Accounts -------------------------------
(***************************************************************************)
(* The panel's users over PostgreSQL.  UsersService keeps every record in  *)
(* memory and saves all of them at once: UsersRepository.replace empties   *)
(* the table and inserts the records of a list, one transaction after the  *)
(* other.  The list is taken when the save is asked for, its records are   *)
(* read when they are inserted.  A request is admitted with a fresh copy   *)
(* of the user's row, which takes the place of the record in memory, also  *)
(* under the feet of a request that still works on the old one.            *)
(***************************************************************************)
EXTENDS Naturals, Sequences

CONSTANTS
  Replicas,    \* API processes
  Users,       \* ids of accounts, none of them ever used twice
  First,       \* the account the panel starts with, an owner
  Requests,    \* requests under way at the same time
  None,        \* undefined
  Same,        \* in the list of a save: the record that memory has
  MaxChanges,  \* bound on changes, which number the passwords
  MaxQueue,    \* bound on the saves that wait
  MaxFaults    \* bound on writes that fail and restarts

Records == [hash : Nat, role : {"owner", "user"}, ver : Nat]
Replaces == [rows : [Users -> Records \cup {None}], waiter : Requests \cup {None}]

AccountsAssumption ==
  /\ First \in Users /\ None \notin Users \cup Records \cup Replaces /\ Same \notin Records \cup {None}
  /\ MaxChanges \in Nat /\ MaxQueue \in Nat /\ MaxFaults \in Nat

VARIABLES
  table,     \* the table users
  memory,    \* UsersService.users
  queue,     \* UsersRepository.writeQueue: the saves that wait
  writing,   \* the rows a replace inserts, between its DELETE and its commit
  request,   \* the requests
  answered,  \* history: the account as the changes so far leave it
  excused,   \* history: the accounts that may have lost a change
  used,      \* history: ids given out
  changes, faults

history == <<answered, excused, used>>
bounds == <<changes, faults>>
vars == <<table, memory, queue, writing, request, history, bounds>>

\* What the model keeps of a UserRecord; of the one that admitted a request, the
\* role is all that is used.
Row == [hash : 0..MaxChanges, role : {"owner", "user"}, ver : 0..MaxChanges]
Owner == [hash |-> 0, role |-> "owner", ver |-> 0]
NoRequest == [pc |-> "idle", at |-> None, user |-> None, row |-> None, held |-> FALSE, number |-> 0]
Points == {"idle", "asked", "admitted", "registering", "changing", "resetting",
           "saving", "removing", "revoking", "revoked"}

At(q, pc) == request[q].pc = pc
Known(r) == {u \in Users : memory[r][u] # None}
Owners(r) == {u \in Known(r) : memory[r][u].role = "owner"}
End(q) == request' = [request EXCEPT ![q] = NoRequest]

\* save() and replace(): a list of the records there are, by reference.
Listed(list) == [u \in Users |-> IF list[u] = None THEN None ELSE Same]
Save(r, list, waiter) ==
  /\ Len(queue[r]) < MaxQueue
  /\ queue' = [queue EXCEPT ![r] = Append(@, [list |-> Listed(list), waiter |-> waiter])]

\* A record leaves memory: the saves that list it keep it as it is.
Kept(r, u) ==
  [i \in DOMAIN queue[r] |->
     [queue[r][i] EXCEPT !.list[u] = IF @ = Same THEN memory[r][u] ELSE @]]
\* ... and so does a request that works on it.
Dropped(reqs, r, u) ==
  [q \in Requests |->
     IF reqs[q].at = r /\ reqs[q].user = u THEN [reqs[q] EXCEPT !.held = FALSE] ELSE reqs[q]]

\* A row that takes the place of another content, or of a record that a
\* request works on, may undo a change.
Overtakes(r, u, row) ==
  memory[r][u] # row \/ \E q \in Requests : request[q].held /\ request[q].at = r /\ request[q].user = u

\* users.set(id, fresh), or users.delete(id) when there is no row.
Adopt(r, u, row, reqs) ==
  /\ memory' = [memory EXCEPT ![r][u] = row]
  /\ queue' = [queue EXCEPT ![r] = Kept(r, u)]
  /\ request' = Dropped(reqs, r, u)
  /\ excused' = IF Overtakes(r, u, row) THEN excused \cup {u} ELSE excused

-----------------------------------------------------------------------------
(* Requests. *)

\* findByIdForAuth(): the query, and later its answer.
Ask(q, r, u) ==
  /\ At(q, "idle") /\ u \in used
  /\ request' = [request EXCEPT ![q] = [NoRequest EXCEPT !.pc = "asked", !.at = r, !.user = u, !.row = table[u]]]
  /\ UNCHANGED <<table, memory, queue, writing, history, bounds>>

Admit(q) ==
  LET row == request[q].row IN
  /\ At(q, "asked")
  /\ Adopt(request[q].at, request[q].user, row,
           [request EXCEPT ![q] = IF row = None THEN NoRequest
                                     ELSE [@ EXCEPT !.pc = "admitted", !.row = [Owner EXCEPT !.role = row.role]]])
  /\ UNCHANGED <<table, writing, answered, used, bounds>>

\* The request only reads, or it is refused.
Leave(q) ==
  /\ At(q, "admitted")
  /\ End(q)
  /\ UNCHANGED <<table, memory, queue, writing, history, bounds>>

\* recordLogin(): a save of every account.
RecordLogin(q) ==
  LET r == request[q].at IN
  /\ At(q, "admitted") /\ request[q].user \in Known(r)
  /\ Save(r, memory[r], None)
  /\ End(q)
  /\ UNCHANGED <<table, memory, writing, history, bounds>>

\* setRole(): the last owner in memory stays one.
SetRole(q, u, role) ==
  LET r == request[q].at IN
  /\ At(q, "admitted") /\ request[q].row.role = "owner" /\ u \in Known(r)
  /\ role = "user" => Owners(r) # {u}
  /\ changes < MaxChanges /\ changes' = changes + 1
  /\ Save(r, memory[r], None)
  /\ memory' = [memory EXCEPT ![r][u] = [@ EXCEPT !.role = role, !.ver = memory[r][u].ver + 1]]
  /\ answered' = [answered EXCEPT ![u] =
       IF @ = None THEN @ ELSE [@ EXCEPT !.role = role, !.ver = memory[r][u].ver + 1]]
  /\ End(q)
  /\ UNCHANGED <<table, writing, excused, used, faults>>

\* AdminUsersService.remove(): the policy, the query for servers, remove().
StartRemove(q, u) ==
  LET r == request[q].at IN
  /\ At(q, "admitted") /\ request[q].row.role = "owner"
  /\ u \in Known(r) \ Owners(r) /\ u # request[q].user
  /\ request' = [request EXCEPT ![q] = [@ EXCEPT !.pc = "removing", !.user = u, !.row = None]]
  /\ UNCHANGED <<table, memory, queue, writing, history, bounds>>

Remove(q) ==
  LET r == request[q].at
      u == request[q].user
  IN
  /\ At(q, "removing")
  /\ IF u \notin Known(r) \/ Owners(r) = {u}
     THEN End(q) /\ UNCHANGED <<memory, queue, answered>>
     ELSE /\ memory' = [memory EXCEPT ![r][u] = None]
          /\ Len(queue[r]) < MaxQueue
          /\ queue' = [queue EXCEPT ![r] = Append(Kept(r, u), [list |-> Listed(memory'[r]), waiter |-> None])]
          /\ request' = Dropped([request EXCEPT ![q] = NoRequest], r, u)
          /\ answered' = [answered EXCEPT ![u] = None]
  /\ UNCHANGED <<table, writing, excused, used, bounds>>

\* changePassword() and resetPassword() look the record up, verify and hash.
StartChange(q) ==
  LET r == request[q].at
      u == request[q].user
  IN
  /\ At(q, "admitted") /\ u \in Known(r)
  /\ changes < MaxChanges /\ changes' = changes + 1
  /\ request' = [request EXCEPT ![q] = [@ EXCEPT !.pc = "changing", !.row = None, !.held = TRUE, !.number = changes']]
  /\ UNCHANGED <<table, memory, queue, writing, history, faults>>

StartReset(q, r, u) ==
  /\ At(q, "idle") /\ u \in Known(r)
  /\ changes < MaxChanges /\ changes' = changes + 1
  /\ request' = [request EXCEPT ![q] = [pc |-> "resetting", at |-> r, user |-> u, row |-> memory[r][u],
                                       held |-> TRUE, number |-> changes']]
  /\ UNCHANGED <<table, memory, queue, writing, history, faults>>

\* The record gets the new hash, in memory if it is still there.
ChangePassword(q) ==
  LET r == request[q].at
      u == request[q].user
      n == request[q].number
  IN
  /\ At(q, "changing")
  /\ memory' = [memory EXCEPT ![r][u] = IF request[q].held THEN [@ EXCEPT !.hash = n] ELSE @]
  /\ answered' = [answered EXCEPT ![u] = IF @ = None THEN @ ELSE [@ EXCEPT !.hash = n]]
  /\ Save(r, memory'[r], None)
  /\ End(q)
  /\ UNCHANGED <<table, writing, excused, used, bounds>>

\* A reset waits for its save before it answers.
ResetPassword(q) ==
  LET r == request[q].at
      u == request[q].user
      n == request[q].number
      ver == (IF request[q].held THEN memory[r][u].ver ELSE request[q].row.ver) + 1
  IN
  /\ At(q, "resetting")
  /\ memory' = [memory EXCEPT ![r][u] = IF request[q].held THEN [@ EXCEPT !.hash = n, !.ver = ver] ELSE @]
  /\ answered' = [answered EXCEPT ![u] = IF @ = None THEN @ ELSE [@ EXCEPT !.hash = n, !.ver = ver]]
  /\ Save(r, memory'[r], q)
  /\ request' = [request EXCEPT ![q] = [NoRequest EXCEPT !.pc = "saving", !.at = r]]
  /\ UNCHANGED <<table, writing, excused, used, bounds>>

\* register(): the email is free and the role is chosen before the hash.
StartRegister(q, r, u) ==
  /\ At(q, "idle") /\ u \notin used
  /\ used' = used \cup {u}
  /\ request' = [request EXCEPT ![q] = [NoRequest EXCEPT !.pc = "registering", !.at = r, !.user = u,
                   !.row = [hash |-> 0, ver |-> 0, role |-> IF Known(r) = {} THEN "owner" ELSE "user"]]]
  /\ UNCHANGED <<table, memory, queue, writing, answered, excused, bounds>>

Register(q) ==
  LET r == request[q].at
      u == request[q].user
  IN
  /\ At(q, "registering")
  /\ memory' = [memory EXCEPT ![r][u] = request[q].row]
  /\ answered' = [answered EXCEPT ![u] = request[q].row]
  /\ Save(r, memory'[r], None)
  /\ End(q)
  /\ UNCHANGED <<table, writing, excused, used, bounds>>

\* revokeAllSessions(): an UPDATE that finds the row locked by a replace finds
\* it deleted afterwards, and changes nothing.
Revoke(q) ==
  LET u == request[q].user IN
  /\ At(q, "admitted") /\ u \in Known(request[q].at)
  /\ IF \E r \in Replicas : writing[r] # None
     THEN /\ request' = [request EXCEPT ![q] = [@ EXCEPT !.pc = "revoking", !.row = None]]
          /\ UNCHANGED <<table, changes>>
     ELSE /\ changes < MaxChanges /\ changes' = changes + 1
          /\ table' = [table EXCEPT ![u] = IF @ = None THEN None ELSE [@ EXCEPT !.ver = table[u].ver + 1]]
          /\ request' = [request EXCEPT ![q] = [@ EXCEPT !.pc = "revoked", !.row = table'[u]]]
  /\ UNCHANGED <<memory, queue, writing, history, faults>>

RevokeLate(q) ==
  /\ At(q, "revoking") /\ \A r \in Replicas : writing[r] = None
  /\ request' = [request EXCEPT ![q] = [@ EXCEPT !.pc = "revoked", !.row = table[request[q].user]]]
  /\ UNCHANGED <<table, memory, queue, writing, history, bounds>>

Revoked(q) ==
  LET row == request[q].row
      u == request[q].user
  IN
  /\ At(q, "revoked")
  /\ IF row = None
     THEN End(q) /\ UNCHANGED <<memory, queue, excused, answered>>
     ELSE /\ Adopt(request[q].at, u, row, [request EXCEPT ![q] = NoRequest])
          /\ answered' = [answered EXCEPT ![u] = IF @ = None THEN @ ELSE [@ EXCEPT !.ver = row.ver]]
  /\ UNCHANGED <<table, writing, used, bounds>>

-----------------------------------------------------------------------------
(* Saves. *)

\* BEGIN, DELETE FROM users, and an INSERT for each record of the list.  Of
\* two replicas' replaces that overlap the second fails, as FailReplace does.
BeginReplace(r) ==
  LET head == Head(queue[r]) IN
  /\ queue[r] # <<>>
  /\ \A o \in Replicas : writing[o] = None
  /\ writing' = [writing EXCEPT ![r] =
       [rows |-> [u \in Users |-> IF head.list[u] = Same THEN memory[r][u] ELSE head.list[u]],
        waiter |-> head.waiter]]
  /\ queue' = [queue EXCEPT ![r] = Tail(@)]
  /\ UNCHANGED <<table, memory, request, history, bounds>>

\* The request that waits for the save, if one does, has its answer.
Answer(waiter) ==
  request' = [q \in Requests |-> IF q = waiter THEN NoRequest ELSE request[q]]

\* Seeded fault: the records of the list are upserted.
CommitReplace_Upsert(r) ==
  /\ writing[r] # None
  /\ table' = [u \in Users |-> IF writing[r].rows[u] = None THEN table[u] ELSE writing[r].rows[u]]
  /\ Answer(writing[r].waiter)
  /\ writing' = [writing EXCEPT ![r] = None]
  /\ UNCHANGED <<memory, queue, history, bounds>>

CommitReplace(r) ==
  /\ writing[r] # None
  /\ table' = writing[r].rows
  /\ Answer(writing[r].waiter)
  /\ writing' = [writing EXCEPT ![r] = None]
  /\ UNCHANGED <<memory, queue, history, bounds>>

\* The transaction fails: save() logs it, and what memory holds waits for
\* the next save.  Every account may lose a change.
FailReplace(r) ==
  /\ writing[r] # None /\ faults < MaxFaults
  /\ faults' = faults + 1
  /\ Answer(writing[r].waiter)
  /\ writing' = [writing EXCEPT ![r] = None]
  /\ excused' = Users
  /\ UNCHANGED <<table, memory, queue, answered, used, changes>>

\* A replica dies and starts again: its requests and the saves that wait are
\* gone, and onModuleInit() reads the table.
Restart(r) ==
  /\ faults < MaxFaults /\ faults' = faults + 1
  /\ excused' = IF queue[r] = <<>> /\ writing[r] = None THEN excused ELSE Users
  /\ queue' = [queue EXCEPT ![r] = <<>>]
  /\ writing' = [writing EXCEPT ![r] = None]
  /\ request' = [q \in Requests |-> IF request[q].at = r THEN NoRequest ELSE request[q]]
  /\ memory' = [memory EXCEPT ![r] = table]
  /\ UNCHANGED <<table, answered, used, changes>>

-----------------------------------------------------------------------------
Init ==
  /\ table = [u \in Users |-> IF u = First THEN Owner ELSE None]
  /\ memory = [r \in Replicas |-> table]
  /\ queue = [r \in Replicas |-> <<>>]
  /\ writing = [r \in Replicas |-> None]
  /\ request = [q \in Requests |-> NoRequest]
  /\ answered = table
  /\ excused = {} /\ used = {First}
  /\ changes = 0 /\ faults = 0

Next ==
  \/ \E q \in Requests :
       \/ \E r \in Replicas, u \in Users : Ask(q, r, u) \/ StartReset(q, r, u) \/ StartRegister(q, r, u)
       \/ Admit(q) \/ Leave(q) \/ RecordLogin(q)
       \/ \E u \in Users : StartRemove(q, u) \/ \E role \in {"owner", "user"} : SetRole(q, u, role)
       \/ StartChange(q) \/ ChangePassword(q) \/ ResetPassword(q) \/ Register(q) \/ Remove(q)
       \/ Revoke(q) \/ RevokeLate(q) \/ Revoked(q)
  \/ \E r \in Replicas : BeginReplace(r) \/ CommitReplace(r) \/ FailReplace(r) \/ Restart(r)

Spec == Init /\ [][Next]_vars

-----------------------------------------------------------------------------
(* Properties. *)

\* A list refers to records that memory has, and a request to the record it
\* looked up as long as memory has it.
TypeOK ==
  /\ table \in [Users -> Row \cup {None}]
  /\ memory \in [Replicas -> [Users -> Row \cup {None}]]
  /\ \A r \in Replicas : \A i \in DOMAIN queue[r] : \A u \in Users :
       queue[r][i].list[u] = Same => memory[r][u] # None
  /\ \A q \in Requests :
       /\ request[q].pc \in Points
       /\ request[q].held => memory[request[q].at][request[q].user] # None

\* No save waits or is being written.
Saved == \A r \in Replicas : queue[r] = <<>> /\ writing[r] = None

Matches(row, account) ==
  IF account = None THEN row = None
  ELSE row # None /\ row.hash = account.hash /\ row.role = account.role

\* Once every save is written, the table has each account with the password
\* and the role that the requests answered so far have left it with, and has no
\* account that was removed; except an account that was read again under a
\* change, or any when a write failed or was cut off.
ChangesStand == Saved => \A u \in Users \ excused : Matches(table[u], answered[u])

\* While no account lost a change, some account is an owner.
OwnerRemains == (Saved /\ excused = {}) => \E u \in Users : table[u] # None /\ table[u].role = "owner"

\* README.md: "revoke-all, password reset, and role changes invalidate older
\* versions" of the sessions: the version they have left an account with is
\* never taken back.
VersionsStand ==
  Saved => \A u \in Users : table[u] # None /\ answered[u] # None => table[u].ver >= answered[u].ver
===============================================================================
