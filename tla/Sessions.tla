------------------------------- MODULE Sessions -------------------------------
(***************************************************************************)
(* The sessions of one account: sign-in with a password and a second       *)
(* factor, recovery codes, password changes and resets, bans, and the      *)
(* guard that admits tokens.  Comparing and making hashes is awaited, and  *)
(* requests interleave there; the account is the one record in memory, as  *)
(* it is without a database.  Passwords and codes are numbered in the      *)
(* order in which they come to be.                                         *)
(***************************************************************************)
EXTENDS Integers, Sequences, SequencesExt, FiniteSets

CONSTANTS
  Requests,
  MaxAttempts,  \* MAX_ATTEMPTS of the second factor
  Batch,        \* recovery codes made at once
  None,
  MaxCodes, MaxPasswords, MaxVersions, MaxLinks, MaxSessions, MaxStarts

SessionsAssumption ==
  /\ {MaxAttempts, Batch} \subseteq Nat \ {0}
  /\ {MaxCodes, MaxPasswords, MaxVersions, MaxLinks, MaxSessions, MaxStarts} \subseteq Nat

VARIABLES
  account,    \* password, sessionVersion, whether the second factor is on, recovery codes
  banned,     \* an active ban matches
  attempts,   \* second factors tried in the window
  links,      \* reset links: sent so far, those not used, and how often each set a password
  challenges, \* tokens for the second step of a sign-in
  setups,     \* versions in the tokens for switching the second factor on
  request,    \* requests that wait for a hash
  sessions,   \* tokens handed out
  made,       \* history: codes and passwords so far
  renewed,    \* history: the password of the last reset
  spent,      \* history: how often each code was accepted ...
  raced,      \* ... and codes that were being compared when the list changed
  starts

vars == <<account, banned, attempts, links, challenges, setups, request, sessions, made, renewed, spent, raced, starts>>

Start == starts < MaxStarts /\ starts' = starts + 1
Idle(q) == request[q] = None /\ Start
Waits(q, pc) == request[q] # None /\ request[q].pc = pc
Goes(q, r) == request' = [request EXCEPT ![q] = r]

\* canActivate(): the version in a token is that of the account, as are bans.
Accepted(t) == t.ver = account.version /\ ~banned
SignedIn == \E t \in sessions : Accepted(t)

\* Others who compare a code while the list changes.
Racing(q) == raced \cup {request[p].code : p \in {r \in Requests \ {q} : Waits(r, "compare")}}
NewCodes == [i \in 1..Batch |-> made.codes + i]

-----------------------------------------------------------------------------
(* Signing in. *)

\* completeLogin(), signForUser(): for the account as it is now.
CompleteLogin(r) ==
  /\ banned \/ Cardinality(sessions) < MaxSessions
  /\ sessions' = IF banned THEN sessions ELSE sessions \cup
       {[ver |-> account.version, knew |-> r.knew, old |-> r.old]}

\* login(): compared is the hash that the account has now.
Login(q, password) ==
  /\ Idle(q) /\ ~banned
  /\ Goes(q, [pc |-> "login", right |-> password = account.password, knew |-> password, old |-> FALSE])
  /\ UNCHANGED <<account, banned, attempts, links, challenges, setups, sessions, made, renewed, spent, raced>>

Compared(q) ==
  LET r == request[q] IN
  /\ Waits(q, "login") /\ Goes(q, None)
  /\ IF ~r.right \/ banned THEN UNCHANGED <<challenges, sessions>>
     ELSE IF account.factor
          THEN challenges' = challenges \cup {[ver |-> account.version, knew |-> r.knew, old |-> r.old]} /\ UNCHANGED sessions
          ELSE CompleteLogin(r) /\ UNCHANGED challenges
  /\ UNCHANGED <<account, banned, attempts, links, setups, made, renewed, spent, raced, starts>>

-----------------------------------------------------------------------------
(* Second factors. *)

\* What a request does when its second factor was right, and it left the
\* account as "acct".
Proven(q, r, acct) ==
  \/ /\ r.for = "signin" /\ account' = acct
     /\ CompleteLogin(r) /\ attempts' = 0 /\ Goes(q, None)
  \/ /\ r.for = "disable" /\ account' = [acct EXCEPT !.factor = FALSE, !.codes = <<>>]
     /\ Goes(q, None) /\ UNCHANGED <<attempts, sessions>>
  \/ /\ r.for = "regenerate" /\ account' = acct
     /\ Goes(q, [pc |-> "codes"]) /\ UNCHANGED <<attempts, sessions>>

\* verifySecondFactor(): a code of the authenticator is right at once, ...
Prove(q, r) ==
  \/ /\ account.factor /\ Proven(q, r, account)
     /\ raced' = IF r.for = "disable" THEN Racing(q) ELSE raced
  \* ... one that is on no list may be compared with every hash in vain ...
  \/ Goes(q, None) /\ UNCHANGED <<account, attempts, sessions, raced>>
  \* ... and a recovery code is compared with the first.
  \/ /\ account.factor /\ account.codes # <<>>
     /\ \E code \in 1..made.codes : Goes(q, [pc |-> "compare", code |-> code, hash |-> account.codes[1], index |-> 1] @@ r)
     /\ UNCHANGED <<account, attempts, sessions, raced>>

Current(c) == c.ver = account.version

\* completeTwoFactorLogin().
SecondStep(q, c) ==
  /\ Idle(q)
  /\ account.factor /\ Current(c) /\ ~banned /\ attempts < MaxAttempts
  /\ \/ /\ Proven(q, [for |-> "signin", knew |-> c.knew, old |-> c.old], account)
        /\ UNCHANGED raced
     \/ /\ attempts' = attempts + 1 /\ account.codes # <<>>
        /\ \E code \in 1..made.codes :
             Goes(q, [pc |-> "compare", for |-> "signin", knew |-> c.knew, old |-> c.old,
                      code |-> code, hash |-> account.codes[1], index |-> 1])
        /\ UNCHANGED <<account, sessions, raced>>
     \/ attempts' = attempts + 1 /\ UNCHANGED <<account, sessions, request, raced>>
  /\ UNCHANGED <<banned, links, challenges, setups, made, renewed, spent>>

\* Seeded fault: the code after the right one is taken off the list.
Without_Next(codes, i) == IF i + 1 \in DOMAIN codes THEN RemoveAt(codes, i + 1) ELSE codes
\* splice(index, 1), of the list that is there by now.
Without(codes, i) == IF i \in DOMAIN codes THEN RemoveAt(codes, i) ELSE codes

\* consumeRecoveryCode(): one comparison.  A second factor that was switched
\* off meanwhile ends the request.
CompareCode(q) ==
  LET r == request[q] IN
  /\ Waits(q, "compare")
  /\ IF account.factor /\ r.hash = r.code
     THEN /\ Proven(q, r, [account EXCEPT !.codes = Without(@, r.index)])
          /\ spent' = [spent EXCEPT ![r.code] = @ + 1] /\ raced' = Racing(q)
     ELSE /\ IF account.factor /\ r.index < Len(account.codes)
             THEN Goes(q, [r EXCEPT !.index = @ + 1, !.hash = account.codes[r.index + 1]])
             ELSE Goes(q, None)
          /\ UNCHANGED <<account, attempts, sessions, spent, raced>>
  /\ UNCHANGED <<banned, links, challenges, setups, made, renewed, starts>>

\* setupTwoFactor(), and enableTwoFactor() with a code for that setup.
SetUp ==
  /\ Start
  /\ SignedIn /\ ~account.factor
  /\ setups' = setups \cup {account.version}
  /\ UNCHANGED <<account, banned, attempts, links, challenges, request, sessions, made, renewed, spent, raced>>

Enable(q) ==
  /\ Idle(q) /\ SignedIn /\ account.version \in setups
  /\ Goes(q, [pc |-> "enable"])
  /\ UNCHANGED <<account, banned, attempts, links, challenges, setups, sessions, made, renewed, spent, raced>>

\* disableTwoFactor(): the password first.
Disable(q, right) ==
  /\ Idle(q) /\ SignedIn /\ account.factor
  /\ Goes(q, [pc |-> "disable", right |-> right])
  /\ UNCHANGED <<account, banned, attempts, links, challenges, setups, sessions, made, renewed, spent, raced>>

DisableCompared(q) ==
  /\ Waits(q, "disable")
  /\ IF request[q].right THEN Prove(q, [for |-> "disable"])
     ELSE Goes(q, None) /\ UNCHANGED <<account, attempts, sessions, raced>>
  /\ UNCHANGED <<banned, links, challenges, setups, made, renewed, spent, starts>>

\* regenerateRecoveryCodes().
Regenerate(q) ==
  /\ Idle(q) /\ SignedIn /\ account.factor
  /\ Prove(q, [for |-> "regenerate"])
  /\ UNCHANGED <<banned, links, challenges, setups, made, renewed, spent>>

\* The new codes are hashed: enableTwoFactor() and replaceRecoveryCodes() of
\* UsersService; the latter only where the factor is still on.
NewList(q) ==
  /\ Waits(q, "enable") \/ Waits(q, "codes")
  /\ made.codes + Batch <= MaxCodes
  /\ Goes(q, None)
  /\ made' = [made EXCEPT !.codes = @ + Batch]
  /\ IF Waits(q, "enable") \/ account.factor
     THEN account' = [account EXCEPT !.factor = TRUE, !.codes = NewCodes] /\ raced' = Racing(q)
     ELSE UNCHANGED <<account, raced>>
  /\ UNCHANGED <<banned, attempts, links, challenges, setups, sessions, renewed, spent, starts>>

-----------------------------------------------------------------------------
(* Passwords. *)

NewPassword == made.passwords + 1
MakePassword == made.passwords < MaxPasswords /\ made' = [made EXCEPT !.passwords = NewPassword]

\* changePassword(): the sessions stay.
Change(q, right) ==
  /\ Idle(q) /\ SignedIn
  /\ Goes(q, [pc |-> "change", right |-> right])
  /\ UNCHANGED <<account, banned, attempts, links, challenges, setups, sessions, made, renewed, spent, raced>>

Changed(q) ==
  /\ Waits(q, "change") /\ Goes(q, None)
  /\ IF request[q].right THEN MakePassword /\ account' = [account EXCEPT !.password = NewPassword]
     ELSE UNCHANGED <<account, made>>
  /\ UNCHANGED <<banned, attempts, links, challenges, setups, sessions, renewed, spent, raced, starts>>

\* requestPasswordReset(), issue().
SendLink ==
  /\ Start
  /\ links.sent < MaxLinks
  /\ links' = [links EXCEPT !.sent = @ + 1, !.open = @ \cup {links.sent + 1}]
  /\ UNCHANGED <<account, banned, attempts, challenges, setups, request, sessions, made, renewed, spent, raced>>

\* confirmPasswordReset(), consume().
UseLink(q, l) ==
  /\ Idle(q) /\ l \in links.open
  /\ links' = [links EXCEPT !.open = @ \ {l}]
  /\ Goes(q, [pc |-> "reset", link |-> l])
  /\ UNCHANGED <<account, banned, attempts, challenges, setups, sessions, made, renewed, spent, raced>>

\* resetPassword(): every session ends; what waits for a hash goes on.
Reset(q) ==
  /\ Waits(q, "reset") /\ account.version < MaxVersions /\ MakePassword
  /\ account' = [account EXCEPT !.password = NewPassword, !.version = @ + 1]
  /\ renewed' = NewPassword
  /\ links' = [links EXCEPT !.set[request[q].link] = @ + 1]
  /\ request' = [p \in Requests |->
       IF p = q THEN None
       ELSE IF request[p] # None /\ "old" \in DOMAIN request[p] THEN [request[p] EXCEPT !.old = TRUE] ELSE request[p]]
  /\ UNCHANGED <<banned, attempts, challenges, setups, sessions, spent, raced, starts>>

-----------------------------------------------------------------------------

\* revokeAllSessions(), by the account itself, and setRole() by somebody else.
EndSessions(self) ==
  /\ Start
  /\ self => SignedIn
  /\ account.version < MaxVersions
  /\ account' = [account EXCEPT !.version = @ + 1]
  /\ UNCHANGED <<banned, attempts, links, challenges, setups, request, sessions, made, renewed, spent, raced>>

\* A ban is created, or revoked, or expires.
Ban ==
  /\ Start
  /\ banned' = ~banned
  /\ UNCHANGED <<account, attempts, links, challenges, setups, request, sessions, made, renewed, spent, raced>>

\* enforceAttemptLimit(): attempts leave the window.
WindowPasses ==
  /\ attempts > 0 /\ attempts' = attempts - 1
  /\ UNCHANGED <<account, banned, links, challenges, setups, request, sessions, made, renewed, spent, raced, starts>>

Init ==
  /\ account = [password |-> 0, version |-> 0, factor |-> FALSE, codes |-> <<>>]
  /\ banned = FALSE /\ attempts = 0
  /\ links = [sent |-> 0, open |-> {}, set |-> [l \in 1..MaxLinks |-> 0]]
  /\ challenges = {} /\ setups = {}
  /\ request = [q \in Requests |-> None] /\ sessions = {}
  /\ made = [codes |-> 0, passwords |-> 0]
  /\ renewed = 0
  /\ spent = [c \in 1..MaxCodes |-> 0] /\ raced = {} /\ starts = 0

Next ==
  \/ SetUp \/ SendLink \/ Ban \/ WindowPasses
  \/ \E self \in BOOLEAN : EndSessions(self)
  \/ \E q \in Requests :
       \/ \E password \in 0..made.passwords : Login(q, password)
       \/ \E c \in challenges : SecondStep(q, c)
       \/ \E right \in BOOLEAN : Disable(q, right) \/ Change(q, right)
       \/ \E l \in links.open : UseLink(q, l)
       \/ Compared(q) \/ CompareCode(q) \/ Enable(q) \/ DisableCompared(q) \/ Regenerate(q)
       \/ NewList(q) \/ Changed(q) \/ Reset(q)

Spec == Init /\ [][Next]_vars

-----------------------------------------------------------------------------
(* Properties. *)

\* Codes on the list were made and are different; attempts stay in the limit.
TypeOK ==
  /\ ToSet(account.codes) \subseteq 1..made.codes /\ IsInjective(account.codes)
  /\ attempts \in 0..MaxAttempts /\ account.version \in 0..MaxVersions
  /\ \A q \in Requests : Waits(q, "compare") => request[q].index > 0

\* A token that the guard admits was handed out to somebody who knew a password
\* no older than the last reset's, or whose comparison was under way at the
\* reset (canActivate, login, completeTwoFactorLogin, resetPassword).
SessionsSound == \A t \in sessions : Accepted(t) => t.old \/ t.knew >= renewed

\* A recovery code is accepted once and is off the list afterwards, unless the
\* list changed while a request compared it: two requests that compare it at
\* the same await are both let in, and the second may take another code off the
\* list (consumeRecoveryCode).  A reset link sets at most one password (consume).
CodesSpent ==
  /\ \A c \in DOMAIN spent \ raced : spent[c] <= 1 /\ (spent[c] = 1 => ~Contains(account.codes, c))
  /\ \A l \in DOMAIN links.set : links.set[l] <= 1
===============================================================================
