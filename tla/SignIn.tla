-------------------------------- MODULE SignIn --------------------------------
(***************************************************************************)
(* How accounts come to be and how their holders prove an email address:   *)
(* registration with a password, with an invitation or through a social    *)
(* provider, provisioning by billing, profile changes, links that verify   *)
(* an address.  AuthController does the steps and waits between them for   *)
(* hashes, providers and the invitation's transaction; UsersService        *)
(* changes the accounts.  One API process with the JSON store, where a     *)
(* save is synchronous (what saves do over PostgreSQL is in Accounts).     *)
(***************************************************************************)
EXTENDS Naturals, FiniteSets

CONSTANTS
  Ids,           \* ids of accounts
  Emails,        \* normalized addresses
  Identities,    \* accounts at one social provider
  Invitations,   \* ids of invitation keys
  Requests,      \* requests under way at the same time
  Absent,        \* undefined
  MaxEdits       \* bound on requests, and on changes of settings, invitations,
                 \* profiles and passwords

SignInAssumption ==
  /\ MaxEdits \in Nat
  /\ Absent \notin [email : Emails, password : BOOLEAN, providers : SUBSET Identities,
                    pending : BOOLEAN, ver : Nat]

VARIABLES
  account,    \* UsersService.users
  invite,     \* RegistrationInvitesService.invites
  settings,   \* the policies of PanelSettingsService that matter here
  links,      \* verification links that were mailed
  request,    \* the requests
  vouched,    \* history: the addresses somebody vouched for, by account
  admitted,   \* history: the registrations each invitation let in
  edits

vars == <<account, invite, settings, links, request, vouched, admitted, edits>>

Known == {u \in Ids : account[u] # Absent}
\* findByEmail().
Holders(e) == {u \in Known : account[u].email = e}
\* The account that socialLogin() finds by its provider.
Connected(i) == {u \in Known : i \in account[u].providers}

Idle == [pc |-> "idle"]
At(q, pc) == request[q].pc = pc
Go(q, r) == request' = [request EXCEPT ![q] = r]
End(q) == Go(q, Idle)

\* An id that nobody has, which crypto.randomUUID() makes up.
Free == Known # Ids
Fresh == CHOOSE u \in Ids : u \notin Known

Edit == edits < MaxEdits /\ edits' = edits + 1

\* emailVerificationPending: the account has yet to confirm its address.
Account(e, password, providers, pending) ==
  [email |-> e, password |-> password, providers |-> providers, pending |-> pending, ver |-> 0]
Vouch(u, e) == vouched' = [vouched EXCEPT ![u] = @ \cup {e}]
Link(u) == [user |-> u, email |-> account'[u].email, ver |-> account'[u].ver]
\* sendEmailVerification(): the token is signed; the mail may fail afterwards.
MailIf(condition, u) == links' = IF condition THEN links \cup {Link(u)} ELSE links

-----------------------------------------------------------------------------
(* Registration. *)

StartRegister(q, e, i) ==
  /\ Edit /\ At(q, "idle")
  /\ Go(q, [pc |-> "policy", email |-> e, key |-> i, first |-> Known = {}])
  /\ UNCHANGED <<account, invite, settings, links, vouched, admitted>>

\* enforceAuthPolicy(): the first account passes whatever the settings say.
Refuse(q) ==
  /\ At(q, "policy")
  /\ End(q)
  /\ UNCHANGED <<account, invite, settings, links, vouched, admitted, edits>>

Usable(i, e) ==
  i # Absent /\ invite[i].state = "free" /\ invite[i].email \in {Absent, e}

\* Seeded fault: consume() only looks at the invitation.
Consume_Reads(q) ==
  LET r == request[q] IN
  /\ At(q, "policy") /\ ~r.first /\ settings.invites
  /\ IF Holders(r.email) = {} /\ Usable(r.key, r.email)
     THEN /\ admitted' = [admitted EXCEPT ![r.key] = @ + 1]
          /\ UNCHANGED invite
          /\ Go(q, [r EXCEPT !.pc = "register"])
     ELSE End(q) /\ UNCHANGED <<invite, admitted>>
  /\ UNCHANGED <<account, settings, links, vouched, edits>>

\* consume(): one transaction, or one synchronous run over the map.
Consume(q) ==
  LET r == request[q] IN
  /\ At(q, "policy") /\ ~r.first /\ settings.invites
  /\ IF Holders(r.email) = {} /\ Usable(r.key, r.email)
     THEN /\ invite' = [invite EXCEPT ![r.key].state = "used"]
          /\ admitted' = [admitted EXCEPT ![r.key] = @ + 1]
          /\ Go(q, [r EXCEPT !.pc = "register"])
     ELSE End(q) /\ UNCHANGED <<invite, admitted>>
  /\ UNCHANGED <<account, settings, links, vouched, edits>>

\* UsersService.register(): the address is free when the hash is asked for.
Hash(q) ==
  LET r == request[q] IN
  /\ \/ At(q, "register")
     \/ At(q, "policy") /\ (r.first \/ ~settings.invites)
  /\ IF Holders(r.email) = {} THEN Go(q, [pc |-> "hashing", email |-> r.email]) ELSE End(q)
  /\ UNCHANGED <<account, invite, settings, links, vouched, admitted, edits>>

\* The hash is there.  The address is mailed a link, or taken as verified.
Register(q) ==
  LET e == request[q].email
      u == Fresh
      pending == settings.verify
  IN
  /\ At(q, "hashing") /\ Free
  /\ account' = [account EXCEPT ![u] = Account(e, TRUE, {}, pending)]
  /\ MailIf(pending, u)
  /\ IF pending THEN UNCHANGED vouched ELSE Vouch(u, e)
  /\ End(q)
  /\ UNCHANGED <<invite, settings, admitted, edits>>

\* provisionUser(): the billing system vouches for its customer.
StartProvision(q, e) ==
  /\ Edit /\ At(q, "idle") /\ Holders(e) = {}
  /\ Go(q, [pc |-> "provision", email |-> e])
  /\ UNCHANGED <<account, invite, settings, links, vouched, admitted>>

Provision(q) ==
  LET e == request[q].email
      u == Fresh
  IN
  /\ At(q, "provision") /\ Free
  /\ account' = [account EXCEPT ![u] = Account(e, TRUE, {}, FALSE)]
  /\ Vouch(u, e)
  /\ End(q)
  /\ UNCHANGED <<invite, settings, links, admitted, edits>>

-----------------------------------------------------------------------------
(* Social providers. *)

\* exchangeProfile(): the provider is asked about an identity.  It answers
\* with an address it has verified, which need not be the one it had before.
StartExchange(q, i) ==
  /\ Edit /\ At(q, "idle")
  /\ Go(q, [pc |-> "profile", id |-> i])
  /\ UNCHANGED <<account, invite, settings, links, vouched, admitted>>

\* Seeded fault: whatever address the provider has, the account is verified.
SocialAccount_AnyEmail(a, i, e) ==
  [a EXCEPT !.providers = IF @ = {} THEN {i} ELSE @, !.pending = FALSE]

\* An account takes the identity unless it has one of the provider, and is
\* verified when the provider's address is its own.
SocialAccount(a, i, e) ==
  [a EXCEPT !.providers = IF @ = {} THEN {i} ELSE @, !.pending = @ /\ e # a.email]

\* exchange() and socialLogin(), for an account that is found: by the identity
\* before the address.  One that has yet to verify is mailed a link.
SocialLogin(q, e) ==
  LET i == request[q].id
      found == IF Connected(i) # {} THEN Connected(i) ELSE Holders(e)
  IN
  /\ At(q, "profile")
  /\ Holders(e) = {} /\ Known # {} => ~settings.invites
  /\ \E u \in found :
       /\ account' = [account EXCEPT ![u] = SocialAccount(@, i, e)]
       /\ IF e = account[u].email THEN Vouch(u, e) ELSE UNCHANGED vouched
       /\ MailIf(settings.verify /\ account'[u].pending, u)
  /\ End(q)
  /\ UNCHANGED <<invite, settings, admitted, edits>>

\* ... and for nobody: a new account, unless registration needs an invitation.
SocialNew(q, e) ==
  LET i == request[q].id IN
  /\ At(q, "profile")
  /\ Connected(i) = {} /\ Holders(e) = {}
  /\ IF settings.invites /\ Known # {} THEN End(q) ELSE Go(q, [pc |-> "join", id |-> i, email |-> e])
  /\ UNCHANGED <<account, invite, settings, links, vouched, admitted, edits>>

\* A known identity whose address nobody has is refused as a registration.
SocialRefused(q, e) ==
  /\ At(q, "profile")
  /\ Connected(request[q].id) # {} /\ Holders(e) = {} /\ settings.invites
  /\ End(q)
  /\ UNCHANGED <<account, invite, settings, links, vouched, admitted, edits>>

SocialJoin(q) ==
  LET e == request[q].email
      u == Fresh
  IN
  /\ At(q, "join") /\ Free
  /\ account' = [account EXCEPT ![u] = Account(e, FALSE, {request[q].id}, FALSE)]
  /\ Vouch(u, e)
  /\ End(q)
  /\ UNCHANGED <<invite, settings, links, admitted, edits>>

StartLink(q, u, i) ==
  /\ Edit /\ At(q, "idle") /\ u \in Known
  /\ Go(q, [pc |-> "link", user |-> u, id |-> i])
  /\ UNCHANGED <<account, invite, settings, links, vouched, admitted>>

\* linkSocialAccount(): nobody else has the identity, the account has none.
LinkAccount(q, e) ==
  LET u == request[q].user
      i == request[q].id
  IN
  /\ At(q, "link")
  /\ IF Connected(i) = {} /\ account[u].providers = {}
     THEN /\ account' = [account EXCEPT ![u] = SocialAccount(@, i, e)]
          /\ IF e = account[u].email THEN Vouch(u, e) ELSE UNCHANGED vouched
     ELSE UNCHANGED <<account, vouched>>
  /\ End(q)
  /\ UNCHANGED <<invite, settings, links, admitted, edits>>

\* unlinkSocialAccount(): not the only way in.
Unlink(u) ==
  /\ u \in Known /\ account[u].providers # {}
  /\ account[u].password
  /\ account' = [account EXCEPT ![u].providers = {}]
  /\ UNCHANGED <<invite, settings, links, request, vouched, admitted, edits>>

-----------------------------------------------------------------------------
(* Accounts. *)

\* updateProfile(): a new address has yet to be verified.
UpdateProfile(u, e) ==
  /\ Edit /\ u \in Known /\ account[u].email # e /\ Holders(e) = {}
  /\ account' = [account EXCEPT ![u] = [@ EXCEPT !.email = e, !.pending = TRUE]]
  /\ MailIf(settings.verify, u)
  /\ UNCHANGED <<invite, settings, request, vouched, admitted>>

\* login() with a password, requestEmailVerification(): a link is mailed.
RequestLink(u) ==
  /\ u \in Known /\ settings.verify /\ account[u].pending
  /\ UNCHANGED account
  /\ MailIf(TRUE, u)
  /\ UNCHANGED <<invite, settings, request, vouched, admitted, edits>>

\* markEmailVerified(): the link is for the address that the account has.
MarkVerified(l) ==
  /\ account[l.user].email = l.email
  /\ account' = [account EXCEPT ![l.user].pending = FALSE]
  /\ Vouch(l.user, l.email)

\* confirmEmailVerification(): links outlive neither a password reset nor
\* a revocation of the sessions.
Confirm(l) ==
  /\ l \in links /\ l.user \in Known /\ l.ver = account[l.user].ver
  /\ MarkVerified(l)
  /\ UNCHANGED <<invite, settings, links, request, admitted, edits>>

\* changePassword() is for the session that has it, resetPassword() for who
\* has the mail, and ends the sessions.
ChangePassword(u) ==
  /\ Edit /\ u \in Known /\ ~account[u].password
  /\ account' = [account EXCEPT ![u].password = TRUE]
  /\ UNCHANGED <<invite, settings, links, request, vouched, admitted>>

ResetPassword(u) ==
  /\ Edit /\ u \in Known
  /\ account' = [account EXCEPT ![u] = [@ EXCEPT !.password = TRUE, !.ver = account[u].ver + 1]]
  /\ UNCHANGED <<invite, settings, links, request, vouched, admitted>>

-----------------------------------------------------------------------------
(* Administration. *)

CreateInvite(i, e) ==
  /\ Edit /\ invite[i].state = "none"
  /\ invite' = [invite EXCEPT ![i] = [state |-> "free", email |-> e]]
  /\ UNCHANGED <<account, settings, links, request, vouched, admitted>>

\* revoke() deletes the row, or its time is over.
RevokeInvite(i) ==
  /\ Edit /\ invite[i].state \in {"free", "used"}
  /\ invite' = [invite EXCEPT ![i] = [state |-> "gone", email |-> Absent]]
  /\ UNCHANGED <<account, settings, links, request, vouched, admitted>>

ChangeSettings(s) ==
  /\ Edit
  /\ settings # s
  /\ settings' = s
  /\ UNCHANGED <<account, invite, links, request, vouched, admitted>>

Init ==
  /\ account = [u \in Ids |-> Absent]
  /\ invite = [i \in Invitations |-> [state |-> "none", email |-> Absent]]
  /\ settings = [verify |-> TRUE, invites |-> TRUE]
  /\ links = {}
  /\ request = [q \in Requests |-> Idle]
  /\ vouched = [u \in Ids |-> {}]
  /\ admitted = [i \in Invitations |-> 0]
  /\ edits = 0

Next ==
  \/ \E q \in Requests :
       \/ \E e \in Emails : StartProvision(q, e) \/ \E i \in Invitations \cup {Absent} : StartRegister(q, e, i)
       \/ \E i \in Identities : StartExchange(q, i) \/ \E u \in Ids : StartLink(q, u, i)
       \/ Refuse(q) \/ Consume(q) \/ Hash(q)
       \/ \E e \in Emails : SocialLogin(q, e) \/ SocialNew(q, e) \/ SocialRefused(q, e) \/ LinkAccount(q, e)
       \/ Register(q) \/ Provision(q) \/ SocialJoin(q)
  \/ \E u \in Ids :
       \/ Unlink(u) \/ RequestLink(u) \/ ChangePassword(u) \/ ResetPassword(u)
       \/ \E e \in Emails : UpdateProfile(u, e)
  \/ \E l \in links : Confirm(l)
  \/ \E i \in Invitations : RevokeInvite(i) \/ \E e \in Emails \cup {Absent} : CreateInvite(i, e)
  \/ \E v, w \in BOOLEAN : ChangeSettings([verify |-> v, invites |-> w])

Spec == Init /\ [][Next]_vars

-----------------------------------------------------------------------------
(* Properties. *)

\* Every account has a place in the history, and a request that links one
\* refers to an account.
TypeOK ==
  /\ \A u \in Known : account[u].email \in Emails /\ account[u].ver \in 0..MaxEdits
  /\ \A u \in Ids : vouched[u] \subseteq Emails
  /\ \A q \in Requests : At(q, "link") => request[q].user \in Known
  /\ edits \in 0..MaxEdits

\* The address of an account counts as verified only when somebody vouched for
\* it and this account: a link mailed to that very address was followed, a
\* provider or the billing system named it, or the panel asked for no proof.
VerifiedIsVouched == \A u \in Known : ~account[u].pending => account[u].email \in vouched[u]

\* An invitation lets in one registration.
InvitesAdmitOne == \A i \in Invitations : admitted[i] <= 1

\* users.service.ts:290: an identity "is already connected to another user":
\* it is connected to one account.  Sign-ins that wait for their hash together
\* break it.
IdentitiesDistinct == \A u, v \in Known : u # v => account[u].providers \cap account[v].providers = {}

\* The table's UNIQUE constraint: no two accounts have one address.  Those that
\* wait for their hash together break it, and no save succeeds from then on.
EmailsDistinct == \A u, v \in Known : u # v => account[u].email # account[v].email
===============================================================================
