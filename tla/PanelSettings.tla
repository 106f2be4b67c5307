---------------------------- MODULE PanelSettings ----------------------------
(***************************************************************************)
(* The settings of the panel.  update() merges what an administrator sends *)
(* into the settings and saves them as a whole; a start merges the saved   *)
(* settings into the defaults of the environment with a second copy of the *)
(* same code (updateInMemory), which is to read back what was saved.  The  *)
(* environment is taken as it says, in no range and no form.  Of the many  *)
(* fields one of each kind is kept.  The limits on sign-in requests, which *)
(* read the settings, are counted in memory or by Redis.  One API process  *)
(* with the JSON store.                                                    *)
(***************************************************************************)
EXTENDS Integers, FiniteSets

CONSTANTS
  Lengths,              \* lengths of passwords that come up
  MinLow, MinHigh, MaxHigh,    \* the ranges of minLength and maxLength (8, 128, 256)
  Environments,         \* the settings that the environment may give at a start
  Production,           \* only https addresses are taken
  None,                 \* undefined: the field was not sent
  Clients,              \* keys of the rate limit: action, address and email
  Maximum, Window,      \* the limit in force, and its window
  MaxEdits, MaxTime, MaxFaults

Urls == {"empty", "not a url", "http", "http/path", "https", "https/path"}
Names == {"empty", "a", "b", "padded-a"}
Secrets == {"empty", "k", "padded-k"}
Securities == {"auto", "starttls", "tls"}
Settings == [min : Int, max : Int, url : Urls, name : Names, secret : Secrets, verify : BOOLEAN,
             smtp : BOOLEAN, port : Nat, security : Securities, s3 : BOOLEAN]
Fields == {"min", "max", "url", "name", "secret", "verify", "smtp", "port", "security", "s3"}

\* The environment gives any numbers and any texts; no value is undefined.
PanelSettingsAssumption ==
  /\ None \notin Int \cup BOOLEAN \cup Urls \cup Names \cup Secrets \cup Securities
  /\ MinLow <= MinHigh /\ MinHigh <= MaxHigh /\ {MinLow, MinHigh, MaxHigh} \subseteq Nat
  /\ Lengths \subseteq Int
  /\ Environments # {} /\ \A e \in Environments : e \in Settings
  /\ {Maximum, Window} \subseteq Nat \ {0}
  /\ {MaxEdits, MaxTime, MaxFaults} \subseteq Nat

VARIABLES
  usesRedis,   \* RedisService.enabled, for good
  settings,    \* PanelSettingsService.settings
  file,        \* panel-settings.json, None before the first save
  attempts,    \* PanelSettingsService.attempts: when, by key
  counter,     \* Redis: [count, until] by key; until = 0: it never expires
  hit,         \* the requests that have counted themselves and not set the expiry
  now, edits, faults

vars == <<usesRedis, settings, file, attempts, counter, hit, now, edits, faults>>
limits == <<usesRedis, attempts, counter, hit, now>>

Fault == faults < MaxFaults /\ faults' = faults + 1

-----------------------------------------------------------------------------
(* Merging. *)

\* booleanValue(), storageValue().
Or(v, fallback) == IF v = None THEN fallback ELSE v

Trim(text) == CASE text = "padded-a" -> "a" [] text = "padded-k" -> "k" [] OTHER -> text

\* cleanOptionalString(), and cleanString(), which does not take the empty text.
OrOptional(v, fallback) == IF v = None THEN fallback ELSE Trim(v)
OrText(v, fallback) == IF v \in {None, "empty"} THEN fallback ELSE Trim(v)

\* numberInRange(): a fallback is taken as it is.
Clamp(v, low, high) == IF v > high \/ low > high THEN high ELSE IF v < low THEN low ELSE v
InRange(v, fallback, low, high) == IF v = None THEN fallback ELSE Clamp(v, low, high)

\* passwordPolicySettings().
MinLength(s, p) == InRange(p.min, s.min, MinLow, MinHigh)
MaxLength(s, p) == InRange(p.max, s.max, MinLength(s, p), MaxHigh)

\* panelUrl(): an address that is not allowed is refused, or not taken; of
\* another its origin is taken.
Allowed(url) ==
  url \in {None, "empty", "https", "https/path"} \cup (IF Production THEN {} ELSE {"http", "http/path"})
Origin(url) == CASE url = "https/path" -> "https" [] url = "http/path" -> "http" [] OTHER -> url
Url(s, p) == IF p.url # None /\ Allowed(p.url) THEN Origin(p.url) ELSE s.url

\* mergeSmtp(), of ports in their range, and smtpSecurity(): what older versions stored says less.
Port(s, p) == Or(p.port, s.port)
Security(s, p) ==
  IF p.security # None THEN p.security
  ELSE IF p.secure = TRUE THEN IF Port(s, p) = 465 THEN "tls" ELSE "starttls"
  ELSE IF p.secure = FALSE /\ Port(s, p) = 587 THEN "starttls"
  ELSE s.security

\* update(): what the body says over what is in force.
Merge(s, p) ==
  [min |-> MinLength(s, p), max |-> MaxLength(s, p), url |-> Url(s, p), name |-> OrText(p.name, s.name),
   secret |-> OrOptional(p.secret, s.secret), verify |-> Or(p.verify, s.verify), smtp |-> Or(p.smtp, s.smtp),
   port |-> Port(s, p), security |-> Security(s, p), s3 |-> Or(p.s3, s.s3)]

\* mergeSmtp() writes `secure` beside the security.
Saved(s) == [f \in DOMAIN s \cup {"secure"} |-> IF f = "secure" THEN s.security = "tls" ELSE s[f]]

\* Seeded fault: the copy of the code that loads takes no empty secret.
Load_Secret(e, p) == [Merge(e, p) EXCEPT !.secret = OrText(p.secret, e.secret)]

\* updateInMemory(): what was saved over what the environment says.
Load(e, p) == Merge(e, p)

-----------------------------------------------------------------------------
(* Updates and starts. *)

Unsent == [f \in Fields \cup {"secure"} |-> None]
Passwords(a, b) == [Unsent EXCEPT !.min = a, !.max = b]
Address(u, b) == [Unsent EXCEPT !.url = u, !.verify = b]
Mail(n, b) == [Unsent EXCEPT !.smtp = TRUE, !.port = n, !.secure = b]
Key(t, b) == [Unsent EXCEPT !.secret = t, !.s3 = b]
Naming(t, y) == [Unsent EXCEPT !.name = t, !.security = y]
Patches ==
  {Passwords(a, b) : a, b \in Lengths \cup {None}}
  \cup {Address(u, b) : u \in Urls, b \in BOOLEAN}
  \cup {Mail(n, b) : n \in {None, 465, 587}, b \in BOOLEAN \cup {None}}
  \cup {Key(t, b) : t \in {"empty", "padded-k"}, b \in BOOLEAN}
  \cup {Naming(t, y) : t \in {"empty", "b"}, y \in {None, "auto", "tls"}}

\* SettingsPolicy: administrators leave the backup policy as it is.
Sanitized(owner, p) == IF owner THEN p ELSE [p EXCEPT !.s3 = settings.s3]

Update(owner, p) ==
  /\ edits < MaxEdits /\ edits' = edits + 1
  /\ Allowed(p.url)
  /\ settings' = Merge(settings, Sanitized(owner, p))
  /\ file' = Saved(settings')
  /\ UNCHANGED <<limits, faults>>

Restart ==
  /\ Fault
  /\ \E e \in Environments : settings' = IF file = None THEN e ELSE Load(e, file)
  /\ attempts' = [k \in Clients |-> {}] /\ hit' = {}
  /\ UNCHANGED <<usesRedis, file, counter, now, edits>>

\* mailDeliveryEnabled(), passwordResetEnabled(), emailVerificationRequired().
MailDelivery == settings.smtp /\ settings.url # "empty" /\ (Production => settings.url \in {"https", "https/path"})
EmailVerificationRequired == settings.verify /\ MailDelivery

-----------------------------------------------------------------------------
(* Limits on requests. *)

Recent(k) == {t \in attempts[k] : now - t < Window}

\* enforceRateLimit() without Redis: a sliding window.
Attempt(k) ==
  /\ ~usesRedis /\ now < MaxTime
  /\ IF Cardinality(Recent(k)) >= Maximum THEN UNCHANGED <<attempts, now>>
     ELSE attempts' = [attempts EXCEPT ![k] = Recent(k) \cup {now}] /\ now' = now + 1
  /\ UNCHANGED <<usesRedis, settings, file, counter, hit, edits, faults>>

\* hitRateLimit(): the first to count sets the expiry, in a second call.
Count(k) ==
  /\ usesRedis /\ now < MaxTime /\ counter[k].count <= Maximum
  /\ counter' = [counter EXCEPT ![k].count = @ + 1]
  /\ hit' = IF counter[k].count = 0 THEN hit \cup {k} ELSE hit
  /\ UNCHANGED <<usesRedis, settings, file, attempts, now, edits, faults>>

SetExpiry(k) ==
  /\ k \in hit /\ hit' = hit \ {k}
  /\ counter' = [counter EXCEPT ![k].until = now + Window]
  /\ UNCHANGED <<usesRedis, settings, file, attempts, now, edits, faults>>

Tick ==
  /\ now < MaxTime /\ now' = now + 1
  /\ counter' = [k \in Clients |-> IF counter[k].until = now' THEN [count |-> 0, until |-> 0] ELSE counter[k]]
  /\ UNCHANGED <<usesRedis, settings, file, attempts, hit, edits, faults>>

Init ==
  /\ usesRedis \in BOOLEAN
  /\ settings \in Environments /\ file = None
  /\ attempts = [k \in Clients |-> {}]
  /\ counter = [k \in Clients |-> [count |-> 0, until |-> 0]]
  /\ hit = {} /\ now = 0 /\ edits = 0 /\ faults = 0

Next ==
  \/ \E owner \in BOOLEAN, p \in Patches : Update(owner, p)
  \/ Restart \/ Tick
  \/ \E k \in Clients : Attempt(k) \/ Count(k) \/ SetExpiry(k)

Spec == Init /\ [][Next]_vars

-----------------------------------------------------------------------------
(* Properties. *)

\* Limits keep their bounds.
TypeOK ==
  /\ settings \in Settings
  /\ \A k \in Clients : Cardinality(attempts[k]) <= Maximum
  /\ hit \subseteq Clients /\ now \in 0..MaxTime /\ edits \in 0..MaxEdits /\ faults \in 0..MaxFaults

\* A field as the form of the administrators leaves it.
InForm(s, f) ==
  /\ f = "min" => s.min \in MinLow..MinHigh
  /\ f = "max" => s.max \in Clamp(s.min, MinLow, MinHigh)..MaxHigh
  /\ f = "url" => Allowed(s.url) /\ Origin(s.url) = s.url
  /\ f = "name" => s.name # "empty" /\ Trim(s.name) = s.name
  /\ f = "secret" => Trim(s.secret) = s.secret

\* A field is out of form only where the environment gave it so, or where
\* minLength was raised above maxLength.
OutOfForm(f) ==
  \/ \E e \in Environments : settings[f] = e[f]
  \/ f = "max" /\ settings.max < Clamp(settings.min, MinLow, MinHigh)

\* The next start, whatever the environment says then, reads back every field
\* that was saved in form: the two copies of the merging code agree.  A number
\* out of its range, which an update saves when the environment gave it, is
\* brought into it: a minimum of 6 is saved as 6 and loaded as 8.  An address
\* with a path is saved as it is and loaded as its origin, and one that is not
\* allowed gives way to that of the environment.
LoadedAsSaved ==
  /\ \A f \in Fields : InForm(settings, f) \/ OutOfForm(f)
  /\ file # None => \A e \in Environments, f \in Fields :
       /\ InForm(file, f) => Load(e, file)[f] = settings[f]
       /\ f \in {"min", "max"} => InForm(Load(e, file), f)

\* Some password fulfils the policy.  Raising minLength alone above maxLength
\* breaks it, and the next start repairs it.
PolicyUsable == settings.min <= settings.max

\* A client over the limit is let in again after a while.  A process that dies
\* between the two calls of hitRateLimit() breaks it.
LimitsLift == \A k \in Clients : counter[k].count > 0 => counter[k].until > 0 \/ k \in hit
=============================================================================
