---------------------------- MODULE BootstrapTokens ----------------------------
(***************************************************************************)
(* Enrolment of agents with bootstrap tokens, on one API process over a    *)
(* database.  The process keeps the tokens in memory and saves all of them *)
(* whenever they change, one save after the other and without waiting; it  *)
(* may fail to, and it may be restarted.                                   *)
(***************************************************************************)
EXTENDS Naturals, Sequences

CONSTANTS
  None, Tokens,
  Requests,     \* of agents that present a token
  MaxFaults

BootstrapTokensAssumption == MaxFaults \in Nat

VARIABLES
  memory, table, \* tokens that may be used
  saves,         \* collectionQueues: the lists that wait to be saved
  expired,       \* tokens whose hour is over
  issued,        \* history: tokens that were generated
  request,       \* what each request waits for, and its token
  active,        \* whose certificate the node has
  given,         \* history: requests that got a certificate, by token
  excused,       \* history: tokens of which a save was lost
  faults

vars == <<memory, table, saves, expired, issued, request, active, given, excused, faults>>

Fault == faults < MaxFaults /\ faults' = faults + 1

\* save(): replaceCollection() takes the list as it is now.
Save(list) == saves' = Append(saves, list)

\* generateToken()
Generate(t) ==
  /\ t \notin issued /\ issued' = issued \cup {t}
  /\ memory' = memory \cup {t} /\ Save(memory')
  /\ UNCHANGED <<table, expired, request, active, given, excused, faults>>

\* Seeded fault: the list is saved before the token is off it.
Left_Before(t) == memory
Left(t) == memory \ {t}

\* consumeToken(): a token that is expired goes too, and lets nobody in.
Provision(q, t) ==
  /\ request[q] = None
  /\ IF t \notin memory THEN UNCHANGED <<memory, saves, request>>
     ELSE /\ memory' = memory \ {t} /\ Save(Left(t))
          /\ request' = IF t \in expired THEN request ELSE [request EXCEPT ![q] = [pc |-> "issue", token |-> t]]
  /\ UNCHANGED <<table, expired, issued, active, given, excused, faults>>

\* provisionAgentCertificate(): openssl makes a certificate, or fails.
Issue(q) ==
  /\ request[q] # None /\ request[q].pc = "issue"
  /\ \/ request' = [request EXCEPT ![q].pc = "activate"] /\ UNCHANGED faults
     \/ request' = [request EXCEPT ![q] = None] /\ Fault
  /\ UNCHANGED <<memory, table, saves, expired, issued, active, given, excused>>

\* setActiveCertificate(): the answer follows, or an error does.
Activate(q) ==
  /\ request[q] # None /\ request[q].pc = "activate"
  /\ request' = [request EXCEPT ![q] = None]
  /\ \/ active' = q /\ given' = given \cup {<<q, request[q].token>>} /\ UNCHANGED faults
     \/ Fault /\ active' \in {active, q} /\ UNCHANGED given
  /\ UNCHANGED <<memory, table, saves, expired, issued, excused>>

\* Tokens that a save would have put into the table, or taken out of it.
Lost(list) == (table \ list) \cup (list \ table)

\* replaceCollection(): the next list is the table, or the transaction fails.
Commit ==
  /\ saves # <<>> /\ saves' = Tail(saves)
  /\ \/ table' = Head(saves) /\ UNCHANGED <<excused, faults>>
     \/ Fault /\ UNCHANGED table /\ excused' = excused \cup Lost(Head(saves))
  /\ UNCHANGED <<memory, expired, issued, request, active, given>>

Expire(t) ==
  /\ t \in issued \ expired /\ expired' = expired \cup {t}
  /\ UNCHANGED <<memory, table, saves, issued, request, active, given, excused, faults>>

\* The process dies with the saves that wait, and starts: onModuleInit() reads
\* the table, cleanupExpiredTokens() takes the expired ones off.
Restart ==
  /\ Fault /\ excused' = excused \cup UNION {Lost(saves[i]) : i \in DOMAIN saves}
  /\ memory' = table \ expired
  /\ saves' = IF table \cap expired = {} THEN <<>> ELSE <<memory'>>
  /\ request' = [q \in Requests |-> None]
  /\ UNCHANGED <<table, expired, issued, active, given>>

Init ==
  /\ memory = {} /\ table = {} /\ saves = <<>> /\ expired = {} /\ issued = {}
  /\ request = [q \in Requests |-> None] /\ active = None /\ given = {} /\ excused = {} /\ faults = 0

Next ==
  \/ \E t \in Tokens : Generate(t) \/ Expire(t) \/ \E q \in Requests : Provision(q, t)
  \/ \E q \in Requests : Issue(q) \/ Activate(q)
  \/ Commit \/ Restart

Spec == Init /\ [][Next]_vars

-----------------------------------------------------------------------------
(* Properties. *)

TypeOK ==
  /\ memory \subseteq issued /\ table \subseteq Tokens /\ expired \subseteq issued
  /\ saves \in Seq(SUBSET Tokens) /\ active \in Requests \cup {None} /\ given \subseteq Requests \X Tokens

Entered(t) == {q \in Requests : <<q, t>> \in given}

\* A token admits one agent at most, whatever is saved late and however often
\* the process starts, unless a save that concerns it was lost (consumeToken,
\* save, onModuleInit).
TokensSound ==
  \A t \in issued \ excused :
    /\ \A q, p \in Entered(t) : q = p
    /\ \A q \in Entered(t) : t \notin memory

\* "Validates the token and immediately deletes it so it can never be used
\* again" (bootstrap-token.service.ts:51).  Does not hold of a process that
\* dies before the deletion is saved.
TokenUsedOnce == \A t \in issued : \A q, p \in Entered(t) : q = p
===============================================================================
