--------------------------- MODULE AgentCertificates ---------------------------
(***************************************************************************)
(* The certificates of one node: AgentsService keeps the node's entry in   *)
(* the memory of every replica and upserts the WHOLE row from it;          *)
(* refreshFromDatabase replaces the memory every five seconds;             *)
(* CertificateRotationService.rotate stages a new certificate, installs it *)
(* on the agent, waits for the agent and activates it, or rolls it back.   *)
(* A replica talks to the agent, and takes its heartbeats, only while the  *)
(* certificate it presents is the active or the pending one.               *)
(*                                                                         *)
(* The agent is external: an installation makes it reload (it is down for  *)
(* a while) and present the new certificate, a rollback the one before.    *)
(***************************************************************************)
EXTENDS Naturals

CONSTANTS
  Replicas,      \* API processes
  None,          \* no certificate, no write
  MaxCerts,      \* bound on the certificates issued
  MaxRestarts    \* bound on restarts of replicas

CertificatesAssumption == MaxCerts \in Nat /\ MaxRestarts \in Nat

Cert == 0 .. MaxCerts

Entry == [active : Cert, pending : Cert \cup {None}, revoked : BOOLEAN]

NoCertAssumption == None \notin Cert \cup Entry

VARIABLES
  table,      \* the row of the node in agents
  registry,   \* the entry in each replica's memory
  refresh,    \* the row a refresh has read and not yet installed
  beat,       \* the upsert of a heartbeat under way
  admin,      \* the upsert of an administrator's request under way
  rotation,   \* rotate() on each replica
  agent,      \* what the agent presents, what it would roll back to
  issued,     \* certificates issued
  mishap,    \* history: what may have locked the node out
  restarts

vars == <<table, registry, refresh, beat, admin, rotation, agent, issued, mishap, restarts>>

Points == {"idle", "preflight", "staging", "installing", "reloading",
           "activating", "rollback", "clearing"}

Idle == [pc |-> "idle", bundle |-> None, write |-> None, installed |-> FALSE]

\* isCertificateAllowed, and checkServerIdentity of the connection.
Accepted(entry) ==
  IF entry.revoked THEN {entry.pending} ELSE {entry.active, entry.pending}

Reaches(r) == agent.up /\ agent.cert \in Accepted(registry[r])

Activated(entry) ==
  [active |-> entry.pending, pending |-> None, revoked |-> FALSE]
Cleared(entry) == [entry EXCEPT !.pending = None]

\* persistCertificateChange: the memory at once, the row when the write lands.
Change(r, entry) == registry' = [registry EXCEPT ![r] = entry]

At(r, pc) == rotation[r].pc = pc
Go(r, pc) == rotation' = [rotation EXCEPT ![r].pc = pc]
GoWriting(r, pc, entry) ==
  /\ Change(r, entry)
  /\ rotation' = [rotation EXCEPT ![r] = [@ EXCEPT !.pc = pc, !.write = entry]]
End(r) == rotation' = [rotation EXCEPT ![r] = Idle]

\* The catch block: roll the agent back if it installed, else clear.
Fail(r) ==
  IF rotation[r].installed
  THEN Go(r, "rollback") /\ UNCHANGED registry
  ELSE GoWriting(r, "clearing", Cleared(registry[r]))

\* A whole row written over a newer one takes certificate changes back.
Mishap(happens) == mishap' = (mishap \/ happens)

-----------------------------------------------------------------------------
(* The registry. *)

\* register() for a heartbeat or a placement change: the certificate fields
\* are the ones in memory.  A heartbeat is taken only from an accepted agent.
Heartbeat(r) ==
  /\ beat[r] = None /\ Reaches(r)
  /\ beat' = [beat EXCEPT ![r] = registry[r]]
  /\ UNCHANGED <<table, registry, refresh, admin, rotation, agent, issued, mishap, restarts>>

HeartbeatLands(r) ==
  /\ beat[r] # None
  /\ table' = beat[r]
  /\ Mishap(beat[r] # table)
  /\ beat' = [beat EXCEPT ![r] = None]
  /\ UNCHANGED <<registry, refresh, admin, rotation, agent, issued, restarts>>

RefreshReads(r) ==
  /\ refresh[r] = None
  /\ refresh' = [refresh EXCEPT ![r] = table]
  /\ UNCHANGED <<table, registry, beat, admin, rotation, agent, issued, mishap, restarts>>

\* The memory is replaced, also when it or the row is newer than what was read.
RefreshInstalls(r) ==
  /\ refresh[r] # None
  /\ Change(r, refresh[r])
  /\ Mishap(refresh[r] # table \/ rotation[r].write # None \/ admin[r] # None)
  /\ refresh' = [refresh EXCEPT ![r] = None]
  /\ UNCHANGED <<table, beat, admin, rotation, agent, issued, restarts>>

\* CertificateService.activate and revoke.  An activation by hand is refused
\* without a pending certificate, and for nothing else.
Activate(r) ==
  /\ admin[r] = None /\ registry[r].pending # None
  /\ Change(r, Activated(registry[r]))
  /\ admin' = [admin EXCEPT ![r] = registry'[r]]
  /\ Mishap(TRUE)
  /\ UNCHANGED <<table, refresh, beat, rotation, agent, issued, restarts>>

Revoke(r) ==
  /\ admin[r] = None
  /\ Change(r, [registry[r] EXCEPT !.revoked = TRUE])
  /\ admin' = [admin EXCEPT ![r] = registry'[r]]
  /\ UNCHANGED <<table, refresh, beat, rotation, agent, issued, mishap, restarts>>

AdminLands(r) ==
  /\ admin[r] # None
  /\ table' = admin[r]
  /\ Mishap(admin[r].pending # table.pending)
  /\ admin' = [admin EXCEPT ![r] = None]
  /\ UNCHANGED <<registry, refresh, beat, rotation, agent, issued, restarts>>

-----------------------------------------------------------------------------
(* rotate(). *)

Rotate(r) ==
  /\ At(r, "idle")
  /\ ~registry[r].revoked /\ registry[r].pending = None
  /\ issued < MaxCerts
  /\ Go(r, "preflight")
  /\ UNCHANGED <<table, registry, refresh, beat, admin, agent, issued, mishap, restarts>>

\* getNodeStats, a new bundle, stageCertificate.
Preflight(r) ==
  /\ At(r, "preflight")
  /\ \/ /\ Reaches(r) /\ issued < MaxCerts
        /\ issued' = issued + 1
        /\ Change(r, [registry[r] EXCEPT !.pending = issued + 1])
        /\ rotation' = [rotation EXCEPT ![r] =
             [@ EXCEPT !.pc = "staging", !.bundle = issued + 1, !.write = registry'[r]]]
     \/ End(r) /\ UNCHANGED <<registry, issued>>
  /\ UNCHANGED <<table, refresh, beat, admin, agent, mishap, restarts>>

\* A write of rotate() lands, and the stretch behind it begins.
WriteLands(r) ==
  /\ rotation[r].write # None
  /\ table' = rotation[r].write
  /\ rotation' = [rotation EXCEPT ![r] =
       IF @.pc = "staging" THEN [@ EXCEPT !.pc = "installing", !.write = None] ELSE Idle]
  /\ UNCHANGED <<registry, refresh, beat, admin, agent, issued, mishap, restarts>>

\* ... or the database refuses it.  The memory keeps the change: after a
\* failed activation the rollback ends by storing the new certificate.
WriteFails(r) ==
  /\ rotation[r].write # None
  /\ \/ /\ At(r, "staging")
        /\ GoWriting(r, "clearing", Cleared(registry[r]))
     \/ /\ At(r, "activating")
        /\ rotation' = [rotation EXCEPT ![r] = [@ EXCEPT !.pc = "rollback", !.write = None]]
        /\ UNCHANGED registry
     \/ /\ At(r, "clearing")
        /\ End(r) /\ UNCHANGED registry
  /\ Mishap(At(r, "activating"))
  /\ UNCHANGED <<table, refresh, beat, admin, agent, issued, restarts>>

\* installCertificate: done, refused, or done with the answer lost.
Install(r) ==
  /\ At(r, "installing")
  /\ \/ /\ Reaches(r)
        /\ agent' = [cert |-> rotation[r].bundle, before |-> agent.cert, up |-> FALSE]
        /\ \/ /\ rotation' = [rotation EXCEPT ![r] = [@ EXCEPT !.pc = "reloading", !.installed = TRUE]]
              /\ UNCHANGED <<registry, mishap>>
           \/ Fail(r) /\ Mishap(TRUE)
     \/ Fail(r) /\ UNCHANGED <<agent, mishap>>
  /\ UNCHANGED <<table, refresh, beat, admin, issued, restarts>>

AgentReloads ==
  /\ ~agent.up
  /\ agent' = [agent EXCEPT !.up = TRUE]
  /\ UNCHANGED <<table, registry, refresh, beat, admin, rotation, issued, mishap, restarts>>

\* waitForReloadedAgent, then activatePendingCertificate; or the deadline.
Reloaded(r) ==
  /\ At(r, "reloading")
  /\ \/ /\ Reaches(r) /\ registry[r].pending # None
        /\ GoWriting(r, "activating", Activated(registry[r]))
     \/ Fail(r)
  /\ UNCHANGED <<table, refresh, beat, admin, agent, issued, mishap, restarts>>

\* Seeded fault: a rollback that is not confirmed clears the new certificate.
Rollback_Clears(r) ==
  /\ At(r, "rollback")
  /\ \/ Reaches(r) /\ agent' = [agent EXCEPT !.cert = agent.before]
     \/ UNCHANGED agent
  /\ GoWriting(r, "clearing", Cleared(registry[r]))
  /\ UNCHANGED <<table, refresh, beat, admin, issued, mishap, restarts>>

\* rollbackCertificate: done, done without an answer, or not done.  Only a
\* confirmed one clears the pending certificate; else both stay accepted.
Rollback(r) ==
  /\ At(r, "rollback")
  /\ \/ /\ Reaches(r)
        /\ agent' = [agent EXCEPT !.cert = agent.before]
        /\ \/ GoWriting(r, "clearing", Cleared(registry[r]))
           \/ End(r) /\ UNCHANGED registry
     \/ End(r) /\ UNCHANGED <<registry, agent>>
  /\ UNCHANGED <<table, refresh, beat, admin, issued, mishap, restarts>>

\* The process stops in the middle of everything and loads the table.
Restart(r) ==
  /\ restarts < MaxRestarts
  /\ restarts' = restarts + 1
  /\ Change(r, table)
  /\ rotation' = [rotation EXCEPT ![r] = Idle]
  /\ refresh' = [refresh EXCEPT ![r] = None]
  /\ beat' = [beat EXCEPT ![r] = None]
  /\ admin' = [admin EXCEPT ![r] = None]
  /\ UNCHANGED <<table, agent, issued, mishap>>

First == [active |-> 0, pending |-> None, revoked |-> FALSE]

Init ==
  /\ table = First
  /\ registry = [r \in Replicas |-> First]
  /\ refresh = [r \in Replicas |-> None]
  /\ beat = [r \in Replicas |-> None]
  /\ admin = [r \in Replicas |-> None]
  /\ rotation = [r \in Replicas |-> Idle]
  /\ agent = [cert |-> 0, before |-> 0, up |-> TRUE]
  /\ issued = 0 /\ mishap = FALSE /\ restarts = 0

Registry(r) ==
  Heartbeat(r) \/ HeartbeatLands(r) \/ RefreshReads(r) \/ RefreshInstalls(r)
Admin(r) == Activate(r) \/ Revoke(r) \/ AdminLands(r)
Rotation(r) ==
  \/ Rotate(r) \/ Preflight(r) \/ WriteLands(r) \/ WriteFails(r)
  \/ Install(r) \/ Reloaded(r) \/ Rollback(r)

Next ==
  \/ \E r \in Replicas : Registry(r) \/ Admin(r) \/ Rotation(r) \/ Restart(r)
  \/ AgentReloads

Spec == Init /\ [][Next]_vars

-----------------------------------------------------------------------------
(* Properties. *)

TypeOK ==
  /\ table \in Entry
  /\ registry \in [Replicas -> Entry]
  /\ refresh \in [Replicas -> Entry \cup {None}]
  /\ beat \in [Replicas -> Entry \cup {None}]
  /\ admin \in [Replicas -> Entry \cup {None}]
  /\ rotation \in [Replicas -> [pc : Points, bundle : Cert \cup {None},
                             write : Entry \cup {None}, installed : BOOLEAN]]
  /\ agent \in [cert : Cert, before : Cert, up : BOOLEAN]
  /\ issued \in Cert /\ restarts \in 0 .. MaxRestarts
  /\ mishap \in BOOLEAN

\* A rotation never locks the node out: whatever fails and wherever the
\* process stops, the stored row accepts the certificate the agent presents,
\* unless it was revoked or a mishap came between: an older entry written
\* over the row or the memory, an activation by hand, an activation that the
\* database refused, an installation whose answer was lost.
NodeNotLockedOut ==
  ~mishap /\ ~table.revoked => agent.cert \in Accepted(table)

\* "Certificate metadata and revocation state remain in the shared agents
\* table": only an activation takes a revocation back.
RevocationKept ==
  [][table.revoked /\ ~table'.revoked =>
       table'.active # table.active]_vars

=============================================================================
