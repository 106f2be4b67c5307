-------------------------- MODULE SecurityMaterial ----------------------------
(***************************************************************************)
(* The keys of the panel: the secret of its sessions and the certificates  *)
(* of its agents.  Over JSON files the one process keeps them in a file of *)
(* its own.  Over a database the first replica seeds the row primary of    *)
(* cluster_security, under an advisory lock that it asks for after its     *)
(* snapshot was taken, and the others use that row; each replica copies    *)
(* the certificates to four files, one rename at a time, and may die in    *)
(* between.                                                                *)
(***************************************************************************)
EXTENDS Naturals

CONSTANTS
  Replicas,    \* API processes
  Single,      \* the one that runs over JSON files
  Files,       \* certificate files
  None,        \* undefined
  MaxStarts    \* bound on starts, which number the generated keys

\* Keys are numbered: 0 is what a release without the document has left.
Ids == 0..MaxStarts
Material == [secret : Ids, certificates : Ids]

MaterialAssumption ==
  /\ Single \in Replicas /\ Files # {} /\ MaxStarts \in Nat
  /\ None \notin Ids \cup Material

VARIABLES
  shared,     \* is the panel configured for a database?
  row,        \* the row primary of cluster_security
  lock,       \* who holds its advisory lock
  document,   \* security-material.json of the replica Single
  files,      \* the certificate files of each replica
  replica,    \* the replicas: where they are in load(), and what they hold
  settled,    \* history: the first keys used under this configuration
  starts

vars == <<shared, row, lock, document, files, replica, settled, starts>>

Down == [pc |-> "down", number |-> 0, candidate |-> None, snapshot |-> None, material |-> None]
At(r, pc) == replica[r].pc = pc
Locked == lock # None

\* load(): database.init(), then loadShared() or the file.
Start(r) ==
  /\ At(r, "down") /\ (shared \/ r = Single)
  /\ starts < MaxStarts /\ starts' = starts + 1
  /\ replica' = [replica EXCEPT ![r] = [@ EXCEPT !.pc = IF shared THEN "reading" ELSE "choosing", !.number = starts']]
  /\ UNCHANGED <<shared, row, lock, document, files, settled>>

LoadShared(r) ==
  /\ At(r, "reading")
  /\ replica' = [replica EXCEPT ![r] =
       IF row = None THEN [@ EXCEPT !.pc = "choosing"] ELSE [@ EXCEPT !.pc = "copying", !.material = row]]
  /\ UNCHANGED <<shared, row, lock, document, files, settled, starts>>

Present(r) == {f \in Files : files[r][f] # None}

\* loadLocalDocument() or localCandidate(): the document, or the certificates
\* on disk and a new secret, or all new.
Candidates(r) ==
  IF r = Single /\ document # None THEN {document}
  ELSE IF Present(r) = {} THEN {[secret |-> replica[r].number, certificates |-> replica[r].number]}
  ELSE {[secret |-> replica[r].number, certificates |-> files[r][f]] : f \in Files}

\* An incomplete set of files ends the start.
Incomplete(r) == (r = Single => document = None) /\ Present(r) \notin {{}, Files}

Choose(r) ==
  /\ At(r, "choosing") /\ ~Incomplete(r)
  /\ \E material \in Candidates(r) :
       IF shared
       THEN /\ replica' = [replica EXCEPT ![r] = [@ EXCEPT !.pc = "beginning", !.candidate = material]]
            /\ UNCHANGED document
       ELSE /\ replica' = [replica EXCEPT ![r] = [@ EXCEPT !.pc = "copying", !.material = material]]
            /\ document' = material
  /\ UNCHANGED <<shared, row, lock, files, settled, starts>>

Refuse(r) ==
  /\ At(r, "choosing") /\ Incomplete(r)
  /\ replica' = [replica EXCEPT ![r] = Down]
  /\ UNCHANGED <<shared, row, lock, document, files, settled, starts>>

-----------------------------------------------------------------------------
(* loadOrCreateShared(). *)

\* BEGIN and the first statement, which asks for the lock: the snapshot of the
\* serializable transaction is that of this moment.
Begin(r) ==
  /\ At(r, "beginning")
  /\ replica' = [replica EXCEPT ![r] = [@ EXCEPT !.pc = "locking", !.snapshot = row]]
  /\ UNCHANGED <<shared, row, lock, document, files, settled, starts>>

AdvisoryLock(r) ==
  /\ At(r, "locking") /\ ~Locked
  /\ lock' = r
  /\ replica' = [replica EXCEPT ![r].pc = "locked"]
  /\ UNCHANGED <<shared, row, document, files, settled, starts>>

\* The row of the snapshot; or an INSERT, which a row that is newer than the
\* snapshot refuses, as a unique violation or, with a retry, as a conflict.
Seed(r) ==
  LET found == replica[r].snapshot
      mine == replica[r].candidate
  IN
  /\ At(r, "locked")
  /\ lock' = None
  /\ \/ /\ found # None
        /\ replica' = [replica EXCEPT ![r] = [@ EXCEPT !.pc = "copying", !.material = found]]
        /\ UNCHANGED row
     \/ /\ found = None /\ row = None
        /\ row' = mine
        /\ replica' = [replica EXCEPT ![r] = [@ EXCEPT !.pc = "copying", !.material = mine]]
     \/ /\ found = None /\ row # None
        /\ \E pc \in {"violated", "beginning"} : replica' = [replica EXCEPT ![r].pc = pc]
        /\ UNCHANGED row
  /\ UNCHANGED <<shared, document, files, settled, starts>>

\* Seeded fault: after a unique violation a replica goes on with its own keys.
ReadAgain_Own(r) ==
  /\ At(r, "violated")
  /\ replica' = [replica EXCEPT ![r] = [@ EXCEPT !.pc = "copying", !.material = replica[r].candidate]]
  /\ UNCHANGED <<shared, row, lock, document, files, settled, starts>>

ReadAgain(r) ==
  /\ At(r, "violated")
  /\ replica' = [replica EXCEPT ![r] = [@ EXCEPT !.pc = "copying", !.material = row]]
  /\ UNCHANGED <<shared, row, lock, document, files, settled, starts>>

-----------------------------------------------------------------------------
\* materializeCertificates(): writeSecret() of one file after the other.
WriteSecret(r, f) ==
  /\ At(r, "copying")
  /\ files[r][f] # replica[r].material.certificates
  /\ files' = [files EXCEPT ![r][f] = replica[r].material.certificates]
  /\ UNCHANGED <<shared, row, lock, document, replica, settled, starts>>

\* The panel serves with its keys.
Serve(r) ==
  /\ At(r, "copying") /\ \A f \in Files : files[r][f] = replica[r].material.certificates
  /\ replica' = [replica EXCEPT ![r] = [Down EXCEPT !.pc = "up", !.material = replica[r].material]]
  /\ settled' = IF settled = None THEN replica[r].material ELSE settled
  /\ UNCHANGED <<shared, row, lock, document, files, starts>>

\* A replica dies, anywhere; its transaction, if any, is undone.
Crash(r) ==
  /\ ~At(r, "down")
  /\ replica' = [replica EXCEPT ![r] = Down]
  /\ lock' = IF lock = r THEN None ELSE lock
  /\ UNCHANGED <<shared, row, document, files, settled, starts>>

\* The panel is given a database; its process has stopped.
Migrate ==
  /\ ~shared /\ At(Single, "down")
  /\ shared' = TRUE
  /\ settled' = None
  /\ UNCHANGED <<row, lock, document, files, replica, starts>>

-----------------------------------------------------------------------------
Init ==
  /\ shared \in BOOLEAN
  /\ row = None /\ lock = None /\ document = None
  /\ files \in [Replicas -> {[f \in Files |-> None], [f \in Files |-> 0]}
                  \cup {[f \in Files |-> IF f = g THEN 0 ELSE None] : g \in Files}]
  /\ replica = [r \in Replicas |-> Down]
  /\ settled = None
  /\ starts = 0

Next ==
  \/ \E r \in Replicas :
       \/ Start(r) \/ LoadShared(r) \/ Choose(r) \/ Refuse(r)
       \/ Begin(r) \/ AdvisoryLock(r) \/ Seed(r) \/ ReadAgain(r)
       \/ \E f \in Files : WriteSecret(r, f)
       \/ Serve(r) \/ Crash(r)
  \/ Migrate

Spec == Init /\ [][Next]_vars

-----------------------------------------------------------------------------
(* Properties. *)

TypeOK ==
  /\ row \in Material \cup {None} /\ document \in Material \cup {None}
  /\ lock \in Replicas \cup {None}
  /\ files \in [Replicas -> [Files -> Ids \cup {None}]]
  /\ \A r \in Replicas : replica[r].material \in Material \cup {None}

\* Whatever starts, dies and races, every replica serves with the keys that the
\* first one served with, and its files are the certificates among them: no
\* restart ends the sessions or the trust of the agents.
OneMaterial ==
  \A r \in Replicas : At(r, "up") =>
    /\ replica[r].material = settled
    /\ \A f \in Files : files[r][f] = settled.certificates
===============================================================================
