-------------------------- MODULE PanelServicesProofs --------------------------
(***************************************************************************)
(* The services of the panel, proved for every value of the constants: the *)
(* keys of the cluster, the enrolment of agents, eggs, webhooks, settings, *)
(* accounts, access to servers, sign-in and the support desk.              *)
(* One section for each: an invariant of the component, that its steps     *)
(* keep it, and the theorem, about every behaviour of the panel.           *)
(***************************************************************************)
EXTENDS PanelServices, FiniteSetTheorems, Integers, SequenceTheorems, WellFoundedInduction, TLAPS

-----------------------------------------------------------------------------
(* A step of the panel is a step of the part that moves, or leaves it alone. *)

LEMMA PartMoves ==
  ASSUME [PanelNext]_panelVars
  PROVE  /\ part' = part
         /\ part = "accounts" => [Directory!Next]_(Directory!vars)
         /\ part = "webhooks" => [Webhooks!Next]_(Webhooks!vars)
         /\ part = "signin" => [SignIns!Next]_(SignIns!vars)
         /\ part = "support" => [Desk!Next]_(Desk!vars)
         /\ part = "eggs" => [Catalog!Next]_(Catalog!vars)
         /\ part = "settings" => [Site!Next]_(Site!vars)
         /\ part = "tokens" => [Enrolment!Next]_(Enrolment!vars)
         /\ part = "access" => [Access!Next]_(Access!vars)
<1>1. part' = part
  BY DEF PanelNext, panelVars, Seeding, Administering, Dispatching, SigningIn, Supporting,
     Cataloguing, Configuring, Enrolling, Sharing
<1>2. part = "accounts" => [Directory!Next]_(Directory!vars)
  BY DEF PanelNext, panelVars, Seeding, Administering, Dispatching, SigningIn, Supporting,
     Cataloguing, Configuring, Enrolling, Sharing, accountVars, Directory!vars,
       Directory!history, Directory!bounds
<1>3. part = "webhooks" => [Webhooks!Next]_(Webhooks!vars)
  BY DEF PanelNext, panelVars, Seeding, Administering, Dispatching, SigningIn, Supporting,
     Cataloguing, Configuring, Enrolling, Sharing, webhookVars, Webhooks!vars, Webhooks!history
<1>4. part = "signin" => [SignIns!Next]_(SignIns!vars)
  BY DEF PanelNext, panelVars, Seeding, Administering, Dispatching, SigningIn, Supporting,
     Cataloguing, Configuring, Enrolling, Sharing, signInVars, SignIns!vars
<1>5. part = "support" => [Desk!Next]_(Desk!vars)
  BY DEF PanelNext, panelVars, Seeding, Administering, Dispatching, SigningIn, Supporting,
     Cataloguing, Configuring, Enrolling, Sharing, supportVars, Desk!vars
<1>6. part = "eggs" => [Catalog!Next]_(Catalog!vars)
  BY DEF PanelNext, panelVars, Seeding, Administering, Dispatching, SigningIn, Supporting,
     Cataloguing, Configuring, Enrolling, Sharing, eggVars, Catalog!vars
<1>7. part = "settings" => [Site!Next]_(Site!vars)
  BY DEF PanelNext, panelVars, Seeding, Administering, Dispatching, SigningIn, Supporting,
     Cataloguing, Configuring, Enrolling, Sharing, settingVars, Site!vars
<1>8. part = "tokens" => [Enrolment!Next]_(Enrolment!vars)
  BY DEF PanelNext, panelVars, Seeding, Administering, Dispatching, SigningIn, Supporting,
     Cataloguing, Configuring, Enrolling, Sharing, tokenVars, Enrolment!vars
<1>9. part = "access" => [Access!Next]_(Access!vars)
  BY DEF PanelNext, panelVars, Seeding, Administering, Dispatching, SigningIn, Supporting,
     Cataloguing, Configuring, Enrolling, Sharing, accessVars, Access!vars
<1>. QED BY <1>1, <1>2, <1>3, <1>4, <1>5, <1>6, <1>7, <1>8, <1>9

-----------------------------------------------------------------------------
(* The cluster's keys: OneMaterial.                                        *)

Points == {"down", "reading", "choosing", "beginning", "locking", "locked", "violated",
  "copying", "up"}
Loading == [pc : Points, number : Ids, candidate : Material \cup {None},
            snapshot : Material \cup {None}, material : Material \cup {None}]

StoreOK ==
  /\ shared \in BOOLEAN /\ starts \in Ids
  /\ row \in Material \cup {None} /\ document \in Material \cup {None}
  /\ files \in [Replicas -> [Files -> Ids \cup {None}]]
  /\ replica \in [Replicas -> Loading]

\* What the replicas of this configuration load.
Source == IF shared THEN row ELSE document

\* A replica that has its keys has those of the source; its files follow before
\* it serves.  Between snapshot and INSERT it has its own candidate at hand.
ReplicaOK(r) ==
  /\ replica[r].pc \in {"copying", "up"} => Source # None /\ replica[r].material = Source
  /\ replica[r].pc = "up" => \A f \in Files : files[r][f] = replica[r].material.certificates
  /\ replica[r].pc \in {"beginning", "locking", "locked", "violated"}
     => replica[r].candidate # None
  /\ replica[r].pc \in {"locking", "locked", "violated"} /\ replica[r].snapshot # None
     => replica[r].snapshot = row
  /\ replica[r].pc = "violated" => row # None
  /\ ~shared => replica[r].pc \in (IF r = Single THEN {"down", "choosing", "copying",
                                   "up"} ELSE {"down"})

\* Nobody has served, or the keys they served with are those of the source.
SettledOK == settled # None => Source # None /\ settled = Source

KeysOK ==
  /\ ~shared => row = None
  /\ SettledOK
  /\ \A r \in Replicas : replica[r].pc = "up" => settled # None

MaterialInv == StoreOK /\ KeysOK /\ \A r \in Replicas : ReplicaOK(r)

-----------------------------------------------------------------------------
\* A replica is all that a step changes, and it neither gets keys nor serves.
LEMMA OneReplica ==
  ASSUME MaterialInv, NEW r \in Replicas, NEW value \in Loading,
         replica' = [replica EXCEPT ![r] = value],
         UNCHANGED <<shared, row, document, files, settled>>, starts' \in Ids,
         value.pc = "up" => settled # None,
         ReplicaOK(r)'
  PROVE  MaterialInv'
<1>1. /\ replica' \in [Replicas -> Loading]
      /\ \A q \in Replicas : replica'[q] = IF q = r THEN value ELSE replica[q]
  BY DEF MaterialInv, StoreOK
<1>2. StoreOK'
  BY <1>1 DEF MaterialInv, StoreOK
<1>3. KeysOK'
  BY <1>1 DEF MaterialInv, KeysOK, SettledOK, Source
<1>4. ASSUME NEW q \in Replicas PROVE ReplicaOK(q)'
  <2>1. CASE q = r
    BY <2>1
  <2>2. CASE q # r
    BY <1>1, <2>2 DEF MaterialInv, ReplicaOK, Source
  <2>. QED BY <2>1, <2>2
<1>. QED BY <1>2, <1>3, <1>4 DEF MaterialInv

LEMMA DownOK == ASSUME MaterialAssumption PROVE Down \in Loading /\ Down.pc = "down"
BY DEF Down, Loading, Points, MaterialAssumption, Ids

\* The candidates are keys.
LEMMA CandidatesType ==
  ASSUME MaterialAssumption, MaterialInv, NEW r \in Replicas, ~Incomplete(r),
         NEW material \in Candidates(r)
  PROVE  material \in Material /\ material # None
<1>1. /\ document \in Material \cup {None} /\ replica[r].number \in Ids
      /\ files[r] \in [Files -> Ids \cup {None}]
  BY DEF MaterialInv, StoreOK, Loading
<1>2. CASE r = Single /\ document # None
  BY <1>1, <1>2 DEF Candidates, MaterialAssumption
<1>3. CASE ~(r = Single /\ document # None) /\ Present(r) = {}
  BY <1>1, <1>3 DEF Candidates, Material, MaterialAssumption
<1>4. CASE ~(r = Single /\ document # None) /\ Present(r) # {}
  <2>1. Present(r) = Files
    BY <1>4 DEF Incomplete
  <2>2. \A f \in Files : files[r][f] \in Ids
    BY <1>1, <2>1 DEF Present
  <2>. QED BY <1>1, <1>4, <2>2 DEF Candidates, Material, MaterialAssumption
<1>. QED BY <1>2, <1>3, <1>4

LEMMA StartKeeps ==
  ASSUME MaterialAssumption, MaterialInv, NEW r \in Replicas, Start(r)
  PROVE  MaterialInv'
<1>. DEFINE value == [replica[r] EXCEPT !.pc = IF shared THEN "reading" ELSE "choosing",
                      !.number = starts']
<1>1. replica[r] \in Loading /\ starts' \in Ids
  BY DEF MaterialInv, StoreOK, Start, Ids, MaterialAssumption
<1>2. value \in Loading /\ value.pc # "up"
  BY <1>1 DEF Loading, Points
<1>3. replica' = [replica EXCEPT ![r] = value]
  BY DEF Start
<1>4. ReplicaOK(r)'
  BY <1>3 DEF MaterialInv, StoreOK, ReplicaOK, Start, Source
<1>. QED BY <1>1, <1>2, <1>3, <1>4, OneReplica DEF Start

LEMMA LoadSharedKeeps ==
  ASSUME MaterialAssumption, MaterialInv, NEW r \in Replicas, LoadShared(r)
  PROVE  MaterialInv'
<1>. DEFINE value == IF row = None THEN [replica[r] EXCEPT !.pc = "choosing"]
                     ELSE [replica[r] EXCEPT !.pc = "copying", !.material = row]
<1>1. replica[r] \in Loading /\ row \in Material \cup {None} /\ starts' \in Ids
  BY DEF MaterialInv, StoreOK, LoadShared
<1>2. value \in Loading /\ value.pc # "up"
  BY <1>1 DEF Loading, Points
<1>3. replica' = [replica EXCEPT ![r] = value]
  BY DEF LoadShared
<1>4. shared
  BY DEF MaterialInv, StoreOK, ReplicaOK, LoadShared, At
<1>5. ReplicaOK(r)'
  BY <1>1, <1>3, <1>4 DEF MaterialInv, StoreOK, ReplicaOK, LoadShared, Source, Loading
<1>. QED BY <1>1, <1>2, <1>3, <1>5, OneReplica DEF LoadShared

LEMMA ChooseKeeps ==
  ASSUME MaterialAssumption, MaterialInv, NEW r \in Replicas, Choose(r)
  PROVE  MaterialInv'
<1>1. PICK material \in Candidates(r) :
        IF shared
        THEN /\ replica' = [replica EXCEPT ![r] = [@ EXCEPT !.pc = "beginning",
                                                   !.candidate = material]]
             /\ UNCHANGED document
        ELSE /\ replica' = [replica EXCEPT ![r] = [@ EXCEPT !.pc = "copying",
                                                   !.material = material]]
             /\ document' = material
  BY DEF Choose
<1>2. material \in Material /\ material # None
  BY CandidatesType DEF Choose
<1>3. /\ replica[r] \in Loading /\ starts' \in Ids /\ replica[r].pc = "choosing"
      /\ replica \in [Replicas -> Loading]
      /\ UNCHANGED <<shared, row, lock, files, settled, starts>>
  BY DEF MaterialInv, StoreOK, Choose, At
<1>4. CASE shared
  <2>. DEFINE value == [replica[r] EXCEPT !.pc = "beginning", !.candidate = material]
  <2>1. value \in Loading /\ value.pc # "up"
    BY <1>2, <1>3 DEF Loading, Points
  <2>2. replica' = [replica EXCEPT ![r] = value]
    BY <1>1, <1>4
  <2>3. ReplicaOK(r)'
    BY <1>2, <1>3, <1>4, <2>2 DEF ReplicaOK, Source, Loading
  <2>. QED BY <1>1, <1>3, <1>4, <2>1, <2>2, <2>3, OneReplica
<1>5. CASE ~shared
  \* Single chooses; it has no keys yet and nobody else is up, so a document
  \* that is there is chosen again and one that is not has settled nothing.
  <2>. DEFINE value == [replica[r] EXCEPT !.pc = "copying", !.material = material]
  <2>1. value \in Loading
    BY <1>2, <1>3 DEF Loading, Points
  <2>2. replica' = [replica EXCEPT ![r] = value] /\ document' = material
    BY <1>1, <1>5
  <2>3. r = Single /\ \A q \in Replicas \ {r} : replica[q].pc = "down"
    BY <1>3, <1>5 DEF MaterialInv, ReplicaOK
  <2>4. document # None => material = document
    BY <2>3 DEF Candidates
  <2>5. /\ replica' \in [Replicas -> Loading]
        /\ \A q \in Replicas : replica'[q] = IF q = r THEN value ELSE replica[q]
    BY <1>3, <2>1, <2>2
  <2>6. StoreOK'
    BY <1>2, <1>3, <2>2, <2>5 DEF MaterialInv, StoreOK
  <2>7. value.pc = "copying" /\ value.material = material
    BY <1>3 DEF Loading
  <2>8. KeysOK'
    <3>1. SettledOK'
      BY <1>3, <1>5, <2>2, <2>4 DEF MaterialInv, KeysOK, SettledOK, Source
    <3>2. \A q \in Replicas : replica'[q].pc = "up" => settled # None
      BY <2>5, <2>7 DEF MaterialInv, KeysOK
    <3>. QED BY <1>3, <3>1, <3>2 DEF MaterialInv, KeysOK
  <2>9. ASSUME NEW q \in Replicas PROVE ReplicaOK(q)'
    <3>1. CASE q = r
      BY <1>2, <1>3, <1>5, <2>2, <2>3, <2>5, <2>7, <3>1 DEF ReplicaOK, Source
    <3>2. CASE q # r
      BY <1>3, <1>5, <2>3, <2>5, <3>2 DEF ReplicaOK, Source
    <3>. QED BY <3>1, <3>2
  <2>. QED BY <2>6, <2>8, <2>9 DEF MaterialInv
<1>. QED BY <1>4, <1>5

LEMMA BeginKeeps ==
  ASSUME MaterialAssumption, MaterialInv, NEW r \in Replicas, Begin(r)
  PROVE  MaterialInv'
<1>. DEFINE value == [replica[r] EXCEPT !.pc = "locking", !.snapshot = row]
<1>1. replica[r] \in Loading /\ row \in Material \cup {None} /\ starts' \in Ids
  BY DEF MaterialInv, StoreOK, Begin
<1>2. value \in Loading /\ value.pc # "up"
  BY <1>1 DEF Loading, Points
<1>3. replica' = [replica EXCEPT ![r] = value]
  BY DEF Begin
<1>4. ReplicaOK(r)'
  BY <1>1, <1>3 DEF MaterialInv, StoreOK, ReplicaOK, Begin, At, Source, Loading
<1>. QED BY <1>1, <1>2, <1>3, <1>4, OneReplica DEF Begin

LEMMA LockKeeps ==
  ASSUME MaterialAssumption, MaterialInv, NEW r \in Replicas, AdvisoryLock(r)
  PROVE  MaterialInv'
<1>. DEFINE value == [replica[r] EXCEPT !.pc = "locked"]
<1>1. replica[r] \in Loading /\ starts' \in Ids
  BY DEF MaterialInv, StoreOK, AdvisoryLock
<1>2. value \in Loading /\ value.pc # "up"
  BY <1>1 DEF Loading, Points
<1>3. replica' = [replica EXCEPT ![r] = value]
  BY DEF AdvisoryLock
<1>4. ReplicaOK(r)'
  BY <1>1, <1>3 DEF MaterialInv, StoreOK, ReplicaOK, AdvisoryLock, At, Source, Loading
<1>. QED BY <1>1, <1>2, <1>3, <1>4, OneReplica DEF AdvisoryLock

\* The INSERT goes through only while there is no row, and then nobody has
\* keys yet: that is what makes the first ones the only ones.
LEMMA SeedKeeps ==
  ASSUME MaterialAssumption, MaterialInv, NEW r \in Replicas, Seed(r)
  PROVE  MaterialInv'
<1>. DEFINE found == replica[r].snapshot
            mine == replica[r].candidate
<1>1. /\ replica[r] \in Loading /\ replica[r].pc = "locked" /\ starts' \in Ids
      /\ replica \in [Replicas -> Loading]
      /\ UNCHANGED <<shared, document, files, settled, starts>>
  BY DEF MaterialInv, StoreOK, Seed, At
<1>2. /\ shared /\ mine # None /\ (found # None => found = row)
      /\ mine \in Material /\ found \in Material \cup {None}
  BY <1>1 DEF MaterialInv, StoreOK, ReplicaOK, Loading
<1>3. CASE found # None /\ replica' = [replica EXCEPT ![r] = [@ EXCEPT !.pc = "copying",
           !.material = found]] /\ UNCHANGED row
  <2>. DEFINE value == [replica[r] EXCEPT !.pc = "copying", !.material = found]
  <2>1. value \in Loading /\ value.pc # "up"
    BY <1>1, <1>2 DEF Loading, Points
  <2>2. replica' = [replica EXCEPT ![r] = value]
    BY <1>3
  <2>3. ReplicaOK(r)'
    BY <1>1, <1>2, <1>3, <2>2 DEF ReplicaOK, Source, Loading
  <2>. QED BY <1>1, <1>3, <2>1, <2>2, <2>3, OneReplica
<1>4. CASE /\ found = None /\ row = None /\ row' = mine
           /\ replica' = [replica EXCEPT ![r] = [@ EXCEPT !.pc = "copying", !.material = mine]]
  <2>. DEFINE value == [replica[r] EXCEPT !.pc = "copying", !.material = mine]
  <2>1. value \in Loading /\ value.pc = "copying" /\ value.material = mine
    BY <1>1, <1>2 DEF Loading, Points
  <2>2. /\ replica' \in [Replicas -> Loading]
        /\ \A q \in Replicas : replica'[q] = IF q = r THEN value ELSE replica[q]
    BY <1>1, <1>4, <2>1
  <2>3. settled = None /\ \A q \in Replicas : replica[q].pc \notin {"copying", "up", "violated"}
    BY <1>2, <1>4 DEF MaterialInv, KeysOK, SettledOK, ReplicaOK, Source
  <2>4. StoreOK'
    BY <1>1, <1>2, <1>4, <2>2 DEF MaterialInv, StoreOK
  <2>5. KeysOK'
    BY <1>1, <1>2, <2>1, <2>2, <2>3 DEF KeysOK, SettledOK
  <2>6. ASSUME NEW q \in Replicas PROVE ReplicaOK(q)'
    <3>1. CASE q = r
      BY <1>1, <1>2, <1>4, <2>1, <2>2, <3>1 DEF ReplicaOK, Source
    <3>2. CASE q # r
      BY <1>1, <1>2, <1>4, <2>2, <2>3, <3>2 DEF MaterialInv, ReplicaOK, Source
    <3>. QED BY <3>1, <3>2
  <2>. QED BY <2>4, <2>5, <2>6 DEF MaterialInv
<1>5. CASE /\ found = None /\ row # None /\ UNCHANGED row
           /\ \E pc \in {"violated", "beginning"} : replica' = [replica EXCEPT ![r].pc = pc]
  <2>1. PICK pc \in {"violated", "beginning"} : replica' = [replica EXCEPT ![r].pc = pc]
    BY <1>5
  <2>. DEFINE value == [replica[r] EXCEPT !.pc = pc]
  <2>2. value \in Loading /\ value.pc # "up"
    BY <1>1 DEF Loading, Points
  <2>3. replica' = [replica EXCEPT ![r] = value]
    BY <2>1
  <2>4. ReplicaOK(r)'
    BY <1>1, <1>2, <1>5, <2>3 DEF ReplicaOK, Source, Loading
  <2>. QED BY <1>1, <1>5, <2>2, <2>3, <2>4, OneReplica
<1>. QED BY <1>3, <1>4, <1>5 DEF Seed

LEMMA ReadAgainKeeps ==
  ASSUME MaterialAssumption, MaterialInv, NEW r \in Replicas, ReadAgain(r)
  PROVE  MaterialInv'
<1>. DEFINE value == [replica[r] EXCEPT !.pc = "copying", !.material = row]
<1>1. replica[r] \in Loading /\ row \in Material \cup {None} /\ starts' \in Ids
  BY DEF MaterialInv, StoreOK, ReadAgain
<1>2. value \in Loading /\ value.pc # "up"
  BY <1>1 DEF Loading, Points
<1>3. replica' = [replica EXCEPT ![r] = value]
  BY DEF ReadAgain
<1>4. shared /\ row # None
  BY DEF MaterialInv, StoreOK, ReplicaOK, ReadAgain, At
<1>5. ReplicaOK(r)'
  BY <1>1, <1>3, <1>4 DEF MaterialInv, StoreOK, ReplicaOK, ReadAgain, Source, Loading
<1>. QED BY <1>1, <1>2, <1>3, <1>5, OneReplica DEF ReadAgain

LEMMA WriteSecretKeeps ==
  ASSUME MaterialAssumption, MaterialInv, NEW r \in Replicas, NEW f \in Files, WriteSecret(r, f)
  PROVE  MaterialInv'
<1>1. /\ replica[r].material \in Material /\ replica[r].pc = "copying"
      /\ UNCHANGED <<shared, row, lock, document, replica, settled, starts>>
  BY DEF MaterialInv, StoreOK, ReplicaOK, Source, WriteSecret, At
<1>2. /\ files' \in [Replicas -> [Files -> Ids \cup {None}]]
      /\ \A q \in Replicas \ {r} : files'[q] = files[q]
  BY <1>1 DEF MaterialInv, StoreOK, WriteSecret, Material
<1>3. StoreOK'
  BY <1>1, <1>2 DEF MaterialInv, StoreOK
<1>4. KeysOK'
  BY <1>1 DEF MaterialInv, KeysOK, SettledOK, Source
<1>5. \A q \in Replicas : ReplicaOK(q)'
  BY <1>1, <1>2 DEF MaterialInv, ReplicaOK, Source
<1>. QED BY <1>3, <1>4, <1>5 DEF MaterialInv

LEMMA ServeKeeps ==
  ASSUME MaterialAssumption, MaterialInv, NEW r \in Replicas, Serve(r)
  PROVE  MaterialInv'
<1>. DEFINE value == [Down EXCEPT !.pc = "up", !.material = replica[r].material]
<1>1. /\ replica[r] \in Loading /\ replica[r].pc = "copying"
      /\ replica \in [Replicas -> Loading]
      /\ Source # None /\ replica[r].material = Source
      /\ UNCHANGED <<shared, row, lock, document, files, starts>>
      /\ \A f \in Files : files[r][f] = replica[r].material.certificates
  BY DEF MaterialInv, StoreOK, ReplicaOK, Serve, At
<1>2. value \in Loading /\ value.pc = "up" /\ value.material = Source
  BY <1>1, DownOK DEF Loading, Points, Down
<1>3. /\ replica' \in [Replicas -> Loading]
      /\ \A q \in Replicas : replica'[q] = IF q = r THEN value ELSE replica[q]
  BY <1>1, <1>2 DEF Serve
<1>4. Source' = Source /\ settled' = Source
  BY <1>1 DEF MaterialInv, KeysOK, SettledOK, Source, Serve
<1>5. StoreOK'
  BY <1>1, <1>3 DEF MaterialInv, StoreOK
<1>6. KeysOK'
  BY <1>1, <1>4 DEF MaterialInv, KeysOK, SettledOK
<1>7. ASSUME NEW q \in Replicas PROVE ReplicaOK(q)'
  <2>1. CASE q = r
    BY <1>1, <1>2, <1>3, <1>4, <2>1 DEF MaterialInv, ReplicaOK
  <2>2. CASE q # r
    BY <1>1, <1>3, <1>4, <2>2 DEF MaterialInv, ReplicaOK
  <2>. QED BY <2>1, <2>2
<1>. QED BY <1>5, <1>6, <1>7 DEF MaterialInv

\* Refusing to start and dying leave the replica down.
LEMMA GoesDownKeeps ==
  ASSUME MaterialAssumption, MaterialInv, NEW r \in Replicas, Refuse(r) \/ Crash(r)
  PROVE  MaterialInv'
<1>1. /\ replica' = [replica EXCEPT ![r] = Down] /\ starts' \in Ids
      /\ UNCHANGED <<shared, row, document, files, settled, starts>>
  BY DEF MaterialInv, StoreOK, Refuse, Crash
<1>2. ReplicaOK(r)'
  BY <1>1, DownOK DEF MaterialInv, StoreOK, ReplicaOK
<1>. QED BY <1>1, <1>2, DownOK, OneReplica

\* The panel is given a database while it is stopped: nothing is settled there.
LEMMA MigrateKeeps ==
  ASSUME MaterialAssumption, MaterialInv, Migrate
  PROVE  MaterialInv'
<1>1. /\ ~shared /\ shared' = TRUE /\ settled' = None
      /\ UNCHANGED <<row, lock, document, files, replica, starts>>
      /\ \A q \in Replicas : replica[q].pc = "down"
  BY DEF MaterialInv, ReplicaOK, Migrate, At
<1>. QED BY <1>1 DEF MaterialInv, StoreOK, KeysOK, SettledOK, ReplicaOK

LEMMA MaterialStep ==
  ASSUME MaterialAssumption, MaterialInv, [Next]_vars
  PROVE  MaterialInv'
<1>1. CASE UNCHANGED vars
  BY <1>1 DEF vars, MaterialInv, StoreOK, KeysOK, SettledOK, ReplicaOK, Source
<1>2. CASE Next
  BY <1>2, StartKeeps, LoadSharedKeeps, ChooseKeeps, GoesDownKeeps, BeginKeeps, LockKeeps,
     SeedKeeps, ReadAgainKeeps, WriteSecretKeeps, ServeKeeps, MigrateKeeps DEF Next
<1>. QED BY <1>1, <1>2

LEMMA MaterialInit == ASSUME MaterialAssumption, Init PROVE MaterialInv
<1>1. 0 \in Ids
  BY DEF Ids, MaterialAssumption
<1>2. files \in [Replicas -> [Files -> Ids \cup {None}]]
  BY <1>1 DEF Init
<1>3. \A r \in Replicas : replica[r] = Down
  BY DEF Init
<1>. QED BY <1>1, <1>2, <1>3, DownOK DEF Init, MaterialInv, StoreOK, KeysOK, SettledOK, ReplicaOK

\* For any number of replicas, files and starts: whatever starts, dies and races,
\* every replica serves with the keys the first one served with, and its files
\* are the certificates among them (SecurityMaterialService.load).
THEOREM OneMaterialAlways ==
  ASSUME MaterialAssumption
  PROVE  Spec => []OneMaterial
<1>1. Init => MaterialInv
  BY MaterialInit
<1>2. MaterialInv /\ [Next]_vars => MaterialInv'
  BY MaterialStep
<1>3. MaterialInv => OneMaterial
  BY DEF MaterialInv, KeysOK, SettledOK, ReplicaOK, OneMaterial, At
<1>. QED BY <1>1, <1>2, <1>3, PTL DEF Spec

-----------------------------------------------------------------------------
(***************************************************************************)
(* Enrolment: a bootstrap token lets one request in, for any number of     *)
(* requests, tokens, failed saves and restarts.                            *)
(*                                                                         *)
(* A save replaces the whole table and waits for the saves before it, so   *)
(* the last one that waits says what the table will hold (Settled).  A     *)
(* token that somebody used is out of the memory, and out of every save    *)
(* that follows (Spent), unless its save failed or was lost.               *)
(***************************************************************************)

Waits == [pc : {"issue", "activate"}, token : Tokens]

TokenTypes ==
  /\ tokenMemory \subseteq tokenIssued /\ tokenTable \subseteq tokenIssued
     /\ tokenIssued \subseteq Tokens
  /\ tokenSaves \in Seq(SUBSET Tokens) /\ \A i \in 1 .. Len(tokenSaves) :
     tokenSaves[i] \subseteq tokenIssued
  /\ tokenExpired \subseteq tokenIssued /\ tokenActive \in Requests \cup {None}
  /\ tokenGiven \subseteq Requests \X tokenIssued
  /\ tokenRequest \in [Requests -> Waits \cup {None}]
  /\ \A q \in Requests : tokenRequest[q] # None => tokenRequest[q].token \in tokenIssued

\* Requests that a token let in, or is about to.
Waiting(q, t) == tokenRequest[q] # None /\ tokenRequest[q].token = t
LetIn(q, t) == <<q, t>> \in tokenGiven \/ Waiting(q, t)

\* What the table will be when every save that waits has landed.
Settled(t) ==
  IF tokenSaves = <<>> THEN t \in tokenTable <=> t \in tokenMemory
                       ELSE t \in tokenSaves[Len(tokenSaves)] <=> t \in tokenMemory

Spent(t) ==
  /\ \A q, p \in Requests : LetIn(q, t) /\ LetIn(p, t) => q = p
  /\ \A q \in Requests : LetIn(q, t) => t \notin tokenMemory

TokenInv == TokenTypes /\ \A t \in Tokens \ tokenExcused : Settled(t) /\ Spent(t)

LEMMA TokenInit == Enrolment!Init => TokenInv
BY DEF Enrolment!Init, TokenInv, TokenTypes, Settled, Spent, LetIn, Waiting

\* A save joins the queue behind the ones that wait.
LEMMA SaveSettles ==
  ASSUME TokenTypes, NEW S, S \subseteq tokenIssued', tokenIssued \subseteq tokenIssued',
         tokenIssued' \subseteq Tokens, Enrolment!Save(S)
  PROVE  /\ tokenSaves' \in Seq(SUBSET Tokens) /\ tokenSaves' # <<>>
            /\ tokenSaves'[Len(tokenSaves')] = S
         /\ \A i \in 1 .. Len(tokenSaves') : tokenSaves'[i] \subseteq tokenIssued'
<1>1. tokenSaves' = Append(tokenSaves, S) /\ S \in SUBSET Tokens
  BY DEF Enrolment!Save
<1>2. tokenSaves \in Seq(SUBSET Tokens) /\ \A i \in 1 .. Len(tokenSaves) :
      tokenSaves[i] \subseteq tokenIssued
  BY DEF TokenTypes
<1>3. /\ tokenSaves' \in Seq(SUBSET Tokens) /\ Len(tokenSaves') = Len(tokenSaves) + 1
         /\ Len(tokenSaves) \in Nat
      /\ tokenSaves'[Len(tokenSaves) + 1] = S
         /\ \A i \in 1 .. Len(tokenSaves) : tokenSaves'[i] = tokenSaves[i]
  BY <1>1, <1>2
<1>4. tokenSaves' # <<>>
  BY <1>3
<1>5. \A i \in 1 .. Len(tokenSaves') : i \in 1 .. Len(tokenSaves) \/ i = Len(tokenSaves) + 1
  BY <1>3
<1>. QED BY <1>2, <1>3, <1>4, <1>5

LEMMA InvGenerate ==
  ASSUME TokenInv, NEW t \in Tokens, Enrolment!Generate(t)
  PROVE  TokenInv'
<1>1. /\ t \notin tokenIssued /\ tokenIssued' = tokenIssued \cup {t}
         /\ tokenMemory' = tokenMemory \cup {t}
      /\ Enrolment!Save(tokenMemory')
      /\ UNCHANGED <<tokenTable, tokenExpired, tokenRequest, tokenActive, tokenGiven,
                     tokenExcused>>
  BY DEF Enrolment!Generate
<1>2. tokenMemory' \subseteq tokenIssued' /\ tokenIssued' \subseteq Tokens
  BY <1>1 DEF TokenInv, TokenTypes
<1>3. /\ tokenSaves' \in Seq(SUBSET Tokens) /\ tokenSaves' # <<>>
         /\ tokenSaves'[Len(tokenSaves')] = tokenMemory'
      /\ \A i \in 1 .. Len(tokenSaves') : tokenSaves'[i] \subseteq tokenIssued'
  BY <1>1, <1>2, SaveSettles DEF TokenInv
<1>4. TokenTypes'
  BY <1>1, <1>2, <1>3 DEF TokenInv, TokenTypes
<1>5. \A u \in Tokens : Settled(u)'
  BY <1>3 DEF Settled
<1>6. \A q \in Requests : ~LetIn(q, t)
  BY <1>1 DEF TokenInv, TokenTypes, LetIn, Waiting
<1>7. \A q \in Requests, u \in Tokens : LetIn(q, u)' <=> LetIn(q, u)
  BY <1>1 DEF LetIn, Waiting
<1>8. \A u \in Tokens \ tokenExcused' : Spent(u)'
  BY <1>1, <1>6, <1>7 DEF TokenInv, Spent
<1>. QED BY <1>4, <1>5, <1>8 DEF TokenInv

LEMMA InvProvision ==
  ASSUME TokenInv, NEW q \in Requests, NEW t \in Tokens, Enrolment!Provision(q, t)
  PROVE  TokenInv'
<1>1. /\ tokenRequest[q] = None
      /\ UNCHANGED <<tokenTable, tokenExpired, tokenIssued, tokenActive, tokenGiven,
                     tokenExcused>>
  BY DEF Enrolment!Provision
<1>2. CASE t \notin tokenMemory
  <2>1. UNCHANGED <<tokenMemory, tokenSaves, tokenRequest>>
    BY <1>2 DEF Enrolment!Provision
  <2>. QED BY <1>1, <2>1 DEF TokenInv, TokenTypes, Settled, Spent, LetIn, Waiting
<1>3. CASE t \in tokenMemory
  <2>. DEFINE waits == [pc |-> "issue", token |-> t]
  <2>1. /\ tokenMemory' = tokenMemory \ {t} /\ Enrolment!Save(tokenMemory')
        /\ tokenRequest' = tokenRequest \/ tokenRequest' = [tokenRequest EXCEPT ![q] = waits]
    BY <1>3 DEF Enrolment!Provision, Enrolment!Left
  <2>2. tokenMemory' \subseteq tokenIssued' /\ tokenIssued' \subseteq Tokens /\ t \in tokenIssued
    BY <1>1, <1>3, <2>1 DEF TokenInv, TokenTypes
  <2>3. /\ tokenSaves' \in Seq(SUBSET Tokens) /\ tokenSaves' # <<>>
           /\ tokenSaves'[Len(tokenSaves')] = tokenMemory'
        /\ \A i \in 1 .. Len(tokenSaves') : tokenSaves'[i] \subseteq tokenIssued'
    BY <1>1, <2>1, <2>2, SaveSettles DEF TokenInv
  <2>4. waits \in Waits /\ waits.token = t
    BY DEF Waits
  <2>. HIDE DEF waits
  <2>5. /\ tokenRequest' \in [Requests -> Waits \cup {None}]
        /\ \A p \in Requests : tokenRequest'[p] = tokenRequest[p]
           \/ (p = q /\ tokenRequest'[p].token = t)
    BY <2>1, <2>4 DEF TokenInv, TokenTypes
  <2>6. TokenTypes'
    BY <1>1, <2>2, <2>3, <2>5 DEF TokenInv, TokenTypes
  <2>7. \A u \in Tokens : Settled(u)'
    BY <2>3 DEF Settled
  <2>8. \A p \in Requests, u \in Tokens : LetIn(p, u)' => LetIn(p, u) \/ (p = q /\ u = t)
    BY <1>1, <2>5 DEF LetIn, Waiting
  <2>9. t \notin tokenExcused => \A p \in Requests : ~LetIn(p, t)
    BY <1>3 DEF TokenInv, Spent
  <2>10. ASSUME NEW u \in Tokens \ tokenExcused'
         PROVE  Spent(u)'
    <3>1. CASE u = t
      <4>1. \A p \in Requests : LetIn(p, u)' => p = q
        BY <1>1, <2>8, <2>9, <3>1
      <4>. QED BY <2>1, <3>1, <4>1 DEF Spent
    <3>2. CASE u # t
      <4>1. \A p \in Requests : LetIn(p, u)' => LetIn(p, u)
        BY <2>8, <3>2
      <4>. QED BY <1>1, <2>1, <4>1 DEF TokenInv, Spent
    <3>. QED BY <3>1, <3>2
  <2>. QED BY <2>6, <2>7, <2>10 DEF TokenInv
<1>. QED BY <1>2, <1>3

\* What moves requests alone and lets nobody in keeps the invariant.
LEMMA RequestsMove ==
  ASSUME TokenInv, UNCHANGED <<tokenMemory, tokenTable, tokenSaves, tokenExpired, tokenIssued,
                               tokenExcused>>,
         tokenActive' \in Requests \cup {None}, tokenGiven' \subseteq Requests \X tokenIssued,
         tokenRequest' \in [Requests -> Waits \cup {None}],
         \A q \in Requests : tokenRequest'[q] # None => tokenRequest'[q].token \in tokenIssued,
         \A q \in Requests, t \in Tokens : LetIn(q, t)' => LetIn(q, t)
  PROVE  TokenInv'
<1>1. TokenTypes'
  BY DEF TokenInv, TokenTypes
<1>2. \A t \in Tokens \ tokenExcused' : Settled(t)'
  BY DEF TokenInv, Settled
<1>3. \A t \in Tokens \ tokenExcused' : Spent(t)'
  BY DEF TokenInv, Spent
<1>. QED BY <1>1, <1>2, <1>3 DEF TokenInv

LEMMA InvIssue ==
  ASSUME TokenInv, NEW q \in Requests, Enrolment!Issue(q)
  PROVE  TokenInv'
<1>1. /\ tokenRequest[q] # None
      /\ UNCHANGED <<tokenMemory, tokenTable, tokenSaves, tokenExpired, tokenIssued, tokenActive,
                     tokenGiven, tokenExcused>>
  BY DEF Enrolment!Issue
<1>2. tokenRequest[q] \in Waits /\ tokenRequest \in [Requests -> Waits \cup {None}]
  BY <1>1 DEF TokenInv, TokenTypes
<1>3. PICK next \in Waits \cup {None} :
        /\ tokenRequest' = [tokenRequest EXCEPT ![q] = next]
        /\ next # None => next.token = tokenRequest[q].token
  <2>1. CASE tokenRequest' = [tokenRequest EXCEPT ![q].pc = "activate"]
    <3>. DEFINE next == [tokenRequest[q] EXCEPT !.pc = "activate"]
    <3>1. next \in Waits /\ next.token = tokenRequest[q].token
      BY <1>2 DEF Waits
    <3>2. tokenRequest' = [tokenRequest EXCEPT ![q] = next]
      BY <1>2, <2>1
    <3>. HIDE DEF next
    <3>. QED BY <3>1, <3>2
  <2>2. CASE tokenRequest' = [tokenRequest EXCEPT ![q] = None]
    BY <2>2
  <2>. QED BY <2>1, <2>2 DEF Enrolment!Issue
<1>4. /\ tokenRequest' \in [Requests -> Waits \cup {None}]
      /\ \A p \in Requests : tokenRequest'[p] = IF p = q THEN next ELSE tokenRequest[p]
  BY <1>2, <1>3
<1>5. \A p \in Requests : tokenRequest'[p] # None
      => tokenRequest[p] # None /\ tokenRequest'[p].token = tokenRequest[p].token
  BY <1>1, <1>3, <1>4
<1>6. \A p \in Requests, t \in Tokens : LetIn(p, t)' => LetIn(p, t)
  BY <1>1, <1>5 DEF LetIn, Waiting
<1>. QED BY <1>1, <1>4, <1>5, <1>6, RequestsMove DEF TokenInv, TokenTypes

LEMMA InvActivate ==
  ASSUME TokenInv, NEW q \in Requests, Enrolment!Activate(q)
  PROVE  TokenInv'
<1>1. /\ tokenRequest[q] # None /\ tokenRequest' = [tokenRequest EXCEPT ![q] = None]
      /\ UNCHANGED <<tokenMemory, tokenTable, tokenSaves, tokenExpired, tokenIssued,
                     tokenExcused>>
      /\ tokenGiven' = tokenGiven \/ tokenGiven' = tokenGiven \cup {<<q, tokenRequest[q].token>>}
      /\ tokenActive' \in {tokenActive, q}
  BY DEF Enrolment!Activate
<1>2. tokenRequest[q].token \in tokenIssued /\ tokenRequest \in [Requests -> Waits \cup {None}]
  BY <1>1 DEF TokenInv, TokenTypes
<1>3. /\ tokenRequest' \in [Requests -> Waits \cup {None}]
      /\ \A p \in Requests : tokenRequest'[p] = IF p = q THEN None ELSE tokenRequest[p]
  BY <1>1, <1>2
<1>4. \A p \in Requests : tokenRequest'[p] # None => tokenRequest'[p].token \in tokenIssued
  BY <1>3 DEF TokenInv, TokenTypes
<1>5. \A p \in Requests, t \in Tokens : LetIn(p, t)' => LetIn(p, t)
  BY <1>1, <1>3 DEF LetIn, Waiting
<1>6. tokenGiven' \subseteq Requests \X tokenIssued /\ tokenActive' \in Requests \cup {None}
  BY <1>1, <1>2 DEF TokenInv, TokenTypes
<1>. QED BY <1>1, <1>3, <1>4, <1>5, <1>6, RequestsMove

LEMMA InvCommit ==
  ASSUME TokenInv, Enrolment!Commit
  PROVE  TokenInv'
<1>1. /\ tokenSaves # <<>> /\ tokenSaves' = Tail(tokenSaves) /\ tokenSaves \in Seq(SUBSET Tokens)
      /\ UNCHANGED <<tokenMemory, tokenExpired, tokenIssued, tokenRequest, tokenActive,
                     tokenGiven>>
      /\ \A i \in 1 .. Len(tokenSaves) : tokenSaves[i] \subseteq tokenIssued
  BY DEF Enrolment!Commit, TokenInv, TokenTypes
<1>2. /\ Len(tokenSaves) \in Nat \ {0} /\ Head(tokenSaves) = tokenSaves[1]
         /\ tokenSaves' \in Seq(SUBSET Tokens)
      /\ Len(tokenSaves') = Len(tokenSaves) - 1
         /\ \A i \in 1 .. Len(tokenSaves') : tokenSaves'[i] = tokenSaves[i + 1]
  <2>1. Len(tokenSaves) \in Nat \ {0} /\ Head(tokenSaves) = tokenSaves[1]
    BY <1>1
  <2>2. tokenSaves' \in Seq(SUBSET Tokens) /\ Len(tokenSaves') = Len(tokenSaves) - 1
    BY <1>1
  <2>3. \A i \in 1 .. Len(tokenSaves') : tokenSaves'[i] = tokenSaves[i + 1]
    BY <1>1, <2>1, <2>2
  <2>. QED BY <2>1, <2>2, <2>3
<1>3. \/ tokenTable' = Head(tokenSaves) /\ tokenExcused' = tokenExcused
      \/ tokenTable' = tokenTable /\ tokenExcused' = tokenExcused
         \cup Enrolment!Lost(Head(tokenSaves))
  BY DEF Enrolment!Commit
<1>4. TokenTypes'
  <2>1. \A i \in 1 .. Len(tokenSaves') : tokenSaves'[i] \subseteq tokenIssued'
    BY <1>1, <1>2
  <2>2. tokenTable' \subseteq tokenIssued'
    BY <1>1, <1>2, <1>3 DEF TokenInv, TokenTypes
  <2>. QED BY <1>1, <1>2, <2>1, <2>2 DEF TokenInv, TokenTypes
<1>5. ASSUME NEW t \in Tokens \ tokenExcused'
      PROVE  Settled(t)' /\ Spent(t)'
  <2>1. t \notin tokenExcused /\ Settled(t) /\ Spent(t)
    BY <1>3, <1>5 DEF TokenInv
  <2>2. t \in tokenSaves[Len(tokenSaves)] <=> t \in tokenMemory
    BY <1>1, <2>1 DEF Settled
  <2>3. CASE tokenSaves' = <<>>
    <3>1. Len(tokenSaves) = 1
      BY <1>2, <2>3
    <3>2. t \in tokenTable' <=> t \in Head(tokenSaves)
      BY <1>3, <1>5 DEF Enrolment!Lost
    <3>. QED BY <1>1, <1>2, <2>1, <2>2, <2>3, <3>1, <3>2 DEF Settled, Spent, LetIn, Waiting
  <2>4. CASE tokenSaves' # <<>>
    <3>1. Len(tokenSaves') \in 1 .. Len(tokenSaves') /\ Len(tokenSaves') + 1 = Len(tokenSaves)
      BY <1>2, <2>4
    <3>2. tokenSaves'[Len(tokenSaves')] = tokenSaves[Len(tokenSaves)]
      BY <1>2, <3>1
    <3>. QED BY <1>1, <2>1, <2>2, <2>4, <3>2 DEF Settled, Spent, LetIn, Waiting
  <2>. QED BY <2>3, <2>4
<1>. QED BY <1>4, <1>5 DEF TokenInv

LEMMA InvExpire ==
  ASSUME TokenInv, NEW t \in Tokens, Enrolment!Expire(t)
  PROVE  TokenInv'
BY DEF Enrolment!Expire, TokenInv, TokenTypes, Settled, Spent, LetIn, Waiting

\* What the table and the memory disagree on is what a lost save is about.
LEMMA InvRestart ==
  ASSUME TokenInv, Enrolment!Restart
  PROVE  TokenInv'
<1>1. /\ tokenExcused' = tokenExcused \cup UNION {Enrolment!Lost(tokenSaves[i]) :
         i \in DOMAIN tokenSaves}
      /\ tokenMemory' = tokenTable \ tokenExpired
      /\ tokenSaves' = IF tokenTable \cap tokenExpired = {} THEN <<>> ELSE <<tokenMemory'>>
      /\ tokenRequest' = [q \in Requests |-> None]
      /\ UNCHANGED <<tokenTable, tokenExpired, tokenIssued, tokenActive, tokenGiven>>
  BY DEF Enrolment!Restart
<1>2. tokenMemory' \subseteq tokenIssued /\ tokenIssued \subseteq Tokens
      /\ tokenSaves \in Seq(SUBSET Tokens)
  BY <1>1 DEF TokenInv, TokenTypes
<1>3. tokenSaves' \in Seq(SUBSET Tokens) /\ \A i \in 1 .. Len(tokenSaves') :
      tokenSaves'[i] \subseteq tokenIssued
  <2>1. tokenMemory' \in SUBSET Tokens
    BY <1>2
  <2>2. CASE tokenSaves' = <<>>
    BY <2>2
  <2>3. CASE tokenSaves' = <<tokenMemory'>>
    <3>1. tokenSaves' \in Seq(SUBSET Tokens) /\ Len(tokenSaves') = 1
          /\ tokenSaves'[1] = tokenMemory'
      BY <2>1, <2>3
    <3>2. \A i \in 1 .. Len(tokenSaves') : i = 1
      BY <3>1
    <3>. QED BY <1>2, <3>1, <3>2
  <2>. QED BY <1>1, <2>2, <2>3
<1>4. TokenTypes'
  BY <1>1, <1>2, <1>3 DEF TokenInv, TokenTypes
<1>5. \A t \in Tokens : Settled(t)'
  BY <1>1 DEF Settled
<1>6. ASSUME NEW t \in Tokens \ tokenExcused'
      PROVE  Spent(t)'
  <2>1. t \notin tokenExcused /\ Settled(t) /\ Spent(t)
    BY <1>1 DEF TokenInv
  <2>2. t \in tokenTable <=> t \in tokenMemory
    <3>1. CASE tokenSaves = <<>>
      BY <2>1, <3>1 DEF Settled
    <3>2. CASE tokenSaves # <<>>
      <4>1. Len(tokenSaves) \in DOMAIN tokenSaves
        BY <1>2, <3>2
      <4>2. t \notin Enrolment!Lost(tokenSaves[Len(tokenSaves)])
        BY <1>1, <4>1
      <4>. QED BY <2>1, <3>2, <4>2 DEF Settled, Enrolment!Lost
    <3>. QED BY <3>1, <3>2
  <2>3. \A q \in Requests : LetIn(q, t)' => LetIn(q, t)
    BY <1>1 DEF LetIn, Waiting
  <2>. QED BY <1>1, <2>1, <2>2, <2>3 DEF Spent
<1>. QED BY <1>4, <1>5, <1>6 DEF TokenInv

LEMMA TokensKept ==
  ASSUME TokenInv, [Enrolment!Next]_(Enrolment!vars)
  PROVE  TokenInv'
<1>1. CASE UNCHANGED Enrolment!vars
  BY <1>1 DEF Enrolment!vars, TokenInv, TokenTypes, Settled, Spent, LetIn, Waiting
<1>. QED BY <1>1, InvGenerate, InvProvision, InvIssue, InvActivate, InvCommit, InvExpire,
         InvRestart
         DEF Enrolment!Next

\* For any requests, tokens, failed saves and starts: a bootstrap token lets one
\* request in at most and is out of the memory then, unless a save that concerns
\* it was lost (BootstrapTokenService.consumeToken, save, onModuleInit).
THEOREM TokensSoundAlways == PanelSpec => [](part = "tokens" => Enrolment!TokensSound)
<1>. DEFINE I == part = "tokens" => TokenInv
<1>1. PanelInit => I
  BY TokenInit DEF PanelInit
<1>2. I /\ [PanelNext]_panelVars => I'
  BY TokensKept, PartMoves
<1>3. I => (part = "tokens" => Enrolment!TokensSound)
  BY DEF TokenInv, TokenTypes, Spent, LetIn, Enrolment!TokensSound, Enrolment!Entered
<1>. QED BY <1>1, <1>2, <1>3, PTL DEF PanelSpec

-----------------------------------------------------------------------------
(***************************************************************************)
(* Eggs: TablesFollow, for any eggs and nests and any number of imports,   *)
(* moves, removals, failed saves and crashes.                              *)
(*                                                                         *)
(* The last save that waits holds what the memory has; when none waits,    *)
(* the table has it, unless the last save failed (Settles).  Two side      *)
(* conditions carry it across a start: the tables of nests never lose the  *)
(* default nest, and a start saves the nests that it had to make.          *)
(***************************************************************************)

Filings == [nest : Nests, made : Nat]
EggMaps == [Eggs -> Filings \cup {None}]

\* The nests as they are kept: with the default one.
NestSets == {ns \in SUBSET Nests : DefaultNest \in ns}

\* What will be in a table once its saves are through is what the memory has.
Settles(queue, kept, held, table) ==
  IF queue = <<>> THEN table \notin eggStale => kept = held ELSE queue[Len(queue)] = held

EggsSide ==
  /\ eggEggs \in EggMaps /\ eggEggRows \in EggMaps /\ eggEggSaves \in Seq(EggMaps)
  /\ ~eggUp => eggEggSaves = <<>>
  /\ eggUp => Settles(eggEggSaves, eggEggRows, eggEggs, "eggs")

NestsSide ==
  /\ eggNestRows \in NestSets \cup {{}} /\ eggNestSaves \in Seq(NestSets)
  /\ ~eggUp => eggNestSaves = <<>>
  /\ eggUp => eggNests \in NestSets /\ Settles(eggNestSaves, eggNestRows, eggNests, "nests")

CatalogInv == eggUp \in BOOLEAN /\ eggOps \in Nat /\ EggsSide /\ NestsSide

\* A save joins the queue behind the ones that wait.
LEMMA SaveJoins ==
  ASSUME NEW T, NEW q \in Seq(T), NEW x \in T
  PROVE  LET r == Append(q, x) IN r \in Seq(T) /\ r # <<>> /\ r[Len(r)] = x
<1>1. Len(Append(q, x)) = Len(q) + 1 /\ Append(q, x)[Len(q) + 1] = x /\ Append(q, x) \in Seq(T)
      /\ Len(q) \in Nat
  OBVIOUS
<1>2. Append(q, x) # <<>>
  BY <1>1
<1>. QED BY <1>1, <1>2

\* The first save leaves it, and the last one is still the last one.
LEMMA SaveLeaves ==
  ASSUME NEW T, NEW q \in Seq(T), NEW i, Catalog!Turn(i, q)
  PROVE  LET r == Catalog!RemoveAt(q, i) IN
         /\ r \in Seq(T) /\ q # <<>> /\ i = 1 /\ q[i] \in T
         /\ r = <<>> => q[1] = q[Len(q)]
         /\ r # <<>> => r[Len(r)] = q[Len(q)]
<1>1. i = 1 /\ 1 \in 1 .. Len(q) /\ Len(q) \in Nat
  BY DEF Catalog!Turn
<1> DEFINE r == Tail(q)
<1>2. r \in Seq(T) /\ Len(r) = Len(q) - 1 /\ \A j \in 1 .. Len(r) : r[j] = q[j + 1]
  BY <1>1
<1>3. Catalog!RemoveAt(q, 1) = SubSeq(q, 1, 0) \o SubSeq(q, 2, Len(q))
  BY DEF Catalog!RemoveAt
<1>4. SubSeq(q, 1, 0) = <<>> /\ SubSeq(q, 2, Len(q)) = r
  BY <1>1, SubSeqEmpty, TailIsSubSeq
<1>5. Catalog!RemoveAt(q, 1) = r
  BY <1>2, <1>3, <1>4
<1>6. ASSUME r = <<>> PROVE Len(q) = 1
  <2>1. Len(r) = 0
    BY <1>6, EmptySeq
  <2>2. Len(r) = Len(q) - 1 /\ Len(q) \in Nat
    BY <1>1, <1>2
  <2>. HIDE DEF r
  <2>. QED BY <2>1, <2>2
<1>7. ASSUME r # <<>> PROVE r[Len(r)] = q[Len(q)]
  <2>1. Len(r) # 0
    BY <1>2, <1>7, EmptySeq
  <2>. QED BY <1>1, <1>2, <2>1
<1>8. q # <<>> /\ q[1] \in T
  BY <1>1, EmptySeq
<1>9. Catalog!RemoveAt(q, i) = r /\ r \in Seq(T) /\ i = 1
  BY <1>1, <1>2, <1>5
<1>. HIDE DEF r
<1>. QED BY <1>6, <1>7, <1>8, <1>9

\* Eggs that change are saved.
LEMMA EggsSaved ==
  ASSUME EggsSide, eggUp, eggUp', NEW es \in Seq(EggMaps), eggEggs' \in EggMaps,
         eggEggSaves' = Append(es, eggEggs'), UNCHANGED eggEggRows
  PROVE  EggsSide'
<1>1. eggEggSaves' \in Seq(EggMaps) /\ eggEggSaves' # <<>>
      /\ eggEggSaves'[Len(eggEggSaves')] = eggEggs'
  BY SaveJoins
<1>. QED BY <1>1 DEF EggsSide, Settles

LEMMA EggsStay ==
  ASSUME EggsSide, UNCHANGED <<eggUp, eggEggs, eggEggSaves, eggEggRows, eggStale>>
  PROVE  EggsSide'
BY DEF EggsSide, Settles

\* Nests that change are saved, and are not saved when they do not change.
LEMMA NestsSaved ==
  ASSUME NestsSide, eggUp, eggUp', NEW needed \in BOOLEAN, Catalog!SaveNests(needed),
         eggNests' \in NestSets,
         ~needed => eggNests' = eggNests, UNCHANGED <<eggNestRows, eggStale>>
  PROVE  NestsSide'
<1>1. CASE needed
  <2>1. eggNestSaves' = Append(eggNestSaves, eggNests')
    BY <1>1 DEF Catalog!SaveNests
  <2>2. eggNestSaves' \in Seq(NestSets) /\ eggNestSaves' # <<>>
        /\ eggNestSaves'[Len(eggNestSaves')] = eggNests'
    BY <2>1, SaveJoins DEF NestsSide
  <2>. QED BY <2>2 DEF NestsSide, Settles
<1>2. CASE ~needed
  BY <1>2 DEF NestsSide, Settles, Catalog!SaveNests
<1>. QED BY <1>1, <1>2

LEMMA NestsEnsured ==
  ASSUME NestsSide, eggUp, eggUp', NEW ns \in SUBSET Nests, Catalog!Ensure(ns),
         UNCHANGED <<eggNestRows, eggStale>>
  PROVE  NestsSide'
<1> DEFINE needed == ~(ns \subseteq eggNests)
<1>1. eggNests' = eggNests \cup ns /\ Catalog!SaveNests(needed)
  BY DEF Catalog!Ensure
<1>2. eggNests' \in NestSets /\ (~needed => eggNests' = eggNests)
  BY <1>1 DEF NestsSide, NestSets
<1>3. needed \in BOOLEAN
  OBVIOUS
<1>. HIDE DEF needed
<1>. QED BY <1>1, <1>2, <1>3, NestsSaved

LEMMA NestsStay ==
  ASSUME NestsSide, UNCHANGED <<eggUp, eggNests, eggNestSaves, eggNestRows, eggStale>>
  PROVE  NestsSide'
BY DEF NestsSide, Settles

\* The nest that an egg names is one.
LEMMA NamedNests ==
  ASSUME Catalog!EggCatalogAssumption
  PROVE  \A e \in Eggs : Catalog!NestOf(e) \in Nests
BY DEF Catalog!EggCatalogAssumption, Catalog!NestOf

LEMMA EggFilings ==
  ASSUME eggOps \in Nat, NEW n \in Nests
  PROVE  Catalog!Egg(n) \in Filings
BY DEF Catalog!Egg, Filings

\* Eggs that are given another nest are eggs still.
LEMMA RefiledEggs ==
  ASSUME NEW es \in EggMaps, NEW D, NEW changes \in [D -> Filings]
  PROVE  Catalog!Refile(es, changes) \in EggMaps
BY DEF EggMaps, Catalog!Refile

LEMMA MovedEggs ==
  ASSUME CatalogInv, eggUp, eggUp', NEW D, NEW changes \in [D -> Filings], Catalog!Moved(changes),
         eggEggSaves' = Append(Catalog!MovedSaves(changes), eggEggs'), UNCHANGED eggEggRows
  PROVE  EggsSide'
<1>1. eggEggs' = Catalog!Refile(eggEggs, changes) /\ eggEggs' \in EggMaps
  BY RefiledEggs DEF Catalog!Moved, CatalogInv, EggsSide
<1>2. eggEggSaves \in Seq(EggMaps) /\ EggsSide
  BY DEF CatalogInv, EggsSide
<1>3. \A i \in 1 .. Len(eggEggSaves) : Catalog!Refile(eggEggSaves[i], changes) \in EggMaps
  BY <1>2, RefiledEggs
<1>4. Catalog!MovedSaves(changes)
      = [i \in 1 .. Len(eggEggSaves) |-> Catalog!Refile(eggEggSaves[i], changes)]
      /\ Len(eggEggSaves) \in Nat
  BY <1>2 DEF Catalog!MovedSaves
<1>5. Catalog!MovedSaves(changes) \in Seq(EggMaps)
  BY <1>3, <1>4
<1>. QED BY <1>1, <1>2, <1>5, EggsSaved

LEMMA ImportKeeps ==
  ASSUME Catalog!EggCatalogAssumption, CatalogInv, NEW es \in SUBSET Eggs,
         Catalog!ImportMany(es) \/ Catalog!ImportRefused(es)
  PROVE  CatalogInv'
<1>1. /\ eggUp /\ eggUp' /\ eggUp' = eggUp /\ eggOps' = eggOps + 1 /\ UNCHANGED <<eggEggRows,
         eggNestRows, eggStale>>
      /\ Catalog!Ensure({Catalog!NestOf(e) : e \in es})
  BY DEF Catalog!ImportMany, Catalog!ImportRefused, Catalog!Op, Catalog!rows, CatalogInv
<1>2. {Catalog!NestOf(e) : e \in es} \in SUBSET Nests
  BY NamedNests
<1>3. NestsSide'
  BY <1>1, <1>2, NestsEnsured DEF CatalogInv
<1>4. CASE Catalog!ImportMany(es)
  <2>1. eggEggs'
        = [e \in Eggs |-> IF e \in es THEN Catalog!Egg(Catalog!NestOf(e)) ELSE eggEggs[e]]
        /\ eggEggSaves' = Append(eggEggSaves, eggEggs')
    BY <1>4 DEF Catalog!ImportMany, Catalog!SaveEggs
  <2>2. eggEggs \in EggMaps /\ eggEggSaves \in Seq(EggMaps) /\ EggsSide
    BY DEF CatalogInv, EggsSide
  <2>3. eggEggs' \in EggMaps
    BY <2>1, <2>2, NamedNests, EggFilings DEF CatalogInv, EggMaps
  <2>4. EggsSide'
    BY <1>1, <2>1, <2>2, <2>3, EggsSaved
  <2>. QED BY <1>1, <1>3, <2>4 DEF CatalogInv
<1>5. CASE Catalog!ImportRefused(es)
  BY <1>1, <1>3, <1>5, EggsStay DEF Catalog!ImportRefused, CatalogInv
<1>. QED BY <1>4, <1>5

LEMMA EggKeeps ==
  ASSUME Catalog!EggCatalogAssumption, CatalogInv, NEW e \in Eggs,
         \/ Catalog!RemoveEgg(e) \/ Catalog!Rehydrate(e) \/ Catalog!FinishInstall(e)
  PROVE  CatalogInv'
<1>1. eggUp /\ eggUp' /\ eggUp' = eggUp /\ eggOps' = eggOps + 1 /\ UNCHANGED <<eggEggRows,
      eggNestRows, eggStale>>
  BY DEF Catalog!RemoveEgg, Catalog!Rehydrate, Catalog!FinishInstall, Catalog!Op, Catalog!rows,
     CatalogInv
<1>2. eggEggs \in EggMaps /\ eggEggSaves \in Seq(EggMaps) /\ EggsSide /\ NestsSide
      /\ eggOps \in Nat
  BY DEF CatalogInv, EggsSide
<1>3. eggEggSaves' = Append(eggEggSaves, eggEggs')
  BY DEF Catalog!RemoveEgg, Catalog!Rehydrate, Catalog!FinishInstall, Catalog!SaveEggs
<1>4. eggEggs' \in EggMaps
  <2>1. CASE Catalog!RemoveEgg(e)
    BY <1>2, <2>1 DEF Catalog!RemoveEgg, EggMaps
  <2>2. CASE Catalog!Rehydrate(e)
    <3>1. eggEggs[e] # None /\ eggEggs' = [eggEggs EXCEPT ![e] = Catalog!Egg(eggEggs[e].nest)]
      BY <2>2 DEF Catalog!Rehydrate, Catalog!Known
    <3>2. eggEggs[e] \in Filings
      BY <1>2, <3>1 DEF EggMaps
    <3>3. Catalog!Egg(eggEggs[e].nest) \in Filings
      BY <1>2, <3>2, EggFilings DEF Filings
    <3>. QED BY <1>2, <3>1, <3>3 DEF EggMaps
  <2>3. CASE Catalog!FinishInstall(e)
    <3>1. eggEggs' = [eggEggs EXCEPT ![e] = Catalog!Egg(Category)]
      BY <2>3 DEF Catalog!FinishInstall
    <3>2. Catalog!Egg(Category) \in Filings
      BY <1>2, EggFilings DEF Catalog!EggCatalogAssumption
    <3>. QED BY <1>2, <3>1, <3>2 DEF EggMaps
  <2>. QED BY <2>1, <2>2, <2>3
<1>5. EggsSide'
  BY <1>1, <1>2, <1>3, <1>4, EggsSaved
<1>6. NestsSide'
  <2>1. CASE Catalog!RemoveEgg(e)
    BY <1>1, <1>2, <2>1, NestsStay DEF Catalog!RemoveEgg
  <2>2. CASE Catalog!Rehydrate(e) \/ Catalog!FinishInstall(e)
    <3>1. Catalog!Ensure({Catalog!NestOf(e)}) /\ {Catalog!NestOf(e)} \in SUBSET Nests
      BY <2>2, NamedNests DEF Catalog!Rehydrate, Catalog!FinishInstall
    <3>. QED BY <1>1, <1>2, <3>1, NestsEnsured
  <2>. QED BY <2>1, <2>2
<1>. QED BY <1>1, <1>2, <1>5, <1>6 DEF CatalogInv

LEMMA DownloadKeeps ==
  ASSUME Catalog!EggCatalogAssumption, CatalogInv, NEW e \in Eggs,
         Catalog!StartInstall(e) \/ Catalog!InstallFails(e)
  PROVE  CatalogInv'
<1>1. eggUp /\ eggUp' /\ eggUp' = eggUp /\ eggOps' \in Nat /\ UNCHANGED <<eggEggs, eggEggSaves,
      eggEggRows, eggNestRows, eggStale>>
  BY DEF Catalog!StartInstall, Catalog!InstallFails, Catalog!Op, Catalog!rows, CatalogInv
<1>2. EggsSide'
  BY <1>1, EggsStay DEF CatalogInv
<1>3. CASE Catalog!StartInstall(e)
  <2>1. Catalog!Ensure({Category}) /\ {Category} \in SUBSET Nests
    BY <1>3 DEF Catalog!StartInstall, Catalog!EggCatalogAssumption
  <2>. QED BY <1>1, <1>2, <2>1, NestsEnsured DEF CatalogInv
<1>4. CASE Catalog!InstallFails(e)
  BY <1>1, <1>2, <1>4, NestsStay DEF Catalog!InstallFails, CatalogInv
<1>. QED BY <1>3, <1>4

LEMMA NestKeeps ==
  ASSUME Catalog!EggCatalogAssumption, CatalogInv, NEW n \in Nests,
         Catalog!CreateNest(n) \/ Catalog!RemoveNest(n)
  PROVE  CatalogInv'
<1>1. /\ eggUp /\ eggUp' /\ eggUp' = eggUp /\ eggOps' = eggOps + 1 /\ UNCHANGED <<eggEggRows,
         eggNestRows, eggStale>>
      /\ Catalog!SaveNests(TRUE) /\ eggNests' \in NestSets
  <2>1. eggUp /\ eggNests \in NestSets
    BY DEF CatalogInv, NestsSide, Catalog!CreateNest, Catalog!RemoveNest, Catalog!Op
  <2>. QED BY <2>1 DEF Catalog!CreateNest, Catalog!RemoveNest, Catalog!Op, Catalog!rows, NestSets
<1>2. NestsSide'
  BY <1>1, NestsSaved DEF CatalogInv
<1>3. CASE Catalog!CreateNest(n)
  BY <1>1, <1>2, <1>3, EggsStay DEF Catalog!CreateNest, CatalogInv
<1>4. CASE Catalog!RemoveNest(n)
  <2> DEFINE D == {e \in Catalog!Known : eggEggs[e].nest = n}
             changes == [e \in D |-> [eggEggs[e] EXCEPT !.nest = DefaultNest]]
  <2>1. Catalog!Moved(changes) /\ eggEggSaves' = Append(Catalog!MovedSaves(changes), eggEggs')
    BY <1>4 DEF Catalog!RemoveNest
  <2>2. changes \in [D -> Filings]
    <3>1. \A e \in D : eggEggs[e] \in Filings
      BY DEF CatalogInv, EggsSide, EggMaps, Catalog!Known
    <3>2. DefaultNest \in Nests
      BY DEF Catalog!EggCatalogAssumption
    <3>. QED BY <3>1, <3>2 DEF Filings
  <2>. HIDE DEF D, changes
  <2>3. EggsSide'
    BY <1>1, <2>1, <2>2, MovedEggs
  <2>. QED BY <1>1, <1>2, <2>3 DEF CatalogInv
<1>. QED BY <1>3, <1>4

LEMMA AssignKeeps ==
  ASSUME CatalogInv, NEW e \in Eggs, NEW n \in Nests, Catalog!AssignNest(e, n)
  PROVE  CatalogInv'
<1> DEFINE changes == [f \in {e} |-> [eggEggs[f] EXCEPT !.nest = n]]
<1>1. /\ eggUp /\ eggUp' /\ eggUp' = eggUp /\ eggOps' = eggOps + 1 /\ UNCHANGED <<eggEggRows,
         eggNestRows, eggStale, eggNests, eggNestSaves>>
      /\ eggEggs[e] # None
      /\ Catalog!Moved(changes) /\ eggEggSaves' = Append(Catalog!MovedSaves(changes), eggEggs')
  BY DEF Catalog!AssignNest, Catalog!Op, Catalog!rows, Catalog!Known, CatalogInv
<1>2. changes \in [{e} -> Filings]
  <2>1. eggEggs[e] \in Filings
    BY <1>1 DEF CatalogInv, EggsSide, EggMaps
  <2>. QED BY <2>1 DEF Filings
<1>. HIDE DEF changes
<1>3. EggsSide'
  BY <1>1, <1>2, MovedEggs
<1>4. NestsSide'
  BY <1>1, NestsStay DEF CatalogInv
<1>. QED BY <1>1, <1>3, <1>4 DEF CatalogInv

LEMMA WriteEggsKeeps ==
  ASSUME CatalogInv, NEW i, Catalog!WriteEggs(i)
  PROVE  CatalogInv'
<1>1. /\ eggUp /\ eggUp' = eggUp /\ eggOps' = eggOps /\ UNCHANGED <<eggEggs, eggNests,
         eggNestRows, eggNestSaves>>
      /\ Catalog!Turn(i, eggEggSaves) /\ eggEggSaves' = Catalog!RemoveAt(eggEggSaves, i)
      /\ \/ eggEggRows' = eggEggSaves[i] /\ eggStale' = eggStale \ {"eggs"}
         \/ eggEggRows' = eggEggRows /\ eggStale' = eggStale \cup {"eggs"}
  BY DEF Catalog!WriteEggs
<1>2. /\ eggEggs \in EggMaps /\ eggEggRows \in EggMaps /\ eggEggSaves \in Seq(EggMaps)
      /\ eggEggSaves # <<>> => eggEggSaves[Len(eggEggSaves)] = eggEggs
  BY <1>1 DEF CatalogInv, EggsSide, Settles
<1>3. /\ eggEggSaves' \in Seq(EggMaps) /\ eggEggSaves # <<>> /\ i = 1
         /\ eggEggSaves[i] \in EggMaps
      /\ eggEggSaves' = <<>> => eggEggSaves[1] = eggEggSaves[Len(eggEggSaves)]
      /\ eggEggSaves' # <<>> => eggEggSaves'[Len(eggEggSaves')] = eggEggSaves[Len(eggEggSaves)]
  BY <1>1, <1>2, SaveLeaves
<1>4. EggsSide'
  BY <1>1, <1>2, <1>3 DEF EggsSide, Settles
<1>5. NestsSide'
  BY <1>1 DEF CatalogInv, NestsSide, Settles
<1>. QED BY <1>1, <1>4, <1>5 DEF CatalogInv

LEMMA WriteNestsKeeps ==
  ASSUME CatalogInv, NEW i, Catalog!WriteNests(i)
  PROVE  CatalogInv'
<1>1. /\ eggUp /\ eggUp' = eggUp /\ eggOps' = eggOps /\ UNCHANGED <<eggEggs, eggNests,
         eggEggRows, eggEggSaves>>
      /\ Catalog!Turn(i, eggNestSaves) /\ eggNestSaves' = Catalog!RemoveAt(eggNestSaves, i)
      /\ \/ eggNestRows' = eggNestSaves[i] /\ eggStale' = eggStale \ {"nests"}
         \/ eggNestRows' = eggNestRows /\ eggStale' = eggStale \cup {"nests"}
  BY DEF Catalog!WriteNests
<1>2. /\ eggNests \in NestSets /\ eggNestRows \in NestSets \cup {{}}
         /\ eggNestSaves \in Seq(NestSets)
      /\ eggNestSaves # <<>> => eggNestSaves[Len(eggNestSaves)] = eggNests
  BY <1>1 DEF CatalogInv, NestsSide, Settles
<1>3. /\ eggNestSaves' \in Seq(NestSets) /\ eggNestSaves # <<>> /\ i = 1
         /\ eggNestSaves[i] \in NestSets
      /\ eggNestSaves' = <<>> => eggNestSaves[1] = eggNestSaves[Len(eggNestSaves)]
      /\ eggNestSaves' # <<>> => eggNestSaves'[Len(eggNestSaves')]
         = eggNestSaves[Len(eggNestSaves)]
  BY <1>1, <1>2, SaveLeaves
<1>4. NestsSide'
  BY <1>1, <1>2, <1>3 DEF NestsSide, Settles
<1>5. EggsSide'
  BY <1>1 DEF CatalogInv, EggsSide, Settles
<1>. QED BY <1>1, <1>4, <1>5 DEF CatalogInv

LEMMA CrashKeeps == CatalogInv /\ Catalog!Crash => CatalogInv'
<1>1. Catalog!Nothing \in EggMaps
  BY DEF Catalog!Nothing, EggMaps
<1>. SUFFICES ASSUME CatalogInv, Catalog!Crash PROVE CatalogInv'
  OBVIOUS
<1>2. /\ eggUp' = FALSE /\ eggEggs' = Catalog!Nothing /\ eggEggSaves' = <<>>
         /\ eggNestSaves' = <<>>
      /\ UNCHANGED <<eggEggRows, eggNestRows, eggOps>>
  BY DEF Catalog!Crash
<1>3. EggsSide' /\ NestsSide'
  BY <1>1, <1>2 DEF CatalogInv, EggsSide, NestsSide
<1>. QED BY <1>2, <1>3 DEF CatalogInv

LEMMA StartLoads ==
  ASSUME Catalog!EggCatalogAssumption, CatalogInv, Catalog!Start
  PROVE  CatalogInv'
<1> DEFINE named == {Catalog!NestOf(e) : e \in {e \in Eggs : eggEggRows[e] # None}}
           needed == ~(named \subseteq eggNestRows' \cup {DefaultNest})
<1>1. /\ ~eggUp /\ eggUp' = TRUE /\ eggOps' = eggOps /\ UNCHANGED <<eggEggRows, eggEggSaves>>
         /\ eggEggs' = eggEggRows
      /\ eggNestRows' = IF eggNestRows = {} THEN {DefaultNest} ELSE eggNestRows
      /\ eggNests' = eggNestRows' \cup {DefaultNest} \cup named
      /\ Catalog!SaveNests(needed)
  BY DEF Catalog!Start
<1>2. named \subseteq Nests
  BY NamedNests
<1>. HIDE DEF named
<1>3. DefaultNest \in Nests
  BY DEF Catalog!EggCatalogAssumption
<1>4. eggNestRows' \in NestSets /\ eggNestSaves = <<>> /\ eggNestSaves \in Seq(NestSets)
  BY <1>1, <1>3 DEF CatalogInv, NestsSide, NestSets
<1>5. eggNests' \in NestSets
  BY <1>1, <1>2, <1>3, <1>4 DEF NestSets
<1>6. NestsSide'
  <2>1. CASE needed
    <3>1. eggNestSaves' = Append(eggNestSaves, eggNests')
      BY <1>1, <2>1 DEF Catalog!SaveNests
    <3>2. eggNestSaves' \in Seq(NestSets) /\ eggNestSaves' # <<>>
          /\ eggNestSaves'[Len(eggNestSaves')] = eggNests'
      BY <1>4, <1>5, <3>1, SaveJoins
    <3>. QED BY <1>1, <1>4, <1>5, <3>2 DEF NestsSide, Settles
  <2>2. CASE ~needed
    <3>1. eggNestSaves' = <<>> /\ eggNestSaves' \in Seq(NestSets)
      BY <1>1, <1>4, <2>2 DEF Catalog!SaveNests
    <3>2. eggNests' = eggNestRows'
      BY <1>1, <1>4, <2>2 DEF NestSets
    <3>. QED BY <1>1, <1>4, <1>5, <3>1, <3>2 DEF NestsSide, Settles
  <2>. QED BY <2>1, <2>2
<1>7. EggsSide'
  BY <1>1 DEF CatalogInv, EggsSide, Settles
<1>. QED BY <1>1, <1>6, <1>7 DEF CatalogInv

LEMMA CatalogInit ==
  ASSUME Catalog!EggCatalogAssumption, Catalog!Init
  PROVE  CatalogInv
<1>1. Catalog!Nothing \in EggMaps
  BY DEF Catalog!Nothing, EggMaps
<1>2. 0 \in Nat /\ eggUp = FALSE
  BY DEF Catalog!Init
<1>3. EggsSide
  BY <1>1, <1>2 DEF Catalog!Init, EggsSide
<1>4. NestsSide
  BY <1>2 DEF Catalog!Init, NestsSide
<1>. QED BY <1>2, <1>3, <1>4 DEF Catalog!Init, CatalogInv

LEMMA CatalogKept ==
  ASSUME Catalog!EggCatalogAssumption, CatalogInv, [Catalog!Next]_(Catalog!vars)
  PROVE  CatalogInv'
<1>1. CASE UNCHANGED Catalog!vars
  BY <1>1 DEF Catalog!vars, CatalogInv, EggsSide, NestsSide, Settles
<1>2. CASE Catalog!Next
  BY <1>2, ImportKeeps, EggKeeps, DownloadKeeps, NestKeeps, AssignKeeps, WriteEggsKeeps,
     WriteNestsKeeps,
     CrashKeeps, StartLoads DEF Catalog!Next
<1>. QED BY <1>1, <1>2

\* For any eggs and nests and any number of changes, failed saves and crashes:
\* once no save of a table waits, and unless the last one failed, the table is
\* what the memory is, for the eggs and for the nests (EggsService, whose saves
\* nobody waits for, and replaceCollection).
THEOREM TablesFollowAlways == PanelSpec => []TablesFollow
<1>. DEFINE I == part = "eggs" => CatalogInv
<1>1. PanelInit => I
  BY CatalogInit, EggsFit DEF PanelInit
<1>2. I /\ [PanelNext]_panelVars => I'
  BY CatalogKept, EggsFit, PartMoves
<1>3. I => TablesFollow
  BY DEF CatalogInv, EggsSide, NestsSide, Settles, TablesFollow, Catalog!TablesFollow
<1>. QED BY <1>1, <1>2, <1>3, PTL DEF PanelSpec

-----------------------------------------------------------------------------
(***************************************************************************)
(* Webhooks: TriedExactly, for any targets, dispatches and restarts.       *)
(*                                                                         *)
(* A target that was there when a dispatch began and has not been deleted  *)
(* since is tried or still to be tried; one that was deleted before it     *)
(* began is neither, because ids are given out once.                       *)
(***************************************************************************)

Sends == [pc : {"idle", "listing", "sending", "recording", "done", "failed"},
          call : Webhooks!Call \cup {None}, left : SUBSET Targets, at : Targets \cup {None}]

\* Ids are given out once, and one that is in the file means what it says there.
HookTables ==
  /\ webhookTargets \in [Targets -> Webhooks!Target \cup {None}]
     /\ webhookFile \in [Filed -> Webhooks!Target]
  /\ \A t \in Targets : webhookTargets[t] # None => t \in webhookUsed
  /\ \A t \in Filed : webhookTargets[t] \in {None, webhookFile[t]}
  /\ webhookUsed \subseteq Targets /\ Filed \subseteq webhookUsed
  /\ webhookDispatch \in [Dispatches -> Sends]
  /\ webhookGone \in [Dispatches -> SUBSET Targets]
     /\ webhookLasting \in [Dispatches -> SUBSET Targets]

Has(d, t) == <<d, t>> \in webhookLog

\* A dispatch before it has listed its targets has those to come that were
\* there from its beginning; what was deleted before it began is not there.
Listing(d) ==
  /\ \A t \in webhookGone[d] : t \in webhookUsed /\ webhookTargets[t] = None
  /\ \A t \in webhookLasting[d] : webhookTargets[t] # None
  /\ webhookDispatch[d].pc = "listing" => \A t \in webhookLasting[d] : Webhooks!Matches(t,
     webhookDispatch[d].call)

\* Afterwards each is tried or is left, and at is one that is left.
Sending(d) ==
  /\ webhookDispatch[d].pc = "recording" => webhookDispatch[d].at \in webhookDispatch[d].left
  /\ webhookDispatch[d].pc \in {"sending", "recording"}
     => \A t \in webhookLasting[d] : Has(d, t) \/ t \in webhookDispatch[d].left
  /\ webhookDispatch[d].pc = "done" => \A t \in webhookLasting[d] : Has(d, t)
  /\ \A t \in webhookGone[d] : ~Has(d, t) /\ t \notin webhookDispatch[d].left
  /\ webhookDispatch[d].pc \in {"idle", "listing"} => \A t \in Targets : ~Has(d, t)
  /\ webhookDispatch[d].pc = "failed" => d \in webhookRefused

HookInv == HookTables /\ \A d \in Dispatches : Listing(d) /\ Sending(d)

LEMMA IdleSends ==
  /\ Webhooks!Idle \in Sends /\ Webhooks!Idle.pc = "idle" /\ Webhooks!Idle.left = {}
  /\ \A c \in Webhooks!Call : LET r == [Webhooks!Idle EXCEPT !.pc = "listing", !.call = c] IN
       r \in Sends /\ r.pc = "listing" /\ r.call = c /\ r.left = {}
  /\ LET r == [Webhooks!Idle EXCEPT !.pc = "failed"] IN r \in Sends /\ r.pc = "failed"
     /\ r.left = {}
BY DEF Webhooks!Idle, Sends

LEMMA HookCreates ==
  ASSUME HookInv, Webhooks!WebhooksAssumption,
         NEW t \in Targets, NEW target \in Webhooks!Target, Webhooks!CreateTarget(t, target)
  PROVE  HookInv'
<1>1. /\ t \notin webhookUsed /\ webhookUsed' = webhookUsed \cup {t}
         /\ webhookTargets' = [webhookTargets EXCEPT ![t] = target]
      /\ UNCHANGED <<webhookFile, webhookLog, webhookDispatch, webhookRefused, webhookGone,
                     webhookLasting>>
  BY DEF Webhooks!CreateTarget
<1>2. webhookTargets[t] = None /\ t \notin Filed
  BY <1>1 DEF HookInv, HookTables
<1>3. HookTables'
  BY <1>1, <1>2 DEF HookInv, HookTables
<1>4. ASSUME NEW d \in Dispatches PROVE Listing(d)'
  <2>1. \A u \in webhookGone[d] \cup webhookLasting[d] : u # t
        /\ webhookTargets'[u] = webhookTargets[u]
    BY <1>1, <1>2 DEF HookInv, HookTables, Listing
  <2>. QED BY <1>1, <2>1 DEF HookInv, Listing, Webhooks!Matches
<1>5. ASSUME NEW d \in Dispatches PROVE Sending(d)'
  BY <1>1 DEF HookInv, Sending, Has
<1>. QED BY <1>3, <1>4, <1>5 DEF HookInv

LEMMA HookDeletes ==
  ASSUME HookInv, NEW t \in Targets, Webhooks!DeleteTarget(t)
  PROVE  HookInv'
<1>1. /\ webhookTargets[t] # None /\ webhookTargets' = [webhookTargets EXCEPT ![t] = None]
      /\ webhookLasting' = [d \in Dispatches |-> webhookLasting[d] \ {t}]
      /\ UNCHANGED <<webhookFile, webhookLog, webhookDispatch, webhookRefused, webhookGone,
                     webhookUsed>>
  BY DEF Webhooks!DeleteTarget, Webhooks!Existing
<1>2. HookTables'
  BY <1>1 DEF HookInv, HookTables
<1>3. ASSUME NEW d \in Dispatches PROVE Listing(d)' /\ Sending(d)'
  <2>1. webhookLasting'[d] = webhookLasting[d] \ {t} /\ webhookLasting[d] \subseteq Targets
    BY <1>1 DEF HookInv, HookTables
  <2>2. \A u \in webhookLasting'[d] : webhookTargets'[u] = webhookTargets[u]
    BY <1>1, <2>1 DEF HookInv, HookTables
  <2>3. \A u \in webhookGone[d] : webhookTargets'[u] = None
    BY <1>1 DEF HookInv, HookTables, Listing
  <2>4. Listing(d)'
    BY <1>1, <2>1, <2>2, <2>3 DEF HookInv, Listing, Webhooks!Matches
  <2>5. Sending(d)'
    BY <1>1, <2>1 DEF HookInv, Sending, Has
  <2>. QED BY <2>4, <2>5
<1>. QED BY <1>2, <1>3 DEF HookInv

Listed(d, l) == [[webhookDispatch[d] EXCEPT !.pc = "sending"] EXCEPT !.left = l]
Asking(d, t) == [[webhookDispatch[d] EXCEPT !.pc = "recording"] EXCEPT !.at = t]

LEMMA SendsEdited ==
  ASSUME HookInv, NEW d \in Dispatches
  PROVE  /\ \A l \in SUBSET Targets :
              Listed(d, l) \in Sends /\ Listed(d, l).pc = "sending" /\ Listed(d, l).left = l
         /\ \A t \in Targets : /\ Asking(d, t) \in Sends /\ Asking(d, t).pc = "recording"
                               /\ Asking(d, t).left = webhookDispatch[d].left /\ Asking(d,
                                  t).at = t
         /\ LET r == [webhookDispatch[d] EXCEPT !.pc = "done"] IN
              r \in Sends /\ r.pc = "done" /\ r.left = webhookDispatch[d].left
<1>1. webhookDispatch[d] \in Sends
  BY DEF HookInv, HookTables
<1>. QED BY <1>1 DEF Sends, Listed, Asking

\* A step of one dispatch: the others are as they were.
LEMMA HookMoves ==
  ASSUME HookInv, NEW d \in Dispatches, NEW r \in Sends, NEW g \in SUBSET Targets,
         NEW l \in SUBSET Targets,
         webhookDispatch' = [webhookDispatch EXCEPT ![d] = r],
           webhookGone' = [webhookGone EXCEPT ![d] = g],
             webhookLasting' = [webhookLasting EXCEPT ![d] = l],
         UNCHANGED <<webhookFile, webhookTargets, webhookUsed>>,
         \A q \in Dispatches \ {d} : (\A t \in Targets : Has(q, t)' <=> Has(q, t))
           /\ (q \in webhookRefused => q \in webhookRefused'),
         Listing(d)', Sending(d)'
  PROVE  HookInv'
<1>1. HookTables'
  BY DEF HookInv, HookTables
<1>2. ASSUME NEW q \in Dispatches \ {d} PROVE Listing(q)' /\ Sending(q)'
  <2>1. webhookDispatch'[q] = webhookDispatch[q] /\ webhookGone'[q] = webhookGone[q]
        /\ webhookLasting'[q] = webhookLasting[q]
        /\ webhookGone[q] \subseteq Targets /\ webhookLasting[q] \subseteq Targets
    BY DEF HookInv, HookTables
  <2>2. Listing(q)'
    BY <2>1 DEF HookInv, Listing, Webhooks!Matches
  <2>3. Sending(q)'
    BY <2>1 DEF HookInv, Sending
  <2>. QED BY <2>2, <2>3
<1>. QED BY <1>1, <1>2 DEF HookInv

LEMMA HookAt ==
  ASSUME HookInv, NEW d \in Dispatches, NEW r,
         webhookDispatch' = [webhookDispatch EXCEPT ![d] = r]
  PROVE  webhookDispatch'[d] = r /\ webhookDispatch[d] \in Sends
         /\ webhookGone[d] \subseteq Targets /\ webhookLasting[d] \subseteq Targets
BY DEF HookInv, HookTables

LEMMA HookBegins ==
  ASSUME HookInv, NEW d \in Dispatches, NEW c \in Webhooks!Call, Webhooks!Dispatch(d, c)
  PROVE  HookInv'
<1> DEFINE r == [Webhooks!Idle EXCEPT !.pc = "listing", !.call = c]
           g == webhookUsed \ Webhooks!Existing
           l == {t \in Webhooks!Existing : Webhooks!Matches(t, c)}
<1>1. /\ webhookDispatch[d].pc = "idle" /\ webhookDispatch' = [webhookDispatch EXCEPT ![d] = r]
      /\ webhookGone' = [webhookGone EXCEPT ![d] = g]
         /\ webhookLasting' = [webhookLasting EXCEPT ![d] = l]
      /\ UNCHANGED <<webhookFile, webhookTargets, webhookLog, webhookRefused, webhookUsed>>
  BY DEF Webhooks!Dispatch, Webhooks!At
<1>2. r \in Sends /\ r.pc = "listing" /\ r.call = c /\ r.left = {}
  BY IdleSends
<1>3. g \subseteq Targets /\ l \subseteq Targets
      /\ (\A t \in g : t \in webhookUsed /\ webhookTargets[t] = None)
         /\ \A t \in l : webhookTargets[t] # None /\ Webhooks!Matches(t, c)
  BY DEF HookInv, HookTables, Webhooks!Existing
<1>. HIDE DEF r, g, l
<1>4. webhookDispatch'[d] = r /\ webhookGone'[d] = g /\ webhookLasting'[d] = l
  BY <1>1 DEF HookInv, HookTables
<1>5. Listing(d)'
  BY <1>1, <1>2, <1>3, <1>4 DEF Listing, Webhooks!Matches
<1>6. Sending(d)'
  BY <1>1, <1>2, <1>3, <1>4 DEF HookInv, Sending, Has
<1>. QED BY <1>1, <1>2, <1>3, <1>5, <1>6, HookMoves DEF Has

\* A step of a dispatch that has begun.
LEMMA HookGoes ==
  ASSUME HookInv, NEW d \in Dispatches, NEW r \in Sends,
         webhookDispatch' = [webhookDispatch EXCEPT ![d] = r],
         UNCHANGED <<webhookFile, webhookTargets, webhookUsed, webhookGone, webhookLasting>>,
         \A q \in Dispatches \ {d} : (\A t \in Targets : Has(q, t)' <=> Has(q, t))
           /\ (q \in webhookRefused => q \in webhookRefused'),
         r.pc # "listing", Sending(d)'
  PROVE  HookInv'
<1>1. webhookGone' = [webhookGone EXCEPT ![d] = webhookGone[d]]
      /\ webhookLasting' = [webhookLasting EXCEPT ![d] = webhookLasting[d]]
      /\ webhookGone[d] \in SUBSET Targets /\ webhookLasting[d] \in SUBSET Targets
  BY DEF HookInv, HookTables
<1>2. Listing(d)'
  BY HookAt DEF HookInv, Listing
<1>. QED BY <1>1, <1>2, HookMoves

LEMMA HookLists ==
  ASSUME HookInv, NEW d \in Dispatches, Webhooks!List(d)
  PROVE  HookInv'
<1> DEFINE l == {t \in Webhooks!Existing : Webhooks!Matches(t, webhookDispatch[d].call)}
           r == Listed(d, l)
<1>1. /\ webhookDispatch[d].pc = "listing" /\ webhookDispatch' = [webhookDispatch EXCEPT ![d] = r]
      /\ UNCHANGED <<webhookFile, webhookTargets, webhookLog, webhookUsed, webhookGone,
                     webhookLasting, webhookRefused>>
  BY DEF Webhooks!List, Webhooks!At, Webhooks!history, HookInv, HookTables, Sends, Listed
<1>2. l \in SUBSET Targets
  BY DEF Webhooks!Existing
<1>5. (\A t \in webhookLasting[d] : t \in l) /\ \A t \in webhookGone[d] : t \notin l
  BY <1>1 DEF HookInv, HookTables, Listing, Webhooks!Existing
<1>. HIDE DEF l
<1>3. r \in Sends /\ r.pc = "sending" /\ r.left = l
  BY <1>2, SendsEdited
<1>4. webhookDispatch'[d] = r
  BY <1>1, HookAt
<1>. HIDE DEF r
<1>6. Sending(d)'
  BY <1>1, <1>3, <1>4, <1>5 DEF HookInv, Sending, Has
<1>. QED BY <1>1, <1>3, <1>6, HookGoes DEF Has

LEMMA HookSends ==
  ASSUME HookInv, NEW d \in Dispatches, NEW t \in Targets, Webhooks!Send(d, t)
  PROVE  HookInv'
<1> DEFINE r == Asking(d, t)
<1>1. /\ webhookDispatch[d].pc = "sending" /\ t \in webhookDispatch[d].left
         /\ webhookDispatch' = [webhookDispatch EXCEPT ![d] = r]
      /\ UNCHANGED <<webhookFile, webhookTargets, webhookLog, webhookUsed, webhookGone,
                     webhookLasting, webhookRefused>>
  BY DEF Webhooks!Send, Webhooks!At, Webhooks!history, HookInv, HookTables, Sends, Asking
<1>3. r \in Sends /\ r.pc = "recording" /\ r.left = webhookDispatch[d].left /\ r.at = t
  BY SendsEdited
<1>4. webhookDispatch'[d] = r
  BY <1>1, HookAt
<1>. HIDE DEF r
<1>6. Sending(d)'
  BY <1>1, <1>3, <1>4 DEF HookInv, Sending, Has
<1>. QED BY <1>1, <1>3, <1>6, HookGoes DEF Has

Recorded(w, left) == [w EXCEPT !.pc = "sending", !.left = left, !.at = None]
LEMMA RecordedIs ==
  ASSUME NEW w \in Sends, NEW left, left \subseteq Targets
  PROVE  Recorded(w, left) = [pc |-> "sending", call |-> w.call, left |-> left, at |-> None]
<1>. DEFINE x == [w EXCEPT !.pc = "sending", !.left = left, !.at = None]
<1>1. x \in Sends
  BY DEF Sends
<1>2. x.pc = "sending" /\ x.call = w.call /\ x.left = left /\ x.at = None
  BY DEF Sends
<1>. HIDE DEF x
<1>3. x = [pc |-> "sending", call |-> w.call, left |-> left, at |-> None]
  BY <1>1, <1>2 DEF Sends
<1>. QED BY <1>3 DEF Recorded, x

LEMMA HookRecords ==
  ASSUME HookInv, NEW d \in Dispatches, Webhooks!RecordEvent(d)
  PROVE  HookInv'
<1> DEFINE at == webhookDispatch[d].at
           left == webhookDispatch[d].left \ {at}
           r == [pc |-> "sending", call |-> webhookDispatch[d].call, left |-> left, at |-> None]
<1>1. /\ webhookDispatch[d].pc = "recording"
         /\ webhookDispatch' = [webhookDispatch EXCEPT ![d] = r]
      /\ webhookLog' = webhookLog \cup {<<d, at>>} /\ at \in webhookDispatch[d].left
      /\ UNCHANGED <<webhookFile, webhookTargets, webhookUsed, webhookGone, webhookLasting,
                     webhookRefused>>
  <2>. DEFINE w == webhookDispatch[d]
  <2>1. w \in Sends /\ w.pc = "recording" /\ at = w.at /\ at \in w.left /\ left \subseteq Targets
    BY DEF Webhooks!RecordEvent, Webhooks!At, HookInv, HookTables, Sending, Sends
  <2>2. Recorded(w, left) = r
    BY <2>1, RecordedIs
  <2>3. webhookDispatch' = [webhookDispatch EXCEPT ![d] = Recorded(w, left)]
    BY DEF Webhooks!RecordEvent, Recorded
  <2>. HIDE DEF r
  <2>. QED BY <2>1, <2>2, <2>3 DEF Webhooks!RecordEvent, Webhooks!history
<1>2. webhookDispatch[d] \in Sends /\ at \in Targets /\ left \subseteq Targets
  BY <1>1, HookAt DEF Sends
<1>3. r \in Sends /\ r.pc = "sending" /\ r.left = left
  BY <1>2 DEF Sends
<1>4. webhookDispatch'[d] = r
  BY <1>1, HookAt
<1>5. /\ \A t \in Targets : Has(d, t)' <=> Has(d, t) \/ t = at
      /\ \A q \in Dispatches \ {d} : \A t \in Targets : Has(q, t)' <=> Has(q, t)
  BY <1>1 DEF Has
<1>. HIDE DEF r
<1>6. Sending(d)'
  <2>1. webhookGone[d] \subseteq Targets /\ webhookLasting[d] \subseteq Targets
    BY <1>1, HookAt
  <2>2. \A t \in webhookLasting[d] : Has(d, t)' \/ t \in left
    BY <1>1, <1>5, <2>1 DEF HookInv, Sending
  <2>3. \A t \in webhookGone[d] : ~Has(d, t)' /\ t \notin left
    BY <1>1, <1>5, <2>1 DEF HookInv, Sending
  <2>. QED BY <1>1, <1>3, <1>4, <2>2, <2>3 DEF Sending
<1>. QED BY <1>1, <1>3, <1>5, <1>6, HookGoes

LEMMA HookRefuses ==
  ASSUME HookInv, NEW d \in Dispatches, Webhooks!RefuseEvent(d)
  PROVE  HookInv'
<1> DEFINE r == [Webhooks!Idle EXCEPT !.pc = "failed"]
<1>1. /\ webhookDispatch[d].pc = "recording"
         /\ webhookDispatch' = [webhookDispatch EXCEPT ![d] = r]
            /\ webhookRefused' = webhookRefused \cup {d}
      /\ UNCHANGED <<webhookFile, webhookTargets, webhookLog, webhookUsed, webhookGone,
                     webhookLasting>>
  BY DEF Webhooks!RefuseEvent, Webhooks!At
<1>3. r \in Sends /\ r.pc = "failed" /\ r.left = {}
  BY IdleSends
<1>4. webhookDispatch'[d] = r
  BY <1>1, HookAt
<1>. HIDE DEF r
<1>6. Sending(d)'
  BY <1>1, <1>3, <1>4 DEF HookInv, Sending, Has
<1>. QED BY <1>1, <1>3, <1>6, HookGoes DEF Has

LEMMA HookReturns ==
  ASSUME HookInv, NEW d \in Dispatches, Webhooks!Return(d)
  PROVE  HookInv'
<1> DEFINE r == [webhookDispatch[d] EXCEPT !.pc = "done"]
<1>1. /\ webhookDispatch[d].pc = "sending" /\ webhookDispatch[d].left = {}
         /\ webhookDispatch' = [webhookDispatch EXCEPT ![d] = r]
      /\ UNCHANGED <<webhookFile, webhookTargets, webhookLog, webhookUsed, webhookGone,
                     webhookLasting, webhookRefused>>
  BY DEF Webhooks!Return, Webhooks!At, Webhooks!history
<1>3. r \in Sends /\ r.pc = "done" /\ r.left = {}
  BY <1>1, SendsEdited
<1>4. webhookDispatch'[d] = r
  BY <1>1, HookAt
<1>. HIDE DEF r
<1>6. Sending(d)'
  BY <1>1, <1>3, <1>4 DEF HookInv, Sending, Has
<1>. QED BY <1>1, <1>3, <1>6, HookGoes DEF Has

LEMMA HookRestarts ==
  ASSUME HookInv, Webhooks!WebhooksAssumption, NEW lost \in SUBSET Dispatches,
         Webhooks!Restart(lost)
  PROVE  HookInv'
<1> DEFINE failed == [Webhooks!Idle EXCEPT !.pc = "failed"]
           ends(d) == d \in lost /\ webhookDispatch[d].pc \notin {"idle", "done", "failed"}
<1>1. /\ webhookTargets' = [t \in Targets |-> IF t
                            \in Filed THEN webhookFile[t] ELSE webhookTargets[t]]
      /\ webhookDispatch' = [d \in Dispatches |-> IF ends(d) THEN failed ELSE webhookDispatch[d]]
      /\ webhookRefused' = webhookRefused \cup {d \in lost :
         webhookDispatch'[d] # webhookDispatch[d]}
      /\ webhookGone' = [d \in Dispatches |-> webhookGone[d] \ Filed]
      /\ UNCHANGED <<webhookFile, webhookLog, webhookLasting, webhookUsed>>
  BY DEF Webhooks!Restart
<1>2. failed \in Sends /\ failed.pc = "failed" /\ failed.left = {}
  BY IdleSends
<1>. HIDE DEF failed
<1>3. HookTables'
  BY <1>1, <1>2 DEF HookInv, HookTables, Webhooks!WebhooksAssumption
<1>4. ASSUME NEW d \in Dispatches PROVE Listing(d)' /\ Sending(d)'
  <2>1. webhookGone'[d] = webhookGone[d] \ Filed
        /\ webhookDispatch'[d] = (IF ends(d) THEN failed ELSE webhookDispatch[d])
        /\ webhookGone[d] \subseteq Targets /\ webhookLasting[d] \subseteq Targets
    BY <1>1 DEF HookInv, HookTables
  <2>2. \A t \in webhookLasting[d] : webhookTargets'[t] = webhookTargets[t]
    BY <1>1, <2>1 DEF HookInv, HookTables, Listing
  <2>3. \A t \in webhookGone'[d] : webhookTargets'[t] = webhookTargets[t]
    BY <1>1, <2>1
  <2>4. Listing(d)'
    <3>1. webhookDispatch'[d].pc = "listing" => webhookDispatch'[d] = webhookDispatch[d]
      BY <1>2, <2>1
    <3>2. \A t \in webhookGone'[d] : t \in webhookGone[d]
      BY <2>1
    <3>3. Listing(d) /\ webhookLasting' = webhookLasting /\ webhookUsed' = webhookUsed
      BY <1>1 DEF HookInv
    <3>4. \A t \in webhookGone'[d] : t \in webhookUsed' /\ webhookTargets'[t] = None
      BY <2>3, <3>2, <3>3 DEF Listing
    <3>5. \A t \in webhookLasting'[d] : webhookTargets'[t] # None
      BY <2>2, <3>3 DEF Listing
    <3>6. webhookDispatch'[d].pc = "listing"
          => \A t \in webhookLasting'[d] : Webhooks!Matches(t, webhookDispatch[d].call)'
      BY <2>2, <3>1, <3>3 DEF Listing, Webhooks!Matches
    <3>. QED BY <3>4, <3>5, <3>6 DEF Listing
  <2>5. CASE ends(d)
    <3>1. d \in webhookRefused'
      BY <1>1, <1>2, <2>1, <2>5
    <3>. QED BY <1>1, <1>2, <2>1, <2>4, <2>5, <3>1 DEF HookInv, Sending, Has
  <2>6. CASE ~ends(d)
    BY <1>1, <2>1, <2>4, <2>6 DEF HookInv, Sending, Has
  <2>. QED BY <2>5, <2>6
<1>. QED BY <1>3, <1>4 DEF HookInv

LEMMA HookInit ==
  ASSUME Webhooks!WebhooksAssumption, Webhooks!Init
  PROVE  HookInv
<1>1. HookTables
  BY IdleSends DEF Webhooks!Init, HookTables, Webhooks!WebhooksAssumption
<1>2. \A d \in Dispatches : webhookDispatch[d].pc = "idle" /\ webhookDispatch[d].left = {}
      /\ webhookGone[d] = {} /\ webhookLasting[d] = {}
  BY IdleSends DEF Webhooks!Init
<1>3. webhookLog = {}
  BY DEF Webhooks!Init
<1>. QED BY <1>1, <1>2, <1>3 DEF HookInv, Listing, Sending, Has

LEMMA HookKept ==
  ASSUME Webhooks!WebhooksAssumption, HookInv, [Webhooks!Next]_(Webhooks!vars)
  PROVE  HookInv'
<1>1. CASE UNCHANGED Webhooks!vars
  BY <1>1 DEF Webhooks!vars, Webhooks!history, HookInv, HookTables, Listing, Sending, Has,
     Webhooks!Matches
<1>. QED BY <1>1, HookCreates, HookDeletes, HookBegins, HookLists, HookSends, HookRecords,
         HookRefuses,
        HookReturns, HookRestarts DEF Webhooks!Next

\* For any targets, dispatches and restarts: a dispatch that returns has tried
\* every target that waited for its event from its beginning to its end, and
\* never one that was deleted before it began and that no start brings back from
\* the file; and it returns unless the log
\* refused a record or its replica died (WebhooksService.dispatch).
THEOREM TriedExactlyAlways == PanelSpec => []TriedExactly
<1>. DEFINE I == part = "webhooks" => HookInv
<1>1. PanelInit => I
  BY HookInit, WebhooksFit DEF PanelInit
<1>2. I /\ [PanelNext]_panelVars => I'
  BY HookKept, WebhooksFit, PartMoves
<1>3. I => TriedExactly
  BY DEF HookInv, HookTables, Listing, Sending, Has, TriedExactly, Webhooks!TriedExactly,
     Webhooks!Tried, Webhooks!At
<1>. QED BY <1>1, <1>2, <1>3, PTL DEF PanelSpec

-----------------------------------------------------------------------------
(***************************************************************************)
(* Settings: LoadedAsSaved, for any environments and any updates and       *)
(* starts.                                                                 *)
(*                                                                         *)
(* The file has the settings in force, or the settings are what a start    *)
(* made of it under some environment (FileOK); what an update or a start   *)
(* leaves out of form was so before, in the environment it merges into     *)
(* (FormOK).                                                               *)
(***************************************************************************)

FileOK ==
  settingFile # None =>
    \E s \in Site!Settings :
      /\ settingFile = Site!Saved(s)
      /\ settingSettings = s \/ \E e \in Environments : settingSettings = Site!Load(e,
         settingFile)

\* Where a field may be out of form.
Excused(s, f) ==
  \/ \E e \in Environments : s[f] = e[f]
  \/ f = "max" /\ s.max < Site!Clamp(s.min, MinLow, MinHigh)
FormOK(s) == \A f \in Site!Fields : Site!InForm(s, f) \/ Excused(s, f)

SettingsInv == settingSettings \in Site!Settings /\ FormOK(settingSettings) /\ FileOK

\* What update() and a start merge: any field may be missing.
Sent(p) ==
  /\ p.min \in Int \cup {None} /\ p.max \in Int \cup {None} /\ p.port \in Nat \cup {None}
  /\ p.url \in Site!Urls \cup {None} /\ p.name \in Site!Names \cup {None}
  /\ p.secret \in Site!Secrets \cup {None}
  /\ p.verify \in BOOLEAN \cup {None} /\ p.smtp \in BOOLEAN \cup {None}
     /\ p.s3 \in BOOLEAN \cup {None}
  /\ p.security \in Site!Securities \cup {None}

LEMMA RangesAreNumbers ==
  /\ MinLow \in Nat /\ MinHigh \in Nat /\ MaxHigh \in Nat /\ MinLow <= MinHigh
     /\ MinHigh <= MaxHigh
  /\ \A e \in Environments : e \in Site!Settings
BY SettingsFit DEF Site!PanelSettingsAssumption

\* What is not sent is none of the values.
LEMMA UndefinedIsNoValue ==
  /\ \A n \in Int : n # None
  /\ \A b \in BOOLEAN : b # None
  /\ \A u \in Site!Urls \cup Site!Names \cup Site!Secrets \cup Site!Securities : u # None
BY SettingsFit DEF Site!PanelSettingsAssumption

\* The fields of settings.
LEMMA FieldTypes ==
  ASSUME NEW s \in Site!Settings
  PROVE  /\ s.min \in Int /\ s.max \in Int /\ s.port \in Nat /\ s.url \in Site!Urls
         /\ s.name \in Site!Names /\ s.secret \in Site!Secrets /\ s.verify \in BOOLEAN
         /\ s.smtp \in BOOLEAN /\ s.s3 \in BOOLEAN /\ s.security \in Site!Securities
BY DEF Site!Settings

\* numberInRange(): a number that was sent is brought into the range.
LEMMA Clamps ==
  ASSUME NEW v \in Int, NEW low \in Int, NEW high \in Int
  PROVE  /\ Site!Clamp(v, low, high) \in Int /\ Site!Clamp(v, low, high) <= high
         /\ low <= high => low <= Site!Clamp(v, low, high)
         /\ low <= v /\ v <= high => Site!Clamp(v, low, high) = v
BY DEF Site!Clamp

LEMMA InRangeTyped ==
  ASSUME NEW v \in Int \cup {None}, NEW was \in Int, NEW low \in Int, NEW high \in Int
  PROVE  Site!InRange(v, was, low, high) \in Int
BY Clamps DEF Site!InRange

\* The merged fields are of the type of settings.
LEMMA MergeTyped ==
  ASSUME NEW s \in Site!Settings, NEW p, Sent(p)
  PROVE  Site!Merge(s, p) \in Site!Settings
<1>1. MinLow \in Int /\ MinHigh \in Int /\ MaxHigh \in Int
  BY RangesAreNumbers
<1>2. /\ s.min \in Int /\ s.max \in Int /\ s.port \in Nat /\ s.url \in Site!Urls
      /\ s.name \in Site!Names /\ s.secret \in Site!Secrets /\ s.verify \in BOOLEAN
      /\ s.smtp \in BOOLEAN /\ s.s3 \in BOOLEAN /\ s.security \in Site!Securities
  BY FieldTypes
<1>3. Site!MinLength(s, p) \in Int
  BY <1>1, <1>2, InRangeTyped DEF Sent, Site!MinLength
<1>4. Site!MaxLength(s, p) \in Int
  <2>1. p.max \in Int \cup {None}
    BY DEF Sent
  <2>2. Site!InRange(p.max, s.max, Site!MinLength(s, p), MaxHigh) \in Int
    BY <1>1, <1>2, <1>3, <2>1, InRangeTyped, Zenon
  <2>. QED BY <2>2 DEF Site!MaxLength
<1>10. Site!Port(s, p) \in Nat
  BY <1>2 DEF Sent, Site!Port, Site!Or
<1>5. Site!Url(s, p) \in Site!Urls
  <2>1. \A u \in Site!Urls : Site!Origin(u) \in Site!Urls
    BY DEF Site!Origin, Site!Urls
  <2>. QED BY <1>2, <2>1, Zenon DEF Sent, Site!Url
<1>6. Site!OrText(p.name, s.name) \in Site!Names
  BY <1>2 DEF Sent, Site!OrText, Site!Trim, Site!Names
<1>7. Site!OrOptional(p.secret, s.secret) \in Site!Secrets
  BY <1>2 DEF Sent, Site!OrOptional, Site!Trim, Site!Secrets
<1>8. /\ Site!Or(p.verify, s.verify) \in BOOLEAN /\ Site!Or(p.smtp, s.smtp) \in BOOLEAN
      /\ Site!Or(p.s3, s.s3) \in BOOLEAN
  BY <1>2 DEF Sent, Site!Or
<1>9. Site!Security(s, p) \in Site!Securities
  BY <1>2 DEF Sent, Site!Security, Site!Securities
<1>. QED BY <1>3, <1>4, <1>5, <1>6, <1>7, <1>8, <1>9, <1>10 DEF Site!Merge, Site!Settings

\* The merged settings, field by field.
LEMMA MergedFields ==
  ASSUME NEW s, NEW p
  PROVE  LET m == Site!Merge(s, p) IN
         /\ m.min = Site!MinLength(s, p) /\ m.max = Site!MaxLength(s, p) /\ m.url = Site!Url(s, p)
         /\ m.name = Site!OrText(p.name, s.name) /\ m.secret = Site!OrOptional(p.secret, s.secret)
         /\ m.verify = Site!Or(p.verify, s.verify) /\ m.smtp = Site!Or(p.smtp, s.smtp)
         /\ m.port = Site!Port(s, p) /\ m.security = Site!Security(s, p)
         /\ m.s3 = Site!Or(p.s3, s.s3)
BY DEF Site!Merge

\* A merge leaves a field in form, or as it was.
LEMMA MergeKeepsForm ==
  ASSUME NEW s \in Site!Settings, FormOK(s), NEW p, Sent(p)
  PROVE  FormOK(Site!Merge(s, p))
<1>. DEFINE m == Site!Merge(s, p)
<1>. SUFFICES ASSUME NEW f \in Site!Fields PROVE Site!InForm(m, f) \/ Excused(m, f)
  BY DEF FormOK
<1>1. /\ m.min = Site!MinLength(s, p) /\ m.max = Site!MaxLength(s, p) /\ m.url = Site!Url(s, p)
      /\ m.name = Site!OrText(p.name, s.name) /\ m.secret = Site!OrOptional(p.secret, s.secret)
  BY MergedFields
<1>2. m \in Site!Settings
  BY MergeTyped
<1>. HIDE DEF m
<1>3. MinLow \in Int /\ MinHigh \in Int /\ MaxHigh \in Int /\ MinLow <= MinHigh
      /\ MinHigh <= MaxHigh
  BY RangesAreNumbers
<1>4. /\ s.min \in Int /\ s.max \in Int /\ m.min \in Int /\ m.max \in Int /\ s.port \in Int
      /\ s.url \in Site!Urls /\ s.name \in Site!Names /\ s.secret \in Site!Secrets
  BY <1>2, FieldTypes
<1>5. Site!InForm(s, f) \/ Excused(s, f)
  BY DEF FormOK
<1>6. CASE f = "min"
  <2>1. CASE p.min = None
    BY <1>1, <1>5, <1>6, <2>1 DEF Site!MinLength, Site!InRange, Site!InForm, Excused
  <2>2. CASE p.min # None
    <3>1. m.min = Site!Clamp(p.min, MinLow, MinHigh) /\ p.min \in Int
      BY <1>1, <2>2 DEF Site!MinLength, Site!InRange, Sent
    <3>2. m.min \in MinLow..MinHigh
      <4>1. Site!Clamp(p.min, MinLow, MinHigh) \in MinLow..MinHigh
        BY <1>3, <3>1 DEF Site!Clamp
      <4>. QED BY <3>1, <4>1
    <3>. QED BY <1>6, <3>2 DEF Site!InForm
  <2>. QED BY <2>1, <2>2
<1>7. CASE f = "max"
  <2>. DEFINE c == Site!Clamp(m.min, MinLow, MinHigh)
  <2>1. c \in Int
    BY <1>3, <1>4, Clamps
  <2>2. CASE m.max <= MaxHigh
    <3>1. m.max \in c..MaxHigh \/ m.max < c
      <4>. HIDE DEF c
      <4>. QED BY <1>3, <1>4, <2>1, <2>2
    <3>. QED BY <1>7, <3>1 DEF Site!InForm, Excused
  <2>3. CASE ~(m.max <= MaxHigh)
    <3>1. p.max = None
      <4>1. SUFFICES ASSUME p.max # None PROVE FALSE
        OBVIOUS
      <4>2. m.max = Site!Clamp(p.max, m.min, MaxHigh) /\ p.max \in Int
        BY <1>1, <4>1 DEF Site!MaxLength, Site!InRange, Sent
      <4>3. Site!Clamp(p.max, m.min, MaxHigh) <= MaxHigh
        BY <1>3, <1>4, <4>2 DEF Site!Clamp
      <4>. QED BY <2>3, <4>2, <4>3
    <3>2. m.max = s.max
      BY <1>1, <3>1 DEF Site!MaxLength, Site!InRange
    <3>3. Site!Clamp(s.min, MinLow, MinHigh) \in Int /\ Site!Clamp(s.min, MinLow,
          MinHigh) <= MinHigh
      BY <1>3, <1>4, Clamps
    <3>4. ~Site!InForm(s, f)
      <4>1. Site!InForm(s, f) => s.max <= MaxHigh
        BY <1>3, <1>4, <1>7, <3>3 DEF Site!InForm
      <4>. QED BY <2>3, <3>2, <4>1
    <3>5. ~(s.max < Site!Clamp(s.min, MinLow, MinHigh))
      BY <1>3, <1>4, <2>3, <3>2, <3>3
    <3>. QED BY <1>5, <1>7, <3>2, <3>4, <3>5 DEF Excused
  <2>. QED BY <2>2, <2>3
<1>8. CASE f = "url"
  <2>1. CASE m.url = s.url
    BY <1>5, <1>8, <2>1 DEF Site!InForm, Excused
  <2>2. CASE m.url # s.url
    <3>1. p.url \in Site!Urls /\ Site!Allowed(p.url) /\ m.url = Site!Origin(p.url)
      BY <1>1, <2>2 DEF Site!Url, Sent
    <3>2. Site!Allowed(m.url) /\ Site!Origin(m.url) = m.url
      BY <3>1, UndefinedIsNoValue DEF Site!Urls, Site!Allowed, Site!Origin
    <3>. QED BY <1>8, <3>2 DEF Site!InForm
  <2>. QED BY <2>1, <2>2
<1>9. CASE f = "name"
  <2>1. m.name = s.name \/ (m.name # "empty" /\ Site!Trim(m.name) = m.name)
    BY <1>1 DEF Site!OrText, Site!Trim, Sent, Site!Names
  <2>. QED BY <1>5, <1>9, <2>1 DEF Site!InForm, Excused
<1>10. CASE f = "secret"
  <2>1. m.secret = s.secret \/ Site!Trim(m.secret) = m.secret
    BY <1>1 DEF Site!OrOptional, Site!Trim, Sent, Site!Secrets
  <2>. QED BY <1>5, <1>10, <2>1 DEF Site!InForm, Excused
<1>11. CASE f \notin {"min", "max", "url", "name", "secret"}
  BY <1>11 DEF Site!InForm
<1>. QED BY <1>6, <1>7, <1>8, <1>9, <1>10, <1>11

\* What was saved, field by field.
LEMMA SavedFields ==
  ASSUME NEW s \in Site!Settings
  PROVE  /\ \A f \in Site!Fields : Site!Saved(s)[f] = s[f]
         /\ LET p == Site!Saved(s) IN
            /\ p.min = s.min /\ p.max = s.max /\ p.url = s.url /\ p.name = s.name
               /\ p.secret = s.secret
            /\ p.verify = s.verify /\ p.smtp = s.smtp /\ p.port = s.port
               /\ p.security = s.security
            /\ p.s3 = s.s3
<1>1. DOMAIN s = Site!Fields
  BY DEF Site!Settings, Site!Fields
<1>2. ASSUME NEW f \in Site!Fields PROVE Site!Saved(s)[f] = s[f]
  BY <1>1 DEF Site!Saved, Site!Fields
<1>. QED BY <1>2 DEF Site!Fields

LEMMA SavedIsSent ==
  ASSUME NEW s \in Site!Settings
  PROVE  Sent(Site!Saved(s))
BY SavedFields, FieldTypes DEF Sent

\* A start brings the numbers into their ranges, and reads back every field
\* that was saved in form.
LEMMA LoadsSaved ==
  ASSUME NEW s \in Site!Settings, NEW e \in Environments, NEW f \in Site!Fields
  PROVE  /\ Site!InForm(Site!Saved(s), f) => Site!Load(e, Site!Saved(s))[f] = s[f]
         /\ f \in {"min", "max"} => Site!InForm(Site!Load(e, Site!Saved(s)), f)
<1>. DEFINE p == Site!Saved(s)  m == Site!Load(e, p)
<1>1. MinLow \in Int /\ MinHigh \in Int /\ MaxHigh \in Int /\ MinLow <= MinHigh
      /\ MinHigh <= MaxHigh
  BY RangesAreNumbers
<1>2. /\ s.min \in Int /\ s.max \in Int /\ s.port \in Nat /\ s.url \in Site!Urls
      /\ s.name \in Site!Names /\ s.secret \in Site!Secrets /\ s.verify \in BOOLEAN
      /\ s.smtp \in BOOLEAN /\ s.s3 \in BOOLEAN /\ s.security \in Site!Securities
  BY FieldTypes
<1>3. /\ p.min = s.min /\ p.max = s.max /\ p.url = s.url /\ p.name = s.name /\ p.secret = s.secret
      /\ p.verify = s.verify /\ p.smtp = s.smtp /\ p.port = s.port /\ p.security = s.security
      /\ p.s3 = s.s3
  BY SavedFields
<1>4. /\ m.min = Site!MinLength(e, p) /\ m.max = Site!MaxLength(e, p) /\ m.url = Site!Url(e, p)
      /\ m.name = Site!OrText(p.name, e.name) /\ m.secret = Site!OrOptional(p.secret, e.secret)
      /\ m.verify = Site!Or(p.verify, e.verify) /\ m.smtp = Site!Or(p.smtp, e.smtp)
      /\ m.port = Site!Port(e, p) /\ m.security = Site!Security(e, p)
      /\ m.s3 = Site!Or(p.s3, e.s3)
  BY MergedFields DEF Site!Load
<1>. HIDE DEF p, m
<1>5. /\ s.min # None /\ s.max # None /\ s.port # None /\ s.url # None /\ s.name # None
      /\ s.secret # None /\ s.verify # None /\ s.smtp # None /\ s.s3 # None /\ s.security # None
  BY <1>2, UndefinedIsNoValue
<1>. DEFINE c == Site!Clamp(s.min, MinLow, MinHigh)
<1>6. m.min = c
  BY <1>3, <1>4, <1>5 DEF Site!MinLength, Site!InRange
<1>7. m.max = Site!Clamp(s.max, c, MaxHigh)
  BY <1>3, <1>4, <1>5, <1>6 DEF Site!MaxLength, Site!InRange
<1>8. c \in Int /\ MinLow <= c /\ c <= MinHigh /\ c <= MaxHigh
      /\ (MinLow <= s.min /\ s.min <= MinHigh => c = s.min)
  <2>1. c \in Int /\ MinLow <= c /\ c <= MinHigh
        /\ (MinLow <= s.min /\ s.min <= MinHigh => c = s.min)
    BY <1>1, <1>2 DEF Site!Clamp
  <2>. HIDE DEF c
  <2>. QED BY <1>1, <2>1
<1>9. m.max \in Int /\ c <= m.max /\ m.max <= MaxHigh
      /\ (c <= s.max /\ s.max <= MaxHigh => m.max = s.max)
  <2>. HIDE DEF c
  <2>1. /\ Site!Clamp(s.max, c, MaxHigh) \in Int /\ c <= Site!Clamp(s.max, c, MaxHigh)
        /\ Site!Clamp(s.max, c, MaxHigh) <= MaxHigh
        /\ (c <= s.max /\ s.max <= MaxHigh => Site!Clamp(s.max, c, MaxHigh) = s.max)
    BY <1>1, <1>2, <1>8 DEF Site!Clamp
  <2>. QED BY <1>7, <2>1
<1>10. CASE f = "min"
  <2>1. m.min \in MinLow..MinHigh
    <3>. HIDE DEF c
    <3>. QED BY <1>1, <1>6, <1>8
  <2>2. Site!InForm(p, f) => m.min = s.min
    <3>1. Site!InForm(p, f) => MinLow <= s.min /\ s.min <= MinHigh
      BY <1>1, <1>2, <1>3, <1>10 DEF Site!InForm
    <3>. HIDE DEF c
    <3>. QED BY <1>6, <1>8, <3>1
  <2>. QED BY <1>10, <2>1, <2>2 DEF Site!InForm, p, m
<1>11. CASE f = "max"
  <2>1. Site!Clamp(m.min, MinLow, MinHigh) = c
    <3>1. m.min \in Int /\ MinLow <= m.min /\ m.min <= MinHigh
      <4>. HIDE DEF c
      <4>. QED BY <1>6, <1>8
    <3>. QED BY <1>1, <1>6, <3>1, Clamps
  <2>2. m.max \in c..MaxHigh
    <3>. HIDE DEF c
    <3>. QED BY <1>1, <1>8, <1>9
  <2>3. Site!InForm(m, f)
    BY <1>11, <2>1, <2>2 DEF Site!InForm
  <2>4. Site!InForm(p, f) => m.max = s.max
    <3>1. Site!InForm(p, f) => s.max \in c..MaxHigh
      BY <1>3, <1>11 DEF Site!InForm
    <3>. HIDE DEF c
    <3>. QED BY <1>1, <1>2, <1>8, <1>9, <3>1
  <2>. QED BY <1>11, <2>3, <2>4 DEF p, m
<1>12. CASE f = "url"
  <2>1. Site!InForm(p, f) => m.url = s.url
    BY <1>3, <1>4, <1>5, <1>12 DEF Site!InForm, Site!Url
  <2>. QED BY <1>12, <2>1 DEF p, m
<1>13. CASE f = "name"
  <2>1. Site!InForm(p, f) => m.name = s.name
    BY <1>3, <1>4, <1>5, <1>13 DEF Site!InForm, Site!OrText
  <2>. QED BY <1>13, <2>1 DEF p, m
<1>14. CASE f = "secret"
  <2>1. Site!InForm(p, f) => m.secret = s.secret
    BY <1>3, <1>4, <1>5, <1>14 DEF Site!InForm, Site!OrOptional
  <2>. QED BY <1>14, <2>1 DEF p, m
<1>15. CASE f \in {"verify", "smtp", "s3", "security", "port"}
  <2>1. m.verify = s.verify /\ m.smtp = s.smtp /\ m.s3 = s.s3 /\ m.port = s.port
    BY <1>3, <1>4, <1>5 DEF Site!Or, Site!Port
  <2>2. Site!Security(e, p) = s.security
    BY <1>3, <1>5, Zenon DEF Site!Security
  <2>. QED BY <1>4, <1>15, <2>1, <2>2 DEF p, m
<1>. QED BY <1>10, <1>11, <1>12, <1>13, <1>14, <1>15 DEF Site!Fields

LEMMA PatchIsSent ==
  ASSUME NEW owner \in BOOLEAN, NEW p \in Site!Patches, settingSettings \in Site!Settings
  PROVE  Sent(Site!Sanitized(owner, p))
<1>1. DOMAIN Site!Unsent = Site!Fields \cup {"secure"}
  BY DEF Site!Unsent
<1>2. \A f \in DOMAIN Site!Unsent : Site!Unsent[f] = None
  BY DEF Site!Unsent
<1>3. Sent(p) /\ DOMAIN p = DOMAIN Site!Unsent
  <2>1. ASSUME NEW a \in Lengths \cup {None}, NEW b \in Lengths \cup {None},
        p = Site!Passwords(a, b)
        PROVE  Sent(p) /\ DOMAIN p = DOMAIN Site!Unsent
    BY <1>1, <1>2, <2>1, SettingsFit DEF Site!PanelSettingsAssumption, Sent, Site!Passwords,
       Site!Fields
  <2>2. ASSUME NEW u \in Site!Urls, NEW b \in BOOLEAN, p = Site!Address(u, b)
        PROVE  Sent(p) /\ DOMAIN p = DOMAIN Site!Unsent
    BY <1>1, <1>2, <2>2 DEF Sent, Site!Address, Site!Fields
  <2>3. ASSUME NEW n \in {None, 465, 587}, NEW b \in BOOLEAN \cup {None}, p = Site!Mail(n, b)
        PROVE  Sent(p) /\ DOMAIN p = DOMAIN Site!Unsent
    <3>1. p.smtp = TRUE /\ p.port = n /\ DOMAIN p = DOMAIN Site!Unsent
          /\ \A f \in DOMAIN Site!Unsent \ {"smtp", "port", "secure"} : p[f] = None
      BY <1>1, <1>2, <2>3 DEF Site!Mail, Site!Fields
    <3>2. /\ p.min = None /\ p.max = None /\ p.url = None /\ p.name = None /\ p.secret = None
          /\ p.verify = None /\ p.s3 = None /\ p.security = None
      BY <1>1, <3>1 DEF Site!Fields
    <3>3. p.port \in Nat \cup {None}
      BY <3>1
    <3>. QED BY <3>1, <3>2, <3>3, Zenon DEF Sent
  <2>4. ASSUME NEW t \in {"empty", "padded-k"}, NEW b \in BOOLEAN, p = Site!Key(t, b)
        PROVE  Sent(p) /\ DOMAIN p = DOMAIN Site!Unsent
    BY <1>1, <1>2, <2>4 DEF Sent, Site!Key, Site!Fields, Site!Secrets
  <2>5. ASSUME NEW t \in {"empty", "b"}, NEW y \in {None, "auto", "tls"}, p = Site!Naming(t, y)
        PROVE  Sent(p) /\ DOMAIN p = DOMAIN Site!Unsent
    BY <1>1, <1>2, <2>5 DEF Sent, Site!Naming, Site!Fields, Site!Names, Site!Securities
  <2>6. \/ p \in {Site!Passwords(a, b) : a, b \in Lengths \cup {None}}
        \/ p \in {Site!Address(u, b) : u \in Site!Urls, b \in BOOLEAN}
        \/ p \in {Site!Mail(n, b) : n \in {None, 465, 587}, b \in BOOLEAN \cup {None}}
        \/ p \in {Site!Key(t, b) : t \in {"empty", "padded-k"}, b \in BOOLEAN}
        \/ p \in {Site!Naming(t, y) : t \in {"empty", "b"}, y \in {None, "auto", "tls"}}
    BY DEF Site!Patches
  <2>7. CASE p \in {Site!Passwords(a, b) : a, b \in Lengths \cup {None}}
    BY <2>1, <2>7
  <2>8. CASE p \in {Site!Address(u, b) : u \in Site!Urls, b \in BOOLEAN}
    BY <2>2, <2>8
  <2>9. CASE p \in {Site!Mail(n, b) : n \in {None, 465, 587}, b \in BOOLEAN \cup {None}}
    BY <2>3, <2>9
  <2>10. CASE p \in {Site!Key(t, b) : t \in {"empty", "padded-k"}, b \in BOOLEAN}
    BY <2>4, <2>10
  <2>11. CASE p \in {Site!Naming(t, y) : t \in {"empty", "b"}, y \in {None, "auto", "tls"}}
    BY <2>5, <2>11
  <2>. QED BY <2>6, <2>7, <2>8, <2>9, <2>10, <2>11
<1>4. settingSettings.s3 \in BOOLEAN
  BY FieldTypes
<1>5. Sent([p EXCEPT !.s3 = settingSettings.s3])
  BY <1>1, <1>3, <1>4 DEF Sent, Site!Fields
<1>. QED BY <1>3, <1>5 DEF Site!Sanitized

LEMMA SettingsInit ==
  ASSUME Site!Init
  PROVE  SettingsInv
BY RangesAreNumbers DEF Site!Init, SettingsInv, FileOK, FormOK, Excused

LEMMA SettingsKept ==
  ASSUME SettingsInv, [Site!Next]_(Site!vars)
  PROVE  SettingsInv'
<1>1. ASSUME NEW owner \in BOOLEAN, NEW p \in Site!Patches, Site!Update(owner, p)
      PROVE  SettingsInv'
  <2>1. settingSettings' = Site!Merge(settingSettings, Site!Sanitized(owner, p))
        /\ settingFile' = Site!Saved(settingSettings')
    BY <1>1 DEF Site!Update
  <2>2. settingSettings' \in Site!Settings /\ FormOK(settingSettings')
    BY <2>1, PatchIsSent, MergeTyped, MergeKeepsForm DEF SettingsInv
  <2>3. FileOK'
    BY <2>1, <2>2 DEF FileOK
  <2>. QED BY <2>2, <2>3 DEF SettingsInv, FormOK, Excused
<1>2. CASE Site!Restart
  <2>1. PICK e \in Environments :
          settingSettings' = IF settingFile = None THEN e ELSE Site!Load(e, settingFile)
    BY <1>2 DEF Site!Restart
  <2>2. settingFile' = settingFile
    BY <1>2 DEF Site!Restart
  <2>3. e \in Site!Settings /\ FormOK(e)
    BY RangesAreNumbers DEF FormOK, Excused
  <2>4. CASE settingFile = None
    BY <2>1, <2>2, <2>3, <2>4 DEF SettingsInv, FileOK, FormOK, Excused
  <2>5. CASE settingFile # None
    <3>1. PICK s \in Site!Settings : settingFile = Site!Saved(s)
      BY <2>5 DEF SettingsInv, FileOK
    <3>2. settingSettings' = Site!Load(e, settingFile)
      BY <2>1, <2>5
    <3>3. settingSettings' \in Site!Settings /\ FormOK(settingSettings')
      BY <2>3, <3>1, <3>2, SavedIsSent, MergeTyped, MergeKeepsForm DEF Site!Load
    <3>4. FileOK'
      BY <2>2, <3>1, <3>2 DEF FileOK
    <3>. QED BY <3>3, <3>4 DEF SettingsInv, FormOK, Excused
  <2>. QED BY <2>4, <2>5
<1>3. CASE UNCHANGED <<settingSettings, settingFile>>
  BY <1>3 DEF SettingsInv, FileOK, FormOK, Excused
<1>. QED BY <1>1, <1>2, <1>3 DEF Site!Next, Site!vars, Site!Tick, Site!Attempt, Site!Count,
         Site!SetExpiry

LEMMA SettingsReadBack ==
  ASSUME SettingsInv
  PROVE  Site!LoadedAsSaved
<1>1. \A f \in Site!Fields : Site!InForm(settingSettings, f) \/ Site!OutOfForm(f)
  BY DEF SettingsInv, FormOK, Excused, Site!OutOfForm
<1>2. ASSUME settingFile # None, NEW e \in Environments, NEW f \in Site!Fields
      PROVE  /\ Site!InForm(settingFile, f) => Site!Load(e, settingFile)[f] = settingSettings[f]
             /\ f \in {"min", "max"} => Site!InForm(Site!Load(e, settingFile), f)
  <2>1. PICK s \in Site!Settings :
          /\ settingFile = Site!Saved(s)
          /\ settingSettings = s \/ \E d \in Environments : settingSettings = Site!Load(d,
             settingFile)
    BY <1>2 DEF SettingsInv, FileOK
  <2>2. Site!InForm(settingFile, f) => settingSettings[f] = s[f]
    BY <2>1, LoadsSaved
  <2>. QED BY <2>1, <2>2, LoadsSaved
<1>. QED BY <1>1, <1>2 DEF Site!LoadedAsSaved

\* For any environments, in form or not, and any updates and starts: a field is
\* out of form only where an environment gave it so, and a start reads back, by
\* the second copy of the merging code, every field that was saved in form
\* (PanelSettingsService.update, updateInMemory).
THEOREM LoadedAsSavedAlways == PanelSpec => []LoadedAsSaved
<1>. DEFINE I == part = "settings" => SettingsInv
<1>1. PanelInit => I
  BY SettingsInit DEF PanelInit
<1>2. I /\ [PanelNext]_panelVars => I'
  BY SettingsKept, PartMoves
<1>3. I => LoadedAsSaved
  BY SettingsReadBack DEF LoadedAsSaved
<1>. QED BY <1>1, <1>2, <1>3, PTL DEF PanelSpec

-----------------------------------------------------------------------------
(***************************************************************************)
(* Access: who may do what with a server, for any accounts, grants and      *)
(* requests at the same time.                                              *)
(*                                                                         *)
(* A grant under way is for an account that is there and for the server    *)
(* that was asked for (GrantsStand); a row outlives its account only while  *)
(* the deletion has not reached the rows (RowsStand); an entry of the log,  *)
(* or on its way there, outlives its account or its server only while      *)
(* somebody is about to prune (LogStands).                                 *)
(***************************************************************************)

Granting(born) ==
  [kind : {"grant", "revoke"}, pc : {"again", "write"}, actor : Members, user : Members,
   grant : Grants \cup {None}, born : born]
Deleting == [kind : {"delete"}, pc : {"drop", "rows", "prune"}, actor : Members, user : Members]
Removing == [kind : {"remove"}, pc : {"prune"}]

AccessTypes ==
  /\ DOMAIN accessAccounts = Members /\ DOMAIN accessRows = Members
  /\ accessBorn \in Nat \ {0}
  /\ accessServer # None => accessServer \in [owner : Members, frozen : BOOLEAN,
                                              born : {accessBorn}]
  /\ accessLog \subseteq [user : Members, born : 1..accessBorn]
  /\ accessInserts \subseteq [user : Members, born : 1..accessBorn]
  /\ accessRequest \in [Requests -> {Access!Free} \cup Granting(1..accessBorn) \cup Deleting
                        \cup Removing]

GrantsStand ==
  \A q \in Requests : accessRequest[q].kind = "grant" =>
    /\ accessAccounts[accessRequest[q].user] # None \/ "account" \in accessExcused
    /\ (accessServer # None /\ accessServer.born = accessRequest[q].born)
       \/ "server" \in accessExcused

\* Somebody is deleting the account, or removing the server, and will come to it.
ToDrop(u, pcs) ==
  \E q \in Requests : accessRequest[q].kind = "delete" /\ accessRequest[q].pc \in pcs
    /\ accessRequest[q].user = u
ToPrune == \E q \in Requests : accessRequest[q].kind = "remove"

RowsStand ==
  \A u \in Members : accessRows[u] # None =>
    /\ accessAccounts[u] # None \/ "account" \in accessExcused \/ ToDrop(u, {"rows"})
    /\ (accessServer # None /\ accessRows[u].born = accessServer.born)
       \/ "server" \in accessExcused

LogStands ==
  "log" \notin accessExcused => \A e \in accessLog \cup accessInserts :
    /\ accessAccounts[e.user] # None \/ ToDrop(e.user, {"rows", "prune"})
    /\ (accessServer # None /\ accessServer.born = e.born) \/ ToPrune

AccessInv == AccessTypes /\ GrantsStand /\ RowsStand /\ LogStands

LEMMA AccessInit ==
  ASSUME Access!Init
  PROVE  AccessInv
<1>1. AccessTypes
  BY AccessFits DEF Access!ServerAccessAssumption, Access!Init, AccessTypes, Access!Free
<1>2. RowsStand
  <2>1. /\ accessServer # None /\ accessServer.born = 1
        /\ \A u \in Members : accessAccounts[u] # None
    <3>1. PICK u \in Members : accessServer = [owner |-> u, frozen |-> FALSE, born |-> 1]
      BY DEF Access!Init
    <3>2. accessServer \in [owner : Members, frozen : BOOLEAN, born : Nat]
      BY <3>1
    <3>. QED BY <3>1, <3>2, AccessFits DEF Access!ServerAccessAssumption, Access!Init
  <2>2. \A u \in Members : accessRows[u] # None => accessRows[u].born = 1
    BY DEF Access!Init
  <2>. QED BY <2>1, <2>2 DEF RowsStand
<1>3. GrantsStand /\ LogStands
  BY AccessFits DEF Access!ServerAccessAssumption, Access!Init, GrantsStand, LogStands,
     Access!Free
<1>. QED BY <1>1, <1>2, <1>3 DEF AccessInv

LEMMA AccessTypesKept ==
  ASSUME AccessInv, [Access!Next]_(Access!vars)
  PROVE  AccessTypes'
<1>. USE AccessFits DEF Access!ServerAccessAssumption
<1>1. ASSUME NEW q \in Requests, NEW a \in Members, NEW u \in Members, NEW k \in {"grant",
      "revoke"},
             NEW g \in Grants \cup {None}, Access!Ask(q, a, u, k, g)
      PROVE  AccessTypes'
  BY <1>1 DEF AccessInv, AccessTypes, Granting, Deleting, Removing, Access!Free, Access!Ask,
     Access!Op
<1>2. ASSUME NEW q \in Requests, NEW a \in Members, NEW u \in Members, Access!AskDelete(q, a, u)
      PROVE  AccessTypes'
  BY <1>2 DEF AccessInv, AccessTypes, Granting, Deleting, Removing, Access!Free,
     Access!AskDelete, Access!Op
<1>3. ASSUME NEW q \in Requests, NEW a \in Members, Access!Remove(q, a)
      PROVE  AccessTypes'
  BY <1>3 DEF AccessInv, AccessTypes, Granting, Deleting, Removing, Access!Free, Access!Remove,
     Access!Gone, Access!Left, Access!Op, Access!Under
<1>4. ASSUME NEW q \in Requests, Access!Again(q)
      PROVE  AccessTypes'
  BY <1>4 DEF AccessInv, AccessTypes, Granting, Deleting, Removing, Access!Free, Access!Again,
     Access!Goes, Access!Ends
<1>5. ASSUME NEW q \in Requests, Access!Write(q)
      PROVE  AccessTypes'
  BY <1>5 DEF AccessInv, AccessTypes, Granting, Deleting, Removing, Access!Free, Access!Write,
     Access!Ends, Access!Logs
<1>6. ASSUME NEW q \in Requests, Access!Drop(q)
      PROVE  AccessTypes'
  BY <1>6 DEF AccessInv, AccessTypes, Granting, Deleting, Removing, Access!Free, Access!Drop,
     Access!At, Access!Goes, Access!Ends, Access!GrantsTo, Access!Under
<1>7. ASSUME NEW q \in Requests, Access!DropRows(q)
      PROVE  AccessTypes'
  BY <1>7 DEF AccessInv, AccessTypes, Granting, Deleting, Removing, Access!Free, Access!DropRows,
     Access!At, Access!Goes, Access!Ends, Access!Fault
<1>8. ASSUME NEW q \in Requests, Access!PruneUser(q)
      PROVE  AccessTypes'
  BY <1>8 DEF AccessInv, AccessTypes, Granting, Deleting, Removing, Access!Free,
     Access!PruneUser, Access!Prune, Access!At, Access!Ends
<1>9. ASSUME NEW q \in Requests, Access!PruneServer(q)
      PROVE  AccessTypes'
  BY <1>9 DEF AccessInv, AccessTypes, Granting, Deleting, Removing, Access!Free,
     Access!PruneServer, Access!Prune, Access!At, Access!Ends
<1>10. ASSUME NEW e \in accessInserts, Access!Insert(e)
      PROVE  AccessTypes'
  BY <1>10 DEF AccessInv, AccessTypes, Granting, Deleting, Removing, Access!Free, Access!Insert,
     Access!Fault
<1>11. ASSUME NEW u \in Members, Access!Create(u)
      PROVE  AccessTypes'
  BY <1>11 DEF AccessInv, AccessTypes, Granting, Deleting, Removing, Access!Free, Access!Create,
     Access!Op
<1>12. ASSUME NEW u \in Members, NEW role \in {"admin", "support", "user"}, Access!SetRole(u,
       role)
      PROVE  AccessTypes'
  BY <1>12 DEF AccessInv, AccessTypes, Granting, Deleting, Removing, Access!Free, Access!SetRole,
     Access!Op
<1>13. ASSUME NEW on \in BOOLEAN, Access!Freeze(on)
      PROVE  AccessTypes'
  BY <1>13 DEF AccessInv, AccessTypes, Granting, Deleting, Removing, Access!Free, Access!Freeze,
     Access!Op
<1>14. ASSUME Access!RemoveQuietly
      PROVE  AccessTypes'
  BY <1>14 DEF AccessInv, AccessTypes, Granting, Deleting, Removing, Access!Free,
     Access!RemoveQuietly, Access!Gone, Access!Left, Access!Op, Access!Under
<1>15. ASSUME UNCHANGED Access!vars
      PROVE  AccessTypes'
  BY <1>15 DEF AccessInv, AccessTypes, Granting, Deleting, Removing, Access!Free, Access!vars
<1>. QED BY <1>1, <1>2, <1>3, <1>4, <1>5, <1>6, <1>7, <1>8, <1>9, <1>10, <1>11, <1>12, <1>13,
         <1>14, <1>15 DEF Access!Next

LEMMA GrantsKept ==
  ASSUME AccessInv, [Access!Next]_(Access!vars)
  PROVE  GrantsStand'
<1>. USE AccessFits DEF Access!ServerAccessAssumption
<1>1. ASSUME NEW q \in Requests, NEW a \in Members, NEW u \in Members, NEW k \in {"grant",
      "revoke"},
             NEW g \in Grants \cup {None}, Access!Ask(q, a, u, k, g)
      PROVE  GrantsStand'
  BY <1>1 DEF AccessInv, AccessTypes, GrantsStand, Granting, Deleting, Removing, Access!Free,
     Access!Ask, Access!Op
<1>2. ASSUME NEW q \in Requests, NEW a \in Members, NEW u \in Members, Access!AskDelete(q, a, u)
      PROVE  GrantsStand'
  BY <1>2 DEF AccessInv, AccessTypes, GrantsStand, Granting, Deleting, Removing, Access!Free,
     Access!AskDelete, Access!Op
<1>3. ASSUME NEW q \in Requests, NEW a \in Members, Access!Remove(q, a)
      PROVE  GrantsStand'
  BY <1>3 DEF AccessInv, AccessTypes, GrantsStand, Granting, Deleting, Removing, Access!Free,
     Access!Remove, Access!Gone, Access!Left, Access!Op, Access!Under
<1>4. ASSUME NEW q \in Requests, Access!Again(q)
      PROVE  GrantsStand'
  BY <1>4 DEF AccessInv, AccessTypes, GrantsStand, Granting, Deleting, Removing, Access!Free,
     Access!Again, Access!Goes, Access!Ends
<1>5. ASSUME NEW q \in Requests, Access!Write(q)
      PROVE  GrantsStand'
  BY <1>5 DEF AccessInv, AccessTypes, GrantsStand, Granting, Deleting, Removing, Access!Free,
     Access!Write, Access!Ends, Access!Logs
<1>6. ASSUME NEW q \in Requests, Access!Drop(q)
      PROVE  GrantsStand'
  BY <1>6 DEF AccessInv, AccessTypes, GrantsStand, Granting, Deleting, Removing, Access!Free,
     Access!Drop, Access!At, Access!Goes, Access!Ends, Access!GrantsTo, Access!Under
<1>7. ASSUME NEW q \in Requests, Access!DropRows(q)
      PROVE  GrantsStand'
  BY <1>7 DEF AccessInv, AccessTypes, GrantsStand, Granting, Deleting, Removing, Access!Free,
     Access!DropRows, Access!At, Access!Goes, Access!Ends, Access!Fault
<1>8. ASSUME NEW q \in Requests, Access!PruneUser(q)
      PROVE  GrantsStand'
  BY <1>8 DEF AccessInv, AccessTypes, GrantsStand, Granting, Deleting, Removing, Access!Free,
     Access!PruneUser, Access!Prune, Access!At, Access!Ends
<1>9. ASSUME NEW q \in Requests, Access!PruneServer(q)
      PROVE  GrantsStand'
  BY <1>9 DEF AccessInv, AccessTypes, GrantsStand, Granting, Deleting, Removing, Access!Free,
     Access!PruneServer, Access!Prune, Access!At, Access!Ends
<1>10. ASSUME NEW e \in accessInserts, Access!Insert(e)
      PROVE  GrantsStand'
  BY <1>10 DEF AccessInv, AccessTypes, GrantsStand, Granting, Deleting, Removing, Access!Free,
     Access!Insert, Access!Fault
<1>11. ASSUME NEW u \in Members, Access!Create(u)
      PROVE  GrantsStand'
  BY <1>11 DEF AccessInv, AccessTypes, GrantsStand, Granting, Deleting, Removing, Access!Free,
     Access!Create, Access!Op
<1>12. ASSUME NEW u \in Members, NEW role \in {"admin", "support", "user"}, Access!SetRole(u,
       role)
      PROVE  GrantsStand'
  BY <1>12 DEF AccessInv, AccessTypes, GrantsStand, Granting, Deleting, Removing, Access!Free,
     Access!SetRole, Access!Op
<1>13. ASSUME NEW on \in BOOLEAN, Access!Freeze(on)
      PROVE  GrantsStand'
  BY <1>13 DEF AccessInv, AccessTypes, GrantsStand, Granting, Deleting, Removing, Access!Free,
     Access!Freeze, Access!Op
<1>14. ASSUME Access!RemoveQuietly
      PROVE  GrantsStand'
  BY <1>14 DEF AccessInv, AccessTypes, GrantsStand, Granting, Deleting, Removing, Access!Free,
     Access!RemoveQuietly, Access!Gone, Access!Left, Access!Op, Access!Under
<1>15. ASSUME UNCHANGED Access!vars
      PROVE  GrantsStand'
  BY <1>15 DEF AccessInv, AccessTypes, GrantsStand, Granting, Deleting, Removing, Access!Free,
     Access!vars
<1>. QED BY <1>1, <1>2, <1>3, <1>4, <1>5, <1>6, <1>7, <1>8, <1>9, <1>10, <1>11, <1>12, <1>13,
         <1>14, <1>15 DEF Access!Next

LEMMA RowsKept ==
  ASSUME AccessInv, [Access!Next]_(Access!vars)
  PROVE  RowsStand'
<1>. USE AccessFits DEF Access!ServerAccessAssumption
<1>1. ASSUME NEW q \in Requests, NEW a \in Members, NEW u \in Members, NEW k \in {"grant",
      "revoke"},
             NEW g \in Grants \cup {None}, Access!Ask(q, a, u, k, g)
      PROVE  RowsStand'
  BY <1>1 DEF AccessInv, AccessTypes, GrantsStand, RowsStand, ToDrop, Granting, Deleting,
     Removing, Access!Free, Access!Ask, Access!Op
<1>2. ASSUME NEW q \in Requests, NEW a \in Members, NEW u \in Members, Access!AskDelete(q, a, u)
      PROVE  RowsStand'
  BY <1>2 DEF AccessInv, AccessTypes, GrantsStand, RowsStand, ToDrop, Granting, Deleting,
     Removing, Access!Free, Access!AskDelete, Access!Op
<1>3. ASSUME NEW q \in Requests, NEW a \in Members, Access!Remove(q, a)
      PROVE  RowsStand'
  BY <1>3 DEF AccessInv, AccessTypes, GrantsStand, RowsStand, ToDrop, Granting, Deleting,
     Removing, Access!Free, Access!Remove, Access!Gone, Access!Left, Access!Op, Access!Under
<1>4. ASSUME NEW q \in Requests, Access!Again(q)
      PROVE  RowsStand'
  BY <1>4 DEF AccessInv, AccessTypes, GrantsStand, RowsStand, ToDrop, Granting, Deleting,
     Removing, Access!Free, Access!Again, Access!Goes, Access!Ends
<1>5. ASSUME NEW q \in Requests, Access!Write(q)
      PROVE  RowsStand'
  BY <1>5 DEF AccessInv, AccessTypes, GrantsStand, RowsStand, ToDrop, Granting, Deleting,
     Removing, Access!Free, Access!Write, Access!Ends, Access!Logs
<1>6. ASSUME NEW q \in Requests, Access!Drop(q)
      PROVE  RowsStand'
  BY <1>6 DEF AccessInv, AccessTypes, GrantsStand, RowsStand, ToDrop, Granting, Deleting,
     Removing, Access!Free, Access!Drop, Access!At, Access!Goes, Access!Ends, Access!GrantsTo,
       Access!Under
<1>7. ASSUME NEW q \in Requests, Access!DropRows(q)
      PROVE  RowsStand'
  BY <1>7 DEF AccessInv, AccessTypes, GrantsStand, RowsStand, ToDrop, Granting, Deleting,
     Removing, Access!Free, Access!DropRows, Access!At, Access!Goes, Access!Ends, Access!Fault
<1>8. ASSUME NEW q \in Requests, Access!PruneUser(q)
      PROVE  RowsStand'
  BY <1>8 DEF AccessInv, AccessTypes, GrantsStand, RowsStand, ToDrop, Granting, Deleting,
     Removing, Access!Free, Access!PruneUser, Access!Prune, Access!At, Access!Ends
<1>9. ASSUME NEW q \in Requests, Access!PruneServer(q)
      PROVE  RowsStand'
  BY <1>9 DEF AccessInv, AccessTypes, GrantsStand, RowsStand, ToDrop, Granting, Deleting,
     Removing, Access!Free, Access!PruneServer, Access!Prune, Access!At, Access!Ends
<1>10. ASSUME NEW e \in accessInserts, Access!Insert(e)
      PROVE  RowsStand'
  BY <1>10 DEF AccessInv, AccessTypes, GrantsStand, RowsStand, ToDrop, Granting, Deleting,
     Removing, Access!Free, Access!Insert, Access!Fault
<1>11. ASSUME NEW u \in Members, Access!Create(u)
      PROVE  RowsStand'
  BY <1>11 DEF AccessInv, AccessTypes, GrantsStand, RowsStand, ToDrop, Granting, Deleting,
     Removing, Access!Free, Access!Create, Access!Op
<1>12. ASSUME NEW u \in Members, NEW role \in {"admin", "support", "user"}, Access!SetRole(u,
       role)
      PROVE  RowsStand'
  BY <1>12 DEF AccessInv, AccessTypes, GrantsStand, RowsStand, ToDrop, Granting, Deleting,
     Removing, Access!Free, Access!SetRole, Access!Op
<1>13. ASSUME NEW on \in BOOLEAN, Access!Freeze(on)
      PROVE  RowsStand'
  BY <1>13 DEF AccessInv, AccessTypes, GrantsStand, RowsStand, ToDrop, Granting, Deleting,
     Removing, Access!Free, Access!Freeze, Access!Op
<1>14. ASSUME Access!RemoveQuietly
      PROVE  RowsStand'
  BY <1>14 DEF AccessInv, AccessTypes, GrantsStand, RowsStand, ToDrop, Granting, Deleting,
     Removing, Access!Free, Access!RemoveQuietly, Access!Gone, Access!Left, Access!Op,
       Access!Under
<1>15. ASSUME UNCHANGED Access!vars
      PROVE  RowsStand'
  BY <1>15 DEF AccessInv, AccessTypes, GrantsStand, RowsStand, ToDrop, Granting, Deleting,
     Removing, Access!Free, Access!vars
<1>. QED BY <1>1, <1>2, <1>3, <1>4, <1>5, <1>6, <1>7, <1>8, <1>9, <1>10, <1>11, <1>12, <1>13,
         <1>14, <1>15 DEF Access!Next

LEMMA LogKept ==
  ASSUME AccessInv, [Access!Next]_(Access!vars)
  PROVE  LogStands'
<1>. USE AccessFits DEF Access!ServerAccessAssumption
<1>1. ASSUME NEW q \in Requests, NEW a \in Members, NEW u \in Members, NEW k \in {"grant",
      "revoke"},
             NEW g \in Grants \cup {None}, Access!Ask(q, a, u, k, g)
      PROVE  LogStands'
  BY <1>1 DEF AccessInv, AccessTypes, LogStands, ToDrop, ToPrune, Granting, Deleting, Removing,
     Access!Free, Access!Ask, Access!Op
<1>2. ASSUME NEW q \in Requests, NEW a \in Members, NEW u \in Members, Access!AskDelete(q, a, u)
      PROVE  LogStands'
  BY <1>2 DEF AccessInv, AccessTypes, LogStands, ToDrop, ToPrune, Granting, Deleting, Removing,
     Access!Free, Access!AskDelete, Access!Op
<1>3. ASSUME NEW q \in Requests, NEW a \in Members, Access!Remove(q, a)
      PROVE  LogStands'
  BY <1>3 DEF AccessInv, AccessTypes, LogStands, ToDrop, ToPrune, Granting, Deleting, Removing,
     Access!Free, Access!Remove, Access!Gone, Access!Left, Access!Op, Access!Under
<1>4. ASSUME NEW q \in Requests, Access!Again(q)
      PROVE  LogStands'
  BY <1>4 DEF AccessInv, AccessTypes, LogStands, ToDrop, ToPrune, Granting, Deleting, Removing,
     Access!Free, Access!Again, Access!Goes, Access!Ends
<1>5. ASSUME NEW q \in Requests, Access!Write(q)
      PROVE  LogStands'
  BY <1>5 DEF AccessInv, AccessTypes, LogStands, ToDrop, ToPrune, Granting, Deleting, Removing,
     Access!Free, Access!Write, Access!Ends, Access!Logs
<1>6. ASSUME NEW q \in Requests, Access!Drop(q)
      PROVE  LogStands'
  BY <1>6 DEF AccessInv, AccessTypes, LogStands, ToDrop, ToPrune, Granting, Deleting, Removing,
     Access!Free, Access!Drop, Access!At, Access!Goes, Access!Ends, Access!GrantsTo, Access!Under
<1>7. ASSUME NEW q \in Requests, Access!DropRows(q)
      PROVE  LogStands'
  BY <1>7 DEF AccessInv, AccessTypes, LogStands, ToDrop, ToPrune, Granting, Deleting, Removing,
     Access!Free, Access!DropRows, Access!At, Access!Goes, Access!Ends, Access!Fault
<1>8. ASSUME NEW q \in Requests, Access!PruneUser(q)
      PROVE  LogStands'
  BY <1>8 DEF AccessInv, AccessTypes, LogStands, ToDrop, ToPrune, Granting, Deleting, Removing,
     Access!Free, Access!PruneUser, Access!Prune, Access!At, Access!Ends
<1>9. ASSUME NEW q \in Requests, Access!PruneServer(q)
      PROVE  LogStands'
  BY <1>9 DEF AccessInv, AccessTypes, LogStands, ToDrop, ToPrune, Granting, Deleting, Removing,
     Access!Free, Access!PruneServer, Access!Prune, Access!At, Access!Ends
<1>10. ASSUME NEW e \in accessInserts, Access!Insert(e)
      PROVE  LogStands'
  BY <1>10 DEF AccessInv, AccessTypes, LogStands, ToDrop, ToPrune, Granting, Deleting, Removing,
     Access!Free, Access!Insert, Access!Fault
<1>11. ASSUME NEW u \in Members, Access!Create(u)
      PROVE  LogStands'
  BY <1>11 DEF AccessInv, AccessTypes, LogStands, ToDrop, ToPrune, Granting, Deleting, Removing,
     Access!Free, Access!Create, Access!Op
<1>12. ASSUME NEW u \in Members, NEW role \in {"admin", "support", "user"}, Access!SetRole(u,
       role)
      PROVE  LogStands'
  BY <1>12 DEF AccessInv, AccessTypes, LogStands, ToDrop, ToPrune, Granting, Deleting, Removing,
     Access!Free, Access!SetRole, Access!Op
<1>13. ASSUME NEW on \in BOOLEAN, Access!Freeze(on)
      PROVE  LogStands'
  BY <1>13 DEF AccessInv, AccessTypes, LogStands, ToDrop, ToPrune, Granting, Deleting, Removing,
     Access!Free, Access!Freeze, Access!Op
<1>14. ASSUME Access!RemoveQuietly
      PROVE  LogStands'
  BY <1>14 DEF AccessInv, AccessTypes, LogStands, ToDrop, ToPrune, Granting, Deleting, Removing,
     Access!Free, Access!RemoveQuietly, Access!Gone, Access!Left, Access!Op, Access!Under
<1>15. ASSUME UNCHANGED Access!vars
      PROVE  LogStands'
  BY <1>15 DEF AccessInv, AccessTypes, LogStands, ToDrop, ToPrune, Granting, Deleting, Removing,
     Access!Free, Access!vars
<1>. QED BY <1>1, <1>2, <1>3, <1>4, <1>5, <1>6, <1>7, <1>8, <1>9, <1>10, <1>11, <1>12, <1>13,
         <1>14, <1>15 DEF Access!Next

LEMMA AccessKept ==
  ASSUME AccessInv, [Access!Next]_(Access!vars)
  PROVE  AccessInv'
BY AccessTypesKept, GrantsKept, RowsKept, LogKept DEF AccessInv

\* accessFor() and forUser() repeat the rules of canPerform(), canWrite() and
\* canManageAccess(): they agree for every owner, role, row and scope.
LEMMA ToldAgrees == Access!ToldIsEnforced
<1>. SUFFICES ASSUME accessServer # None, NEW u \in Members,
                     accessAccounts[u] # None, Access!canAccess(u, accessAccounts[u])
     PROVE  LET role == accessAccounts[u] told == Access!accessFor(u, role) IN
            /\ told.scopes = {scope \in Scopes : Access!canPerform(u, role, scope)}
            /\ told.manages = Access!canManageAccess(u, role)
            /\ told.canWrite = Access!canWrite(u, role)
               \/ (role = "support" /\ accessServer.owner = u)
            /\ Access!forUser(u, role) \cap Access!Sections = told.scopes \cap Access!Sections
            /\ Access!clientVariables(u, role) \subseteq {"open"} \/ told.manages
  BY DEF Access!ToldIsEnforced
<1>. DEFINE role == accessAccounts[u]
            told == Access!accessFor(u, role)
<1>. USE AccessFits DEF Access!ServerAccessAssumption
<1>1. /\ told.scopes = {scope \in Scopes : Access!canPerform(u, role, scope)}
      /\ told.manages = Access!canManageAccess(u, role)
      /\ told.canWrite = Access!canWrite(u, role) \/ (role = "support" /\ accessServer.owner = u)
  <2>1. CASE accessServer.owner = u \/ Access!Manages(role)
    BY <2>1 DEF Access!accessFor, Access!canPerform, Access!canManageAccess, Access!canWrite,
       Access!Manages
  <2>2. CASE ~(accessServer.owner = u \/ Access!Manages(role)) /\ role = "support"
    BY <2>2 DEF Access!accessFor, Access!canPerform, Access!canManageAccess, Access!canWrite,
       Access!Manages
  <2>3. CASE ~(accessServer.owner = u \/ Access!Manages(role)) /\ role # "support"
    <3>1. Access!Collaborator(u) # None
      BY <2>3 DEF Access!canAccess, Access!isStaff, Access!Manages
    <3>. DEFINE c == Access!Collaborator(u)
    <3>2. told = [canWrite |-> c.permission = "operator", manages |-> FALSE,
                  scopes |-> Access!ScopesOf(c.permission, c.scopes)]
      BY <2>3, <3>1 DEF Access!accessFor
    <3>3. Access!ScopesOf(c.permission, c.scopes) \subseteq Scopes
      BY DEF Access!ScopesOf
    <3>4. /\ ~Access!canManageAccess(u, role)
          /\ Access!canWrite(u, role) <=> c.permission = "operator"
          /\ \A scope : Access!canPerform(u, role,
                                          scope) <=> scope \in Access!ScopesOf(c.permission,
                                            c.scopes)
      BY <2>3, <3>1 DEF Access!canPerform, Access!canManageAccess, Access!canWrite
    <3>. HIDE DEF c
    <3>5. told.canWrite = Access!canWrite(u, role) /\ told.manages = Access!canManageAccess(u,
          role)
      <4>1. told.canWrite = (c.permission = "operator") /\ told.manages = FALSE
        BY <3>2
      <4>. QED BY <3>4, <4>1 DEF Access!canWrite, Access!canManageAccess
    <3>6. told.scopes = {scope \in Scopes : Access!canPerform(u, role, scope)}
      BY <3>2, <3>3, <3>4
    <3>. QED BY <3>5, <3>6
  <2>. QED BY <2>1, <2>2, <2>3
<1>2. Access!forUser(u, role) \cap Access!Sections = told.scopes \cap Access!Sections
  BY <1>1 DEF Access!forUser, Access!Sections
<1>3. Access!clientVariables(u, role) \subseteq {"open"} \/ told.manages
  BY <1>1 DEF Access!clientVariables, Access!relationship, Access!canPerform, Access!isStaff,
     Access!Manages,
              Access!canManageAccess
<1>. QED BY <1>1, <1>2, <1>3

\* For any accounts, roles, grants and requests: a row of a collaborator belongs
\* to an account that is there and to this very server, a client is told what the
\* guards enforce, and the log keeps nothing of what is gone - except where a
\* grant, an entry or a failure slipped in between, which the code allows.
THEOREM AccessSoundAlways == PanelSpec => []AccessSound
<1>. DEFINE I == part = "access" => AccessInv
<1>1. PanelInit => I
  BY AccessInit DEF PanelInit
<1>2. I /\ [PanelNext]_panelVars => I'
  BY AccessKept, PartMoves
<1>3. I => AccessSound
  <2>1. ASSUME AccessInv PROVE Access!RowsBelong
    BY <2>1 DEF AccessInv, AccessTypes, RowsStand, ToDrop, Access!RowsBelong, Access!Under
  <2>2. ASSUME AccessInv PROVE Access!LogIsPruned
    BY <2>2 DEF AccessInv, AccessTypes, LogStands, ToDrop, ToPrune, Access!LogIsPruned,
       Access!Under
  <2>. QED BY <2>1, <2>2, ToldAgrees DEF AccessSound, Access!AccessSound
<1>. QED BY <1>1, <1>2, <1>3, PTL DEF PanelSpec

-----------------------------------------------------------------------------
(***************************************************************************)
(* Signing in: how an address comes to be verified and what an invitation  *)
(* lets in, for any accounts, identities, invitations and requests at the  *)
(* same time.                                                              *)
(***************************************************************************)

Holding == [email : Emails, password : BOOLEAN, providers : SUBSET Identities, pending : BOOLEAN,
            ver : Nat]
Registering == [pc : {"policy", "register"}, email : Emails, key : Invitations \cup {None},
                first : BOOLEAN]
Joining ==
  [pc : {"hashing", "provision"}, email : Emails] \cup [pc : {"profile"}, id : Identities]
  \cup [pc : {"join"}, id : Identities, email : Emails] \cup [pc : {"link"}, user : Persons,
    id : Identities]

SignInTypes ==
  /\ signInAccount \in [Persons -> Holding \cup {None}]
  /\ signInInvite \in [Invitations -> [state : {"none", "free", "used", "gone"},
                                       email : Emails \cup {None}]]
  /\ signInSettings \in [verify : BOOLEAN, invites : BOOLEAN]
  /\ signInLinks \subseteq [user : Persons, email : Emails, ver : Nat]
  /\ signInRequest \in [Requests -> {SignIns!Idle} \cup Registering \cup Joining]
  /\ \A q \in Requests : signInRequest[q].pc = "link"
     => signInAccount[signInRequest[q].user] # None
  /\ signInVouched \in [Persons -> SUBSET Emails]
  /\ signInAdmitted \in [Invitations -> Nat]

VouchedFor ==
  \A u \in Persons : signInAccount[u] # None /\ ~signInAccount[u].pending =>
    signInAccount[u].email \in signInVouched[u]

\* Nobody came with an invitation that is still free, or not there yet.
AdmitOne ==
  \A i \in Invitations :
    /\ signInAdmitted[i] <= 1
    /\ signInInvite[i].state \in {"none", "free"} => signInAdmitted[i] = 0

SignInInv == SignInTypes /\ VouchedFor /\ AdmitOne

\* An account whose holder came through a provider.
LEMMA SocialAccountIs ==
  ASSUME NEW a \in Holding, NEW i \in Identities, NEW e \in Emails
  PROVE  LET b == SignIns!SocialAccount(a, i, e) IN
         b \in Holding /\ b.email = a.email /\ (~b.pending => ~a.pending \/ e = a.email)
<1>. DEFINE P == IF a.providers = {} THEN {i} ELSE a.providers
            p == a.pending /\ e # a.email
            b == [a EXCEPT !.providers = P, !.pending = p]
<1>1. SignIns!SocialAccount(a, i, e) = b
  BY DEF SignIns!SocialAccount, Holding
<1>2. P \in SUBSET Identities /\ p \in BOOLEAN
  BY DEF Holding
<1>3. ~p => ~a.pending \/ e = a.email
  BY Zenon
<1>. HIDE DEF P, p
<1>4. b \in Holding /\ b.email = a.email /\ b.pending = p
  BY <1>2 DEF Holding
<1>. HIDE DEF b
<1>. QED BY <1>1, <1>3, <1>4

\* A change of one account.
LEMMA AccountChanges ==
  ASSUME SignInTypes, NEW u \in Persons, NEW a \in Holding,
         signInAccount' = [signInAccount EXCEPT ![u] = a]
  PROVE  /\ signInAccount' \in [Persons -> Holding \cup {None}]
         /\ \A v \in Persons : signInAccount[v] # None => signInAccount'[v] # None
<1>. USE SupportFits DEF SignIns!SignInAssumption
<1>1. a # None
  BY DEF Holding
<1>. QED BY <1>1 DEF SignInTypes

LEMMA SignInInit ==
  ASSUME SignIns!Init
  PROVE  SignInInv
BY DEF SignIns!Init, SignIns!Idle, SignInInv, SignInTypes, VouchedFor, AdmitOne

\* crypto.randomUUID() makes up an id that nobody has.
LEMMA FreshIsFree ==
  ASSUME SignIns!Free
  PROVE  SignIns!Fresh \in Persons /\ signInAccount[SignIns!Fresh] = None
BY DEF SignIns!Free, SignIns!Fresh, SignIns!Known

LEMMA SignInTypesKept ==
  ASSUME SignInInv, [SignIns!Next]_(SignIns!vars)
  PROVE  SignInTypes'
<1>. USE SupportFits DEF SignIns!SignInAssumption, SignIns!At, SignIns!Go, SignIns!End,
     SignIns!Idle, SignIns!Edit
<1>1. ASSUME NEW q \in Requests, NEW e \in Emails, SignIns!StartProvision(q, e)
      PROVE  SignInTypes'
  BY <1>1, SMTT(30) DEF SignInInv, SignInTypes, Holding, Registering, Joining,
     SignIns!StartProvision
<1>2. ASSUME NEW q \in Requests, NEW e \in Emails, NEW i \in Invitations \cup {None},
      SignIns!StartRegister(q, e, i)
      PROVE  SignInTypes'
  BY <1>2, SMTT(30) DEF SignInInv, SignInTypes, Holding, Registering, Joining,
     SignIns!StartRegister
<1>3. ASSUME NEW q \in Requests, NEW i \in Identities, SignIns!StartExchange(q, i)
      PROVE  SignInTypes'
  BY <1>3, SMTT(30) DEF SignInInv, SignInTypes, Holding, Registering, Joining,
     SignIns!StartExchange
<1>4. ASSUME NEW q \in Requests, NEW i \in Identities, NEW u \in Persons, SignIns!StartLink(q, u,
      i)
      PROVE  SignInTypes'
  BY <1>4, SMTT(30) DEF SignInInv, SignInTypes, Holding, Registering, Joining, SignIns!StartLink,
     SignIns!Known
<1>5. ASSUME NEW q \in Requests, SignIns!Refuse(q)
      PROVE  SignInTypes'
  BY <1>5, SMTT(30) DEF SignInInv, SignInTypes, Holding, Registering, Joining, SignIns!Refuse
<1>6. ASSUME NEW q \in Requests, SignIns!Consume(q)
      PROVE  SignInTypes'
  BY <1>6, SMTT(30) DEF SignInInv, SignInTypes, Holding, Registering, Joining, SignIns!Consume,
     SignIns!Usable
<1>7. ASSUME NEW q \in Requests, SignIns!Hash(q)
      PROVE  SignInTypes'
  BY <1>7, SMTT(30) DEF SignInInv, SignInTypes, Holding, Registering, Joining, SignIns!Hash
<1>8. ASSUME NEW q \in Requests, NEW e \in Emails, SignIns!SocialLogin(q, e)
      PROVE  SignInTypes'
  <2>1. /\ signInAccount' \in [Persons -> Holding \cup {None}]
        /\ \A v \in Persons : signInAccount[v] # None => signInAccount'[v] # None
    <3>1. PICK u \in Persons : /\ signInAccount[u] # None
                               /\ signInAccount'
                                  = [signInAccount EXCEPT ![u] = SignIns!SocialAccount(@,
                                    signInRequest[q].id, e)]
      BY <1>8 DEF SignIns!SocialLogin, SignIns!Connected, SignIns!Holders, SignIns!Known
    <3>2. signInAccount[u] \in Holding /\ signInRequest[q].id \in Identities
      BY <1>8, <3>1 DEF SignIns!SocialLogin, SignInInv, SignInTypes, Registering, Joining
    <3>3. SignIns!SocialAccount(signInAccount[u], signInRequest[q].id, e) \in Holding
      BY <3>2, SocialAccountIs
    <3>. QED BY <3>1, <3>3, AccountChanges DEF SignInInv, SignInTypes
  <2>2. PICK u \in Persons :
          /\ signInAccount[u] # None
          /\ IF e = signInAccount[u].email THEN SignIns!Vouch(u, e) ELSE UNCHANGED signInVouched
          /\ SignIns!MailIf(signInSettings.verify /\ signInAccount'[u].pending, u)
    BY <1>8 DEF SignIns!SocialLogin, SignIns!Connected, SignIns!Holders, SignIns!Known
  <2>3. signInVouched' \in [Persons -> SUBSET Emails]
    BY <2>2 DEF SignIns!Vouch, SignInInv, SignInTypes
  <2>4. SignIns!Link(u) \in [user : Persons, email : Emails, ver : Nat]
    BY <2>1, <2>2 DEF SignIns!Link, Holding
  <2>5. signInLinks' \subseteq [user : Persons, email : Emails, ver : Nat]
    BY <2>2, <2>4 DEF SignIns!MailIf, SignInInv, SignInTypes
  <2>. QED BY <1>8, <2>1, <2>3, <2>5 DEF SignIns!SocialLogin, SignInInv, SignInTypes,
           Registering, Joining
<1>9. ASSUME NEW q \in Requests, NEW e \in Emails, SignIns!SocialNew(q, e)
      PROVE  SignInTypes'
  BY <1>9, SMTT(30) DEF SignInInv, SignInTypes, Holding, Registering, Joining, SignIns!SocialNew
<1>10. ASSUME NEW q \in Requests, NEW e \in Emails, SignIns!SocialRefused(q, e)
      PROVE  SignInTypes'
  BY <1>10, SMTT(30) DEF SignInInv, SignInTypes, Holding, Registering, Joining,
     SignIns!SocialRefused
<1>11. ASSUME NEW q \in Requests, NEW e \in Emails, SignIns!LinkAccount(q, e)
      PROVE  SignInTypes'
  <2>1. /\ signInAccount' \in [Persons -> Holding \cup {None}]
        /\ \A v \in Persons : signInAccount[v] # None => signInAccount'[v] # None
        /\ signInVouched' \in [Persons -> SUBSET Emails]
    <3>. DEFINE u == signInRequest[q].user
                a == SignIns!SocialAccount(signInAccount[u], signInRequest[q].id, e)
    <3>1. u \in Persons /\ signInRequest[q].id \in Identities /\ signInAccount[u] \in Holding
      BY <1>11 DEF SignIns!LinkAccount, SignInInv, SignInTypes, Registering, Joining
    <3>2. a \in Holding
      BY <3>1, SocialAccountIs
    <3>3. \/ signInAccount' = [signInAccount EXCEPT ![u] = a]
          \/ UNCHANGED signInAccount
      BY <1>11 DEF SignIns!LinkAccount
    <3>4. signInVouched' \in [Persons -> SUBSET Emails]
      BY <1>11, <3>1 DEF SignIns!LinkAccount, SignIns!Vouch, SignInInv, SignInTypes
    <3>. QED BY <3>1, <3>2, <3>3, <3>4, AccountChanges DEF SignInInv, SignInTypes
  <2>. QED BY <1>11, <2>1 DEF SignIns!LinkAccount, SignInInv, SignInTypes, Registering, Joining
<1>12. ASSUME NEW q \in Requests, SignIns!Register(q)
      PROVE  SignInTypes'
  BY <1>12, FreshIsFree, SMTT(30) DEF SignInInv, SignInTypes, Holding, Registering, Joining,
     SignIns!Register, SignIns!Account, SignIns!Vouch, SignIns!MailIf, SignIns!Link
<1>13. ASSUME NEW q \in Requests, SignIns!Provision(q)
      PROVE  SignInTypes'
  BY <1>13, FreshIsFree, SMTT(30) DEF SignInInv, SignInTypes, Holding, Registering, Joining,
     SignIns!Provision, SignIns!Account, SignIns!Vouch
<1>14. ASSUME NEW q \in Requests, SignIns!SocialJoin(q)
      PROVE  SignInTypes'
  BY <1>14, FreshIsFree, SMTT(30) DEF SignInInv, SignInTypes, Holding, Registering, Joining,
     SignIns!SocialJoin, SignIns!Account, SignIns!Vouch
<1>15. ASSUME NEW u \in Persons, SignIns!Unlink(u)
      PROVE  SignInTypes'
  BY <1>15, SMTT(30) DEF SignInInv, SignInTypes, Holding, Registering, Joining, SignIns!Unlink,
     SignIns!Known
<1>16. ASSUME NEW u \in Persons, SignIns!RequestLink(u)
      PROVE  SignInTypes'
  BY <1>16, SMTT(30) DEF SignInInv, SignInTypes, Holding, Registering, Joining,
     SignIns!RequestLink, SignIns!Known, SignIns!MailIf, SignIns!Link
<1>17. ASSUME NEW u \in Persons, SignIns!ChangePassword(u)
      PROVE  SignInTypes'
  <2>. DEFINE a == [signInAccount[u] EXCEPT !.password = TRUE]
  <2>1. u \in Persons /\ signInAccount[u] \in Holding
    BY <1>17 DEF SignIns!ChangePassword, SignIns!Known, SignInInv, SignInTypes
  <2>2. a \in Holding
    BY <2>1 DEF Holding
  <2>3. signInAccount' = [signInAccount EXCEPT ![u] = a]
    BY <1>17, <2>1 DEF SignIns!ChangePassword, SignInInv, SignInTypes
  <2>4. /\ signInAccount' \in [Persons -> Holding \cup {None}]
        /\ \A v \in Persons : signInAccount[v] # None => signInAccount'[v] # None
        /\ signInAccount'[u] = a
    BY <2>1, <2>2, <2>3, AccountChanges DEF SignInInv, SignInTypes
  <2>. QED BY <1>17, <2>4 DEF SignIns!ChangePassword, SignInInv, SignInTypes, Registering, Joining
<1>18. ASSUME NEW u \in Persons, SignIns!ResetPassword(u)
      PROVE  SignInTypes'
  <2>. DEFINE a == [signInAccount[u] EXCEPT !.password = TRUE, !.ver = signInAccount[u].ver + 1]
  <2>1. signInAccount[u] \in Holding
    BY <1>18 DEF SignIns!ResetPassword, SignIns!Known, SignInInv, SignInTypes
  <2>2. a \in Holding
    <3>1. PICK ver \in Nat : ver = signInAccount[u].ver + 1
      BY <2>1 DEF Holding
    <3>2. PICK x \in Holding : x = signInAccount[u]
      BY <2>1
    <3>3. [x EXCEPT !.password = TRUE, !.ver = ver] \in Holding
      BY DEF Holding
    <3>. QED BY <3>1, <3>2, <3>3, Zenon
  <2>3. signInAccount' = [signInAccount EXCEPT ![u] = a]
    BY <1>18 DEF SignIns!ResetPassword
  <2>4. /\ signInAccount' \in [Persons -> Holding \cup {None}]
        /\ \A v \in Persons : signInAccount[v] # None => signInAccount'[v] # None
    BY <2>1, <2>2, <2>3, AccountChanges DEF SignInInv, SignInTypes
  <2>. QED BY <1>18, <2>4 DEF SignIns!ResetPassword, SignInInv, SignInTypes, Registering, Joining
<1>19. ASSUME NEW u \in Persons, NEW e \in Emails, SignIns!UpdateProfile(u, e)
      PROVE  SignInTypes'
  <2>. DEFINE a == [signInAccount[u] EXCEPT !.email = e, !.pending = TRUE]
  <2>1. u \in Persons /\ signInAccount[u] \in Holding
    BY <1>19 DEF SignIns!UpdateProfile, SignIns!Known, SignInInv, SignInTypes
  <2>2. a \in Holding
    BY <2>1 DEF Holding
  <2>3. signInAccount' = [signInAccount EXCEPT ![u] = a]
    BY <1>19, <2>1 DEF SignIns!UpdateProfile, SignInInv, SignInTypes
  <2>4. /\ signInAccount' \in [Persons -> Holding \cup {None}]
        /\ \A v \in Persons : signInAccount[v] # None => signInAccount'[v] # None
        /\ signInAccount'[u] = a
    BY <2>1, <2>2, <2>3, AccountChanges DEF SignInInv, SignInTypes
  <2>5. SignIns!Link(u) \in [user : Persons, email : Emails, ver : Nat]
    BY <2>2, <2>4 DEF SignIns!Link, Holding
  <2>6. signInLinks' \subseteq [user : Persons, email : Emails, ver : Nat]
    BY <1>19, <2>5 DEF SignIns!UpdateProfile, SignIns!MailIf, SignInInv, SignInTypes
  <2>. QED BY <1>19, <2>4, <2>6 DEF SignIns!UpdateProfile, SignInInv, SignInTypes, Registering,
           Joining
<1>20. ASSUME NEW l \in signInLinks, SignIns!Confirm(l)
      PROVE  SignInTypes'
  <2>. DEFINE a == [signInAccount[l.user] EXCEPT !.pending = FALSE]
  <2>1. l.user \in Persons /\ signInAccount[l.user] \in Holding
    BY <1>20 DEF SignIns!Confirm, SignIns!Known, SignInInv, SignInTypes
  <2>2. a \in Holding
    BY <2>1 DEF Holding
  <2>3. signInAccount' = [signInAccount EXCEPT ![l.user] = a]
    BY <1>20, <2>1 DEF SignIns!Confirm, SignInInv, SignInTypes, SignIns!MarkVerified
  <2>4. /\ signInAccount' \in [Persons -> Holding \cup {None}]
        /\ \A v \in Persons : signInAccount[v] # None => signInAccount'[v] # None
        /\ signInAccount'[l.user] = a
    BY <2>1, <2>2, <2>3, AccountChanges DEF SignInInv, SignInTypes
  <2>5. signInVouched' \in [Persons -> SUBSET Emails]
    BY <1>20, <2>1 DEF SignIns!Confirm, SignIns!MarkVerified, SignIns!Vouch, SignInInv,
       SignInTypes
  <2>. QED BY <1>20, <2>4, <2>5 DEF SignIns!Confirm, SignInInv, SignInTypes, Registering, Joining
<1>21. ASSUME NEW i \in Invitations, SignIns!RevokeInvite(i)
      PROVE  SignInTypes'
  BY <1>21, SMTT(30) DEF SignInInv, SignInTypes, Holding, Registering, Joining,
     SignIns!RevokeInvite
<1>22. ASSUME NEW i \in Invitations, NEW e \in Emails \cup {None}, SignIns!CreateInvite(i, e)
      PROVE  SignInTypes'
  BY <1>22, SMTT(30) DEF SignInInv, SignInTypes, Holding, Registering, Joining,
     SignIns!CreateInvite
<1>23. ASSUME NEW v \in BOOLEAN, NEW w \in BOOLEAN,
       SignIns!ChangeSettings([verify |-> v, invites |-> w])
      PROVE  SignInTypes'
  BY <1>23, SMTT(30) DEF SignInInv, SignInTypes, Holding, Registering, Joining,
     SignIns!ChangeSettings
<1>24. ASSUME UNCHANGED SignIns!vars
      PROVE  SignInTypes'
  BY <1>24, SMTT(30) DEF SignInInv, SignInTypes, Holding, Registering, Joining, SignIns!vars
<1>. QED BY <1>1, <1>2, <1>3, <1>4, <1>5, <1>6, <1>7, <1>8, <1>9, <1>10, <1>11, <1>12, <1>13,
         <1>14, <1>15, <1>16, <1>17, <1>18, <1>19, <1>20, <1>21, <1>22, <1>23, <1>24
           DEF SignIns!Next

LEMMA VouchedKept ==
  ASSUME SignInInv, [SignIns!Next]_(SignIns!vars)
  PROVE  VouchedFor'
<1>. USE SupportFits DEF SignIns!SignInAssumption, SignIns!At, SignIns!Go, SignIns!End,
     SignIns!Idle, SignIns!Edit
<1>1. ASSUME NEW q \in Requests, NEW e \in Emails, SignIns!StartProvision(q, e)
      PROVE  VouchedFor'
  BY <1>1, SMTT(30) DEF SignInInv, SignInTypes, VouchedFor, Holding, Registering, Joining,
     SignIns!StartProvision
<1>2. ASSUME NEW q \in Requests, NEW e \in Emails, NEW i \in Invitations \cup {None},
      SignIns!StartRegister(q, e, i)
      PROVE  VouchedFor'
  BY <1>2, SMTT(30) DEF SignInInv, SignInTypes, VouchedFor, Holding, Registering, Joining,
     SignIns!StartRegister
<1>3. ASSUME NEW q \in Requests, NEW i \in Identities, SignIns!StartExchange(q, i)
      PROVE  VouchedFor'
  BY <1>3, SMTT(30) DEF SignInInv, SignInTypes, VouchedFor, Holding, Registering, Joining,
     SignIns!StartExchange
<1>4. ASSUME NEW q \in Requests, NEW i \in Identities, NEW u \in Persons, SignIns!StartLink(q, u,
      i)
      PROVE  VouchedFor'
  BY <1>4, SMTT(30) DEF SignInInv, SignInTypes, VouchedFor, Holding, Registering, Joining,
     SignIns!StartLink, SignIns!Known
<1>5. ASSUME NEW q \in Requests, SignIns!Refuse(q)
      PROVE  VouchedFor'
  BY <1>5, SMTT(30) DEF SignInInv, SignInTypes, VouchedFor, Holding, Registering, Joining,
     SignIns!Refuse
<1>6. ASSUME NEW q \in Requests, SignIns!Consume(q)
      PROVE  VouchedFor'
  BY <1>6, SMTT(30) DEF SignInInv, SignInTypes, VouchedFor, Holding, Registering, Joining,
     SignIns!Consume, SignIns!Usable
<1>7. ASSUME NEW q \in Requests, SignIns!Hash(q)
      PROVE  VouchedFor'
  BY <1>7, SMTT(30) DEF SignInInv, SignInTypes, VouchedFor, Holding, Registering, Joining,
     SignIns!Hash
<1>8. ASSUME NEW q \in Requests, NEW e \in Emails, SignIns!SocialLogin(q, e)
      PROVE  VouchedFor'
  BY <1>8, SMTT(30) DEF SignInInv, SignInTypes, VouchedFor, Holding, Registering, Joining,
     SignIns!SocialLogin, SignIns!SocialAccount, SignIns!Connected, SignIns!Holders,
       SignIns!Known, SignIns!Vouch, SignIns!MailIf, SignIns!Link
<1>9. ASSUME NEW q \in Requests, NEW e \in Emails, SignIns!SocialNew(q, e)
      PROVE  VouchedFor'
  BY <1>9, SMTT(30) DEF SignInInv, SignInTypes, VouchedFor, Holding, Registering, Joining,
     SignIns!SocialNew
<1>10. ASSUME NEW q \in Requests, NEW e \in Emails, SignIns!SocialRefused(q, e)
      PROVE  VouchedFor'
  BY <1>10, SMTT(30) DEF SignInInv, SignInTypes, VouchedFor, Holding, Registering, Joining,
     SignIns!SocialRefused
<1>11. ASSUME NEW q \in Requests, NEW e \in Emails, SignIns!LinkAccount(q, e)
      PROVE  VouchedFor'
  <2>. DEFINE u == signInRequest[q].user
              a == SignIns!SocialAccount(signInAccount[u], signInRequest[q].id, e)
  <2>1. u \in Persons /\ signInRequest[q].id \in Identities /\ signInAccount[u] \in Holding
    BY <1>11 DEF SignIns!LinkAccount, SignInInv, SignInTypes, Registering, Joining
  <2>2. a \in Holding /\ a.email = signInAccount[u].email
        /\ (~a.pending => ~signInAccount[u].pending \/ e = signInAccount[u].email)
    BY <2>1, SocialAccountIs
  <2>3. \/ /\ signInAccount' = [signInAccount EXCEPT ![u] = a]
           /\ IF e = signInAccount[u].email THEN SignIns!Vouch(u, e) ELSE UNCHANGED signInVouched
        \/ UNCHANGED <<signInAccount, signInVouched>>
    BY <1>11 DEF SignIns!LinkAccount
  <2>. HIDE DEF a, u
  <2>4. CASE UNCHANGED <<signInAccount, signInVouched>>
    BY <2>4 DEF SignInInv, VouchedFor
  <2>5. CASE /\ signInAccount' = [signInAccount EXCEPT ![u] = a]
             /\ IF e = signInAccount[u].email THEN SignIns!Vouch(u,
                e) ELSE UNCHANGED signInVouched
    <3>1. /\ signInAccount'[u] = a /\ \A v \in Persons \ {u} : signInAccount'[v]
             = signInAccount[v]
          /\ \A v \in Persons : signInVouched[v] \subseteq signInVouched'[v]
          /\ e = signInAccount[u].email => e \in signInVouched'[u]
      BY <2>1, <2>5 DEF SignIns!Vouch, SignInInv, SignInTypes
    <3>2. ~signInAccount[u].pending => signInAccount[u].email \in signInVouched[u]
      <4>1. signInAccount[u] # None
        BY <2>1, SupportFits DEF SignIns!SignInAssumption, Holding
      <4>. QED BY <2>1, <4>1 DEF SignInInv, VouchedFor
    <3>. QED BY <2>1, <2>2, <3>1, <3>2 DEF SignInInv, VouchedFor
  <2>. QED BY <2>3, <2>4, <2>5
<1>12. ASSUME NEW q \in Requests, SignIns!Register(q)
      PROVE  VouchedFor'
  BY <1>12, FreshIsFree, SMTT(30) DEF SignInInv, SignInTypes, VouchedFor, Holding, Registering,
     Joining, SignIns!Register, SignIns!Account, SignIns!Vouch, SignIns!MailIf, SignIns!Link
<1>13. ASSUME NEW q \in Requests, SignIns!Provision(q)
      PROVE  VouchedFor'
  BY <1>13, FreshIsFree, SMTT(30) DEF SignInInv, SignInTypes, VouchedFor, Holding, Registering,
     Joining, SignIns!Provision, SignIns!Account, SignIns!Vouch
<1>14. ASSUME NEW q \in Requests, SignIns!SocialJoin(q)
      PROVE  VouchedFor'
  BY <1>14, FreshIsFree, SMTT(30) DEF SignInInv, SignInTypes, VouchedFor, Holding, Registering,
     Joining, SignIns!SocialJoin, SignIns!Account, SignIns!Vouch
<1>15. ASSUME NEW u \in Persons, SignIns!Unlink(u)
      PROVE  VouchedFor'
  BY <1>15, SMTT(30) DEF SignInInv, SignInTypes, VouchedFor, Holding, Registering, Joining,
     SignIns!Unlink, SignIns!Known
<1>16. ASSUME NEW u \in Persons, SignIns!RequestLink(u)
      PROVE  VouchedFor'
  BY <1>16, SMTT(30) DEF SignInInv, SignInTypes, VouchedFor, Holding, Registering, Joining,
     SignIns!RequestLink, SignIns!Known, SignIns!MailIf, SignIns!Link
<1>17. ASSUME NEW u \in Persons, SignIns!ChangePassword(u)
      PROVE  VouchedFor'
  BY <1>17, SMTT(30) DEF SignInInv, SignInTypes, VouchedFor, Holding, Registering, Joining,
     SignIns!ChangePassword, SignIns!Known
<1>18. ASSUME NEW u \in Persons, SignIns!ResetPassword(u)
      PROVE  VouchedFor'
  BY <1>18, SMTT(30) DEF SignInInv, SignInTypes, VouchedFor, Holding, Registering, Joining,
     SignIns!ResetPassword, SignIns!Known
<1>19. ASSUME NEW u \in Persons, NEW e \in Emails, SignIns!UpdateProfile(u, e)
      PROVE  VouchedFor'
  BY <1>19, SMTT(30) DEF SignInInv, SignInTypes, VouchedFor, Holding, Registering, Joining,
     SignIns!UpdateProfile, SignIns!Known, SignIns!MailIf, SignIns!Link
<1>20. ASSUME NEW l \in signInLinks, SignIns!Confirm(l)
      PROVE  VouchedFor'
  BY <1>20, SMTT(30) DEF SignInInv, SignInTypes, VouchedFor, Holding, Registering, Joining,
     SignIns!Confirm, SignIns!Known, SignIns!MarkVerified, SignIns!Vouch
<1>21. ASSUME NEW i \in Invitations, SignIns!RevokeInvite(i)
      PROVE  VouchedFor'
  BY <1>21, SMTT(30) DEF SignInInv, SignInTypes, VouchedFor, Holding, Registering, Joining,
     SignIns!RevokeInvite
<1>22. ASSUME NEW i \in Invitations, NEW e \in Emails \cup {None}, SignIns!CreateInvite(i, e)
      PROVE  VouchedFor'
  BY <1>22, SMTT(30) DEF SignInInv, SignInTypes, VouchedFor, Holding, Registering, Joining,
     SignIns!CreateInvite
<1>23. ASSUME NEW v \in BOOLEAN, NEW w \in BOOLEAN,
       SignIns!ChangeSettings([verify |-> v, invites |-> w])
      PROVE  VouchedFor'
  BY <1>23, SMTT(30) DEF SignInInv, SignInTypes, VouchedFor, Holding, Registering, Joining,
     SignIns!ChangeSettings
<1>24. ASSUME UNCHANGED SignIns!vars
      PROVE  VouchedFor'
  BY <1>24, SMTT(30) DEF SignInInv, SignInTypes, VouchedFor, Holding, Registering, Joining,
     SignIns!vars
<1>. QED BY <1>1, <1>2, <1>3, <1>4, <1>5, <1>6, <1>7, <1>8, <1>9, <1>10, <1>11, <1>12, <1>13,
         <1>14, <1>15, <1>16, <1>17, <1>18, <1>19, <1>20, <1>21, <1>22, <1>23, <1>24
           DEF SignIns!Next

LEMMA AdmittedKept ==
  ASSUME SignInInv, [SignIns!Next]_(SignIns!vars)
  PROVE  AdmitOne'
<1>. USE SupportFits DEF SignIns!SignInAssumption, SignIns!At, SignIns!Go, SignIns!End,
     SignIns!Idle, SignIns!Edit
<1>1. ASSUME NEW q \in Requests, NEW e \in Emails, SignIns!StartProvision(q, e)
      PROVE  AdmitOne'
  BY <1>1, SMTT(30) DEF SignInInv, SignInTypes, AdmitOne, Registering, Joining,
     SignIns!StartProvision
<1>2. ASSUME NEW q \in Requests, NEW e \in Emails, NEW i \in Invitations \cup {None},
      SignIns!StartRegister(q, e, i)
      PROVE  AdmitOne'
  BY <1>2, SMTT(30) DEF SignInInv, SignInTypes, AdmitOne, Registering, Joining,
     SignIns!StartRegister
<1>3. ASSUME NEW q \in Requests, NEW i \in Identities, SignIns!StartExchange(q, i)
      PROVE  AdmitOne'
  BY <1>3, SMTT(30) DEF SignInInv, SignInTypes, AdmitOne, Registering, Joining,
     SignIns!StartExchange
<1>4. ASSUME NEW q \in Requests, NEW i \in Identities, NEW u \in Persons, SignIns!StartLink(q, u,
      i)
      PROVE  AdmitOne'
  BY <1>4, SMTT(30) DEF SignInInv, SignInTypes, AdmitOne, Registering, Joining,
     SignIns!StartLink, SignIns!Known
<1>5. ASSUME NEW q \in Requests, SignIns!Refuse(q)
      PROVE  AdmitOne'
  BY <1>5, SMTT(30) DEF SignInInv, SignInTypes, AdmitOne, Registering, Joining, SignIns!Refuse
<1>6. ASSUME NEW q \in Requests, SignIns!Consume(q)
      PROVE  AdmitOne'
  BY <1>6, SMTT(30) DEF SignInInv, SignInTypes, AdmitOne, Registering, Joining, SignIns!Consume,
     SignIns!Usable
<1>7. ASSUME NEW q \in Requests, SignIns!Hash(q)
      PROVE  AdmitOne'
  BY <1>7, SMTT(30) DEF SignInInv, SignInTypes, AdmitOne, Registering, Joining, SignIns!Hash
<1>8. ASSUME NEW q \in Requests, NEW e \in Emails, SignIns!SocialLogin(q, e)
      PROVE  AdmitOne'
  BY <1>8, SMTT(30) DEF SignInInv, SignInTypes, AdmitOne, Registering, Joining,
     SignIns!SocialLogin, SignIns!SocialAccount, SignIns!Connected, SignIns!Holders,
       SignIns!Known, SignIns!Vouch, SignIns!MailIf, SignIns!Link
<1>9. ASSUME NEW q \in Requests, NEW e \in Emails, SignIns!SocialNew(q, e)
      PROVE  AdmitOne'
  BY <1>9, SMTT(30) DEF SignInInv, SignInTypes, AdmitOne, Registering, Joining, SignIns!SocialNew
<1>10. ASSUME NEW q \in Requests, NEW e \in Emails, SignIns!SocialRefused(q, e)
      PROVE  AdmitOne'
  BY <1>10, SMTT(30) DEF SignInInv, SignInTypes, AdmitOne, Registering, Joining,
     SignIns!SocialRefused
<1>11. ASSUME NEW q \in Requests, NEW e \in Emails, SignIns!LinkAccount(q, e)
      PROVE  AdmitOne'
  BY <1>11, SMTT(30) DEF SignInInv, SignInTypes, AdmitOne, Registering, Joining,
     SignIns!LinkAccount, SignIns!SocialAccount, SignIns!Vouch
<1>12. ASSUME NEW q \in Requests, SignIns!Register(q)
      PROVE  AdmitOne'
  BY <1>12, FreshIsFree, SMTT(30) DEF SignInInv, SignInTypes, AdmitOne, Registering, Joining,
     SignIns!Register, SignIns!Account, SignIns!Vouch, SignIns!MailIf, SignIns!Link
<1>13. ASSUME NEW q \in Requests, SignIns!Provision(q)
      PROVE  AdmitOne'
  BY <1>13, FreshIsFree, SMTT(30) DEF SignInInv, SignInTypes, AdmitOne, Registering, Joining,
     SignIns!Provision, SignIns!Account, SignIns!Vouch
<1>14. ASSUME NEW q \in Requests, SignIns!SocialJoin(q)
      PROVE  AdmitOne'
  BY <1>14, FreshIsFree, SMTT(30) DEF SignInInv, SignInTypes, AdmitOne, Registering, Joining,
     SignIns!SocialJoin, SignIns!Account, SignIns!Vouch
<1>15. ASSUME NEW u \in Persons, SignIns!Unlink(u)
      PROVE  AdmitOne'
  BY <1>15, SMTT(30) DEF SignInInv, SignInTypes, AdmitOne, Registering, Joining, SignIns!Unlink,
     SignIns!Known
<1>16. ASSUME NEW u \in Persons, SignIns!RequestLink(u)
      PROVE  AdmitOne'
  BY <1>16, SMTT(30) DEF SignInInv, SignInTypes, AdmitOne, Registering, Joining,
     SignIns!RequestLink, SignIns!Known, SignIns!MailIf, SignIns!Link
<1>17. ASSUME NEW u \in Persons, SignIns!ChangePassword(u)
      PROVE  AdmitOne'
  BY <1>17, SMTT(30) DEF SignInInv, SignInTypes, AdmitOne, Registering, Joining,
     SignIns!ChangePassword, SignIns!Known
<1>18. ASSUME NEW u \in Persons, SignIns!ResetPassword(u)
      PROVE  AdmitOne'
  BY <1>18, SMTT(30) DEF SignInInv, SignInTypes, AdmitOne, Registering, Joining,
     SignIns!ResetPassword, SignIns!Known
<1>19. ASSUME NEW u \in Persons, NEW e \in Emails, SignIns!UpdateProfile(u, e)
      PROVE  AdmitOne'
  BY <1>19, SMTT(30) DEF SignInInv, SignInTypes, AdmitOne, Registering, Joining,
     SignIns!UpdateProfile, SignIns!Known, SignIns!MailIf, SignIns!Link
<1>20. ASSUME NEW l \in signInLinks, SignIns!Confirm(l)
      PROVE  AdmitOne'
  BY <1>20, SMTT(30) DEF SignInInv, SignInTypes, AdmitOne, Registering, Joining, SignIns!Confirm,
     SignIns!Known, SignIns!MarkVerified, SignIns!Vouch
<1>21. ASSUME NEW i \in Invitations, SignIns!RevokeInvite(i)
      PROVE  AdmitOne'
  BY <1>21, SMTT(30) DEF SignInInv, SignInTypes, AdmitOne, Registering, Joining,
     SignIns!RevokeInvite
<1>22. ASSUME NEW i \in Invitations, NEW e \in Emails \cup {None}, SignIns!CreateInvite(i, e)
      PROVE  AdmitOne'
  BY <1>22, SMTT(30) DEF SignInInv, SignInTypes, AdmitOne, Registering, Joining,
     SignIns!CreateInvite
<1>23. ASSUME NEW v \in BOOLEAN, NEW w \in BOOLEAN,
       SignIns!ChangeSettings([verify |-> v, invites |-> w])
      PROVE  AdmitOne'
  BY <1>23, SMTT(30) DEF SignInInv, SignInTypes, AdmitOne, Registering, Joining,
     SignIns!ChangeSettings
<1>24. ASSUME UNCHANGED SignIns!vars
      PROVE  AdmitOne'
  BY <1>24, SMTT(30) DEF SignInInv, SignInTypes, AdmitOne, Registering, Joining, SignIns!vars
<1>. QED BY <1>1, <1>2, <1>3, <1>4, <1>5, <1>6, <1>7, <1>8, <1>9, <1>10, <1>11, <1>12, <1>13,
         <1>14, <1>15, <1>16, <1>17, <1>18, <1>19, <1>20, <1>21, <1>22, <1>23, <1>24
           DEF SignIns!Next

LEMMA SignInKept ==
  ASSUME SignInInv, [SignIns!Next]_(SignIns!vars)
  PROVE  SignInInv'
BY SignInTypesKept, VouchedKept, AdmittedKept DEF SignInInv

\* For any accounts, identities and requests at the same time: an address that
\* counts as verified was vouched for, for this account, and no invitation let in
\* two registrations (register, socialLogin, updateProfile, consume).
THEOREM SignInsSoundAlways == PanelSpec => []SignInsSound
<1>. DEFINE I == part = "signin" => SignInInv
<1>1. PanelInit => I
  BY SignInInit DEF PanelInit
<1>2. I /\ [PanelNext]_panelVars => I'
  BY SignInKept, PartMoves
<1>3. I => SignInsSound
  BY DEF SignInInv, VouchedFor, AdmitOne, SignInsSound, SignIns!VerifiedIsVouched,
     SignIns!InvitesAdmitOne,
         SignIns!Known
<1>. QED BY <1>1, <1>2, <1>3, PTL DEF PanelSpec

-----------------------------------------------------------------------------
(***************************************************************************)
(* Support: StatusReachesRequester, for any people, tickets and number of  *)
(* notifications that are kept.                                            *)
(*                                                                         *)
(* What reaches the requester is the latest notice about the ticket: it is *)
(* unread (Tells), or enough came after it to sweep it away (Swept).  Every *)
(* notice since the last change says how the ticket stands (Says), so      *)
(* reading the latest is as good as having seen the change.                *)
(***************************************************************************)

Notices == [ticket : Tickets, status : Desk!Statuses, at : Nat, read : BOOLEAN]
TicketRows ==
  [owner : People, status : Desk!Statuses, closed : BOOLEAN, assignee : People \cup {None}]
Sights == [status : Desk!Statuses \cup {None}, told : BOOLEAN, at : Nat]
Push(l, n) == Desk!Prune(Append(l, n))

DeskTypes ==
  /\ supportTicket \in [Tickets -> TicketRows \cup {None}]
  /\ supportClock \in Nat /\ supportNotifying \in BOOLEAN
  /\ supportSeen \in [Tickets -> Sights]
  /\ supportList \in [People -> Seq(Notices)]

\* Notices and changes are of the past, and nobody has more than are kept.
DeskPast ==
  /\ \A t \in Tickets : supportSeen[t].at <= supportClock
  /\ \A u \in People : /\ Len(supportList[u]) <= Cap
                       /\ \A i \in 1..Len(supportList[u]) : supportList[u][i].at < supportClock

Tells(l, t, since) ==
  \E i \in 1..Len(l) :
    /\ ~l[i].read /\ l[i].ticket = t
    /\ \A j \in i..Len(l) : l[j].at >= since /\ (j > i => l[j].ticket # t)
Swept(l, t, since) ==
  Len(l) = Cap /\ \A i \in 1..Len(l) : l[i].at >= since /\ l[i].ticket # t
Reached(l, t, tk, sight) ==
  sight.told => sight.status = tk.status \/ Tells(l, t, sight.at) \/ Swept(l, t, sight.at)
Says(l, t, since, status) ==
  \A i \in 1..Len(l) : l[i].ticket = t /\ l[i].at >= since => l[i].status = status

Standing(t) ==
  supportTicket[t] # None =>
    /\ Reached(supportList[supportTicket[t].owner], t, supportTicket[t], supportSeen[t])
    /\ Says(supportList[supportTicket[t].owner], t, supportSeen[t].at, supportTicket[t].status)

DeskInv == DeskTypes /\ DeskPast /\ \A t \in Tickets : Standing(t)

LEMMA DeskInit ==
  ASSUME Desk!Init
  PROVE  DeskInv
<1>1. DeskTypes /\ DeskPast
  BY SupportFits DEF Desk!SupportAssumption, Desk!Init, DeskTypes, DeskPast, Sights, Notices
<1>2. \A t \in Tickets : supportTicket[t] = None
  BY DEF Desk!Init
<1>. QED BY <1>1, <1>2 DEF DeskInv, Standing

LEMMA NoticesAt ==
  ASSUME NEW l \in Seq(Notices)
  PROVE  \A i \in 1..Len(l) : l[i] \in Notices /\ l[i].at \in Nat
<1>1. \A i \in 1..Len(l) : l[i] \in Notices
  OBVIOUS
<1>2. \A n \in Notices : n.at \in Nat
  BY DEF Notices
<1>. QED BY <1>1, <1>2

\* prune() after a notice: the oldest goes when there are as many as are kept.
LEMMA Pushes ==
  ASSUME NEW l \in Seq(Notices), Len(l) <= Cap, NEW n \in Notices
  PROVE  \E k \in {0, 1} :
           LET p == Push(l, n) IN
           /\ p \in Seq(Notices) /\ Len(p) = Len(l) + 1 - k /\ Len(p) <= Cap /\ Len(p) >= 1
           /\ p[Len(p)] = n /\ \A i \in 1..(Len(p) - 1) : p[i] = l[i + k]
           /\ k = 1 <=> Len(l) = Cap
<1>. DEFINE a == Append(l, n)
            p == Push(l, n)
<1>1. Cap \in Nat \ {0} /\ Len(l) \in Nat
  BY SupportFits DEF Desk!SupportAssumption
<1>2. /\ a \in Seq(Notices) /\ Len(a) = Len(l) + 1 /\ a[Len(l) + 1] = n
      /\ \A i \in 1..Len(l) : a[i] = l[i]
  OBVIOUS
<1>. HIDE DEF a
<1>3. CASE Len(l) < Cap
  <2>1. p = a
    BY <1>1, <1>2, <1>3 DEF Push, Desk!Prune, a
  <2>. WITNESS 0 \in {0, 1}
  <2>. QED BY <1>1, <1>2, <1>3, <2>1
<1>4. CASE Len(l) = Cap
  <2>1. p = SubSeq(a, 2, Cap + 1)
    BY <1>1, <1>2, <1>4 DEF Push, Desk!Prune, a
  <2>2. /\ p \in Seq(Notices) /\ Len(p) = Cap
        /\ \A i \in 1..Cap : p[i] = a[i + 1]
    BY <1>1, <1>2, <1>4, <2>1
  <2>. HIDE DEF p
  <2>3. p[Cap] = n /\ \A i \in 1..(Cap - 1) : p[i] = l[i + 1]
    BY <1>1, <1>2, <1>4, <2>2
  <2>4. /\ p \in Seq(Notices) /\ Len(p) = Len(l) + 1 - 1 /\ Len(p) <= Cap /\ Len(p) >= 1
        /\ p[Len(p)] = n /\ \A i \in 1..(Len(p) - 1) : p[i] = l[i + 1]
        /\ 1 = 1 <=> Len(l) = Cap
    BY <1>1, <1>4, <2>2, <2>3
  <2>. WITNESS 1 \in {0, 1}
  <2>. QED BY <2>4 DEF p
<1>. QED BY <1>1, <1>3, <1>4

\* A notice tells of its ticket, and hides no other.
LEMMA PushTells ==
  ASSUME NEW l \in Seq(Notices), Len(l) <= Cap, NEW n \in Notices, ~n.read, NEW since \in Nat,
         n.at >= since
  PROVE  Tells(Push(l, n), n.ticket, since)
<1>. DEFINE p == Push(l, n)
<1>1. p \in Seq(Notices) /\ Len(p) >= 1 /\ p[Len(p)] = n /\ Len(p) \in Nat
  BY Pushes
<1>. HIDE DEF p
<1>2. Len(p) \in 1..Len(p) /\ \A j \in Len(p)..Len(p) : j = Len(p)
  BY <1>1
<1>3. Tells(p, n.ticket, since)
  BY <1>1, <1>2 DEF Tells
<1>. QED BY <1>3 DEF p

LEMMA PushKeeps ==
  ASSUME NEW l \in Seq(Notices), Len(l) <= Cap, NEW n \in Notices, ~n.read,
         NEW t, NEW since \in Nat, n.at >= since, Tells(l, t, since) \/ Swept(l, t, since)
  PROVE  Tells(Push(l, n), t, since) \/ Swept(Push(l, n), t, since)
<1>. DEFINE p == Push(l, n)
<1>1. CASE n.ticket = t
  BY <1>1, PushTells
<1>2. CASE n.ticket # t
  <2>1. PICK k \in {0, 1} :
          /\ p \in Seq(Notices) /\ Len(p) = Len(l) + 1 - k /\ Len(p) <= Cap /\ Len(p) >= 1
          /\ p[Len(p)] = n /\ \A i \in 1..(Len(p) - 1) : p[i] = l[i + k]
          /\ k = 1 <=> Len(l) = Cap
    BY Pushes
  <2>2. Len(l) \in Nat /\ Len(p) \in Nat /\ Cap \in Nat
    BY <2>1, SupportFits DEF Desk!SupportAssumption
  <2>. HIDE DEF p
  <2>3. \A i \in 1..Len(p) : i = Len(p) \/ (i \in 1..(Len(p) - 1) /\ i + k \in 1..Len(l))
    BY <2>1, <2>2
  <2>4. CASE Swept(l, t, since)
    <3>1. Len(p) = Cap
      BY <2>1, <2>2, <2>4 DEF Swept
    <3>2. ASSUME NEW i \in 1..Len(p) PROVE p[i].at >= since /\ p[i].ticket # t
      BY <1>2, <2>1, <2>3, <2>4 DEF Swept
    <3>. QED BY <3>1, <3>2 DEF Swept, p
  <2>5. CASE Tells(l, t, since)
    <3>1. PICK i \in 1..Len(l) :
            /\ ~l[i].read /\ l[i].ticket = t
            /\ \A j \in i..Len(l) : l[j].at >= since /\ (j > i => l[j].ticket # t)
      BY <2>5 DEF Tells
    <3>2. CASE i - k \in 1..Len(l)
      <4>. DEFINE m == i - k
      <4>1. m \in 1..(Len(p) - 1) /\ m \in 1..Len(p) /\ m + k = i
        BY <2>1, <2>2, <3>1, <3>2
      <4>2. p[m] = l[i]
        BY <2>1, <4>1
      <4>3. ASSUME NEW j \in m..Len(p) PROVE p[j].at >= since /\ (j > m => p[j].ticket # t)
        <5>1. CASE j = Len(p)
          BY <1>2, <2>1, <5>1
        <5>2. CASE j # Len(p)
          <6>1. j \in 1..(Len(p) - 1) /\ k \in {0, 1} /\ i \in Nat /\ j >= i - k
            BY <2>1, <2>2, <3>1, <4>1, <5>2
          <6>2. j + k \in i..Len(l) /\ (j > i - k => j + k > i)
            BY <2>1, <2>2, <6>1
          <6>. HIDE DEF m
          <6>3. j > m => j > i - k
            BY DEF m
          <6>. QED BY <2>1, <3>1, <6>1, <6>2, <6>3
        <5>. QED BY <5>1, <5>2
      <4>. HIDE DEF m
      <4>4. Tells(p, t, since)
        BY <3>1, <4>1, <4>2, <4>3 DEF Tells
      <4>. QED BY <4>4 DEF p
    <3>3. CASE i - k \notin 1..Len(l)
      <4>1. i = 1 /\ k = 1 /\ Len(p) = Cap
        BY <2>1, <2>2, <3>1, <3>3
      <4>2. ASSUME NEW j \in 1..Len(p) PROVE p[j].at >= since /\ p[j].ticket # t
        <5>1. CASE j = Len(p)
          BY <1>2, <2>1, <5>1
        <5>2. CASE j # Len(p)
          <6>1. j \in 1..(Len(p) - 1) /\ j + k \in i..Len(l) /\ j + k > i
            BY <2>1, <2>2, <4>1, <5>2
          <6>. QED BY <2>1, <3>1, <6>1
        <5>. QED BY <5>1, <5>2
      <4>. QED BY <4>1, <4>2 DEF Swept, p
    <3>. QED BY <3>2, <3>3
  <2>. QED BY <2>4, <2>5
<1>. QED BY <1>1, <1>2

LEMMA PushSays ==
  ASSUME NEW l \in Seq(Notices), Len(l) <= Cap, NEW n \in Notices, NEW t, NEW since, NEW status,
         n.ticket = t => n.status = status, Says(l, t, since, status)
  PROVE  Says(Push(l, n), t, since, status)
<1>. DEFINE p == Push(l, n)
<1>1. PICK k \in {0, 1} :
        /\ p \in Seq(Notices) /\ Len(p) = Len(l) + 1 - k /\ Len(p) <= Cap /\ Len(p) >= 1
        /\ p[Len(p)] = n /\ \A i \in 1..(Len(p) - 1) : p[i] = l[i + k]
        /\ k = 1 <=> Len(l) = Cap
  BY Pushes
<1>2. Len(l) \in Nat /\ Len(p) \in Nat
  BY <1>1
<1>. HIDE DEF p
<1>3. \A i \in 1..Len(p) : i = Len(p) \/ (i \in 1..(Len(p) - 1) /\ i + k \in 1..Len(l))
  BY <1>1, <1>2
<1>4. Says(p, t, since, status)
  BY <1>1, <1>3 DEF Says
<1>. QED BY <1>4 DEF p

\* An operation on a ticket: it stands as tk, and people may have been told so,
\* the requester unless it knows.
Operation(t, tk, sight) ==
  LET n == Desk!Notice(t, tk.status) IN
  /\ t \in Tickets /\ tk \in TicketRows /\ sight \in Sights
  /\ supportTicket[t] # None => supportTicket[t].owner = tk.owner
  /\ supportTicket' = [supportTicket EXCEPT ![t] = tk]
  /\ supportSeen' = [supportSeen EXCEPT ![t] = sight]
  /\ supportClock' = supportClock + 1
  /\ supportNotifying' = supportNotifying /\ supportList' = [u \in People |-> supportList'[u]]
  /\ \A u \in People :
       supportList'[u] \in {supportList[u], Push(supportList[u], n),
         Push(Push(supportList[u], n), n)}
  /\ \/ sight = supportSeen[t] /\ supportTicket[t] # None /\ supportTicket[t].status = tk.status
     \/ /\ sight.at = supportClock
        /\ \/ ~sight.told \/ sight.status = tk.status
           \/ supportList'[tk.owner] \in
                {Push(supportList[tk.owner], n), Push(Push(supportList[tk.owner], n), n)}

LEMMA NoticeIs ==
  ASSUME DeskTypes, NEW t \in Tickets, NEW status \in Desk!Statuses
  PROVE  LET n == Desk!Notice(t, status) IN
         n \in Notices /\ n.ticket = t /\ n.status = status /\ n.at = supportClock
           /\ n.at \in Nat /\ ~n.read
BY DEF DeskTypes, Notices, Desk!Notice

\* What is true of every list stays so under the notices of an operation.
LEMMA OperationPast ==
  ASSUME DeskInv, NEW t, NEW tk, NEW sight, Operation(t, tk, sight)
  PROVE  DeskTypes' /\ DeskPast'
<1>. DEFINE n == Desk!Notice(t, tk.status)
<1>1. /\ t \in Tickets /\ tk \in TicketRows /\ sight \in Sights
         /\ supportClock' = supportClock + 1
      /\ supportClock \in Nat /\ tk.status \in Desk!Statuses
  BY DEF Operation, DeskInv, DeskTypes, TicketRows
<1>2. n \in Notices /\ n.at = supportClock
  BY <1>1, NoticeIs DEF DeskInv
<1>. HIDE DEF n
<1>3. ASSUME NEW u \in People, NEW l \in Seq(Notices), Len(l) <= Cap,
             \A i \in 1..Len(l) : l[i].at < supportClock'
      PROVE  /\ Push(l, n) \in Seq(Notices) /\ Len(Push(l, n)) <= Cap
             /\ \A i \in 1..Len(Push(l, n)) : Push(l, n)[i].at < supportClock'
  <2>. DEFINE p == Push(l, n)
  <2>1. PICK k \in {0, 1} :
          /\ p \in Seq(Notices) /\ Len(p) = Len(l) + 1 - k /\ Len(p) <= Cap /\ Len(p) >= 1
          /\ p[Len(p)] = n /\ \A i \in 1..(Len(p) - 1) : p[i] = l[i + k]
          /\ k = 1 <=> Len(l) = Cap
    BY <1>2, <1>3, Pushes
  <2>2. Len(l) \in Nat /\ Len(p) \in Nat
    BY <2>1
  <2>. HIDE DEF p
  <2>3. \A i \in 1..Len(p) : i = Len(p) \/ (i \in 1..(Len(p) - 1) /\ i + k \in 1..Len(l))
    BY <2>1, <2>2
  <2>4. n.at < supportClock'
    BY <1>1, <1>2
  <2>5. \A i \in 1..Len(p) : p[i].at < supportClock'
    BY <1>3, <2>1, <2>3, <2>4
  <2>. QED BY <2>1, <2>5 DEF p
<1>4. ASSUME NEW u \in People
      PROVE  /\ supportList'[u] \in Seq(Notices) /\ Len(supportList'[u]) <= Cap
             /\ \A i \in 1..Len(supportList'[u]) : supportList'[u][i].at < supportClock'
  <2>1. /\ supportList[u] \in Seq(Notices) /\ Len(supportList[u]) <= Cap
        /\ \A i \in 1..Len(supportList[u]) : supportList[u][i].at < supportClock'
    <3>1. /\ supportList[u] \in Seq(Notices) /\ Len(supportList[u]) <= Cap
          /\ \A i \in 1..Len(supportList[u]) : supportList[u][i].at < supportClock
      BY DEF DeskInv, DeskTypes, DeskPast
    <3>2. \A i \in 1..Len(supportList[u]) : supportList[u][i].at \in Nat
      BY <3>1, NoticesAt
    <3>3. \A a \in Nat : a < supportClock => a < supportClock'
      BY <1>1
    <3>. QED BY <3>1, <3>2, <3>3
  <2>2. /\ Push(supportList[u], n) \in Seq(Notices) /\ Len(Push(supportList[u], n)) <= Cap
        /\ \A i \in 1..Len(Push(supportList[u], n)) : Push(supportList[u],
                                                           n)[i].at < supportClock'
    BY <1>3, <2>1
  <2>3. supportList'[u] \in {supportList[u], Push(supportList[u], n),
        Push(Push(supportList[u], n), n)}
    BY DEF Operation, n
  <2>. QED BY <1>3, <2>1, <2>2, <2>3
<1>5. supportList' \in [People -> Seq(Notices)]
  BY <1>4 DEF Operation
<1>6. supportTicket' \in [Tickets -> TicketRows \cup {None}]
      /\ supportSeen' \in [Tickets -> Sights]
      /\ supportClock' \in Nat /\ supportNotifying' \in BOOLEAN
  BY <1>1 DEF Operation, DeskInv, DeskTypes
<1>7. \A x \in Tickets : supportSeen'[x].at <= supportClock'
  <2>1. \A x \in Tickets : supportSeen[x].at <= supportClock /\ supportSeen[x].at \in Nat
    BY DEF DeskInv, DeskTypes, DeskPast, Sights
  <2>2. sight.at = supportClock \/ sight = supportSeen[t]
    BY DEF Operation
  <2>3. sight.at <= supportClock /\ sight.at \in Nat
    BY <1>1, <2>1, <2>2
  <2>4. \A x \in Tickets : supportSeen'[x] = IF x = t THEN sight ELSE supportSeen[x]
    BY DEF Operation, DeskInv, DeskTypes
  <2>. QED BY <1>1, <2>1, <2>3, <2>4
<1>. QED BY <1>4, <1>5, <1>6, <1>7 DEF DeskTypes, DeskPast

LEMMA OperationStands ==
  ASSUME DeskInv, NEW t, NEW tk, NEW sight, Operation(t, tk, sight), NEW x \in Tickets
  PROVE  Standing(x)'
<1>. DEFINE n == Desk!Notice(t, tk.status)
            l == supportList[supportTicket'[x].owner]
            m == supportList'[supportTicket'[x].owner]
<1>1. /\ t \in Tickets /\ tk \in TicketRows /\ sight \in Sights /\ supportClock \in Nat
      /\ tk.status \in Desk!Statuses /\ tk.owner \in People
  BY DEF Operation, DeskInv, DeskTypes, TicketRows
<1>2. n \in Notices /\ n.at = supportClock /\ n.ticket = t /\ n.status = tk.status /\ ~n.read
  BY <1>1, NoticeIs DEF DeskInv
<1>. SUFFICES ASSUME supportTicket'[x] # None
     PROVE  Reached(m, x, supportTicket'[x], supportSeen'[x]) /\ Says(m, x, supportSeen'[x].at,
            supportTicket'[x].status)
  BY DEF Standing
<1>. HIDE DEF n
<1>3. supportTicket'[x].owner \in People
  BY <1>1 DEF Operation, DeskInv, DeskTypes, TicketRows
<1>4. m \in {l, Push(l, n), Push(Push(l, n), n)}
  BY <1>3 DEF Operation, n
<1>5. l \in Seq(Notices) /\ Len(l) <= Cap /\ \A i \in 1..Len(l) : l[i].at < supportClock
      /\ l[i].at \in Nat
  <2>1. l \in Seq(Notices) /\ Len(l) <= Cap /\ \A i \in 1..Len(l) : l[i].at < supportClock
    BY <1>3 DEF DeskInv, DeskTypes, DeskPast
  <2>. QED BY <2>1, NoticesAt
<1>6. Push(l, n) \in Seq(Notices) /\ Len(Push(l, n)) <= Cap
  BY <1>2, <1>5, Pushes
<1>7. supportSeen'[x] \in Sights /\ supportSeen'[x].at \in Nat
      /\ supportSeen'[x].at <= supportClock
  <2>1. supportSeen[x].at <= supportClock /\ supportSeen[x] \in Sights
    BY DEF DeskInv, DeskTypes, DeskPast
  <2>2. sight.at = supportClock \/ sight = supportSeen[t]
    BY DEF Operation
  <2>3. sight.at <= supportClock
    BY <1>1, <2>2 DEF DeskInv, DeskTypes, DeskPast
  <2>4. supportSeen'[x] = IF x = t THEN sight ELSE supportSeen[x]
    BY DEF Operation, DeskInv, DeskTypes
  <2>. QED BY <1>1, <2>1, <2>3, <2>4 DEF Sights
<1>. DEFINE tx == supportTicket'[x]
            sx == supportSeen'[x]
<1>8. tx = (IF x = t THEN tk ELSE supportTicket[x])
      /\ sx = (IF x = t THEN sight ELSE supportSeen[x])
  BY <1>1 DEF Operation, DeskInv, DeskTypes
<1>. HIDE DEF m, l, tx, sx
\* What the list said before is kept by any number of notices.
<1>9. ASSUME Says(l, x, sx.at, tx.status)
      PROVE  Says(m, x, sx.at, tx.status)
  <2>1. n.ticket = x => n.status = tx.status
    BY <1>2, <1>8
  <2>2. Says(Push(l, n), x, sx.at, tx.status)
    BY <1>2, <1>5, <1>9, <2>1, PushSays
  <2>3. Says(Push(Push(l, n), n), x, sx.at, tx.status)
    BY <1>2, <1>6, <2>1, <2>2, PushSays
  <2>. QED BY <1>4, <1>9, <2>2, <2>3
<1>10. ASSUME Tells(l, x, sx.at) \/ Swept(l, x, sx.at)
       PROVE  Tells(m, x, sx.at) \/ Swept(m, x, sx.at)
  <2>1. n.at >= sx.at /\ sx.at \in Nat
    BY <1>1, <1>2, <1>7 DEF sx
  <2>2. Tells(Push(l, n), x, sx.at) \/ Swept(Push(l, n), x, sx.at)
    BY <1>2, <1>5, <1>10, <2>1, PushKeeps
  <2>3. Tells(Push(Push(l, n), n), x, sx.at) \/ Swept(Push(Push(l, n), n), x, sx.at)
    BY <1>2, <1>6, <2>1, <2>2, PushKeeps
  <2>. QED BY <1>4, <1>10, <2>2, <2>3
\* The ticket was as it is, for the requester and in the table.
<1>11. ASSUME supportTicket[x] # None, supportTicket[x].owner = tx.owner,
       supportTicket[x].status = tx.status,
              sx = supportSeen[x]
       PROVE  Reached(m, x, tx, sx) /\ Says(m, x, sx.at, tx.status)
  <2>1. Standing(x)
    BY DEF DeskInv
  <2>2. Reached(l, x, supportTicket[x], sx) /\ Says(l, x, sx.at, tx.status)
    BY <1>11, <2>1 DEF Standing, l, tx
  <2>3. Says(m, x, sx.at, tx.status)
    BY <1>9, <2>2
  <2>4. Reached(m, x, tx, sx)
    BY <1>10, <1>11, <2>2 DEF Reached
  <2>. QED BY <2>3, <2>4
<1>12. CASE x # t
  <2>1. tx = supportTicket[x] /\ sx = supportSeen[x] /\ supportTicket[x] # None
    BY <1>8, <1>12 DEF tx
  <2>. QED BY <1>11, <2>1 DEF tx, sx
<1>13. CASE x = t /\ sight = supportSeen[t] /\ supportTicket[t] # None
            /\ supportTicket[t].status = tk.status
  <2>1. tx = tk /\ sx = supportSeen[x] /\ supportTicket[x].owner = tx.owner
    BY <1>8, <1>13 DEF Operation
  <2>. QED BY <1>11, <1>13, <2>1 DEF tx, sx
<1>14. CASE /\ x = t /\ sight.at = supportClock
            /\ \/ ~sight.told \/ sight.status = tk.status
               \/ supportList'[tk.owner] \in
                    {Push(supportList[tk.owner], n), Push(Push(supportList[tk.owner], n), n)}
  <2>1. tx = tk /\ sx = sight
    BY <1>8, <1>14
  <2>2. \A i \in 1..Len(l) : ~(l[i].at >= sx.at)
    BY <1>1, <1>5, <1>14, <2>1
  <2>3. Says(m, x, sx.at, tx.status)
    BY <1>9, <2>2 DEF Says
  <2>4. Reached(m, x, tx, sx)
    <3>1. CASE ~sight.told \/ sight.status = tk.status
      BY <2>1, <3>1 DEF Reached
    <3>2. CASE m \in {Push(l, n), Push(Push(l, n), n)}
      <4>1. n.at >= sx.at /\ sx.at \in Nat
        BY <1>1, <1>2, <1>14, <2>1
      <4>2. Tells(Push(l, n), x, sx.at) /\ Tells(Push(Push(l, n), n), x, sx.at)
        BY <1>2, <1>5, <1>6, <1>14, <4>1, PushTells
      <4>. QED BY <3>2, <4>2 DEF Reached
    <3>. QED BY <1>14, <2>1, <3>1, <3>2 DEF m, l, tx
  <2>. QED BY <2>3, <2>4 DEF tx, sx
<1>15. \/ sight = supportSeen[t] /\ supportTicket[t] # None /\ supportTicket[t].status = tk.status
       \/ /\ sight.at = supportClock
          /\ \/ ~sight.told \/ sight.status = tk.status
             \/ supportList'[tk.owner] \in
                  {Push(supportList[tk.owner], n), Push(Push(supportList[tk.owner], n), n)}
  BY DEF Operation, n
<1>. QED BY <1>12, <1>13, <1>14, <1>15 DEF m

\* The last of some places: < is well founded on their distances from the end.
LEMMA LastOne ==
  ASSUME NEW n \in Nat, NEW S \in SUBSET (1..n), S # {}
  PROVE  \E i \in S : \A j \in S : j <= i
<1>. DEFINE Less == {x \in Nat \X Nat : x[1] < x[2]}
            T == {m \in Nat : n - m \in S}
<1>1. IsWellFoundedOn(Less, Nat)
  BY NatLessThanWellFounded DEF OpToRel
<1>2. T \subseteq Nat /\ T # {}
  <2>1. PICK i \in S : TRUE
    OBVIOUS
  <2>2. n - i \in Nat /\ n - (n - i) = i
    BY <2>1
  <2>. QED BY <2>2
<1>. HIDE DEF Less
<1>3. PICK m \in T : \A k \in T : <<k, m>> \notin Less
  BY <1>1, <1>2, WFMin
<1>4. ASSUME NEW j \in S PROVE j <= n - m
  <2>1. n - j \in T /\ m \in Nat /\ n - j \in Nat /\ j \in Nat
    <3>1. n - j \in Nat /\ n - (n - j) = j
      OBVIOUS
    <3>. QED BY <1>3, <3>1
  <2>2. ~(n - j < m)
    <3>. DEFINE k == n - j
    <3>1. <<k, m>> \notin Less /\ k \in Nat /\ m \in Nat
      BY <1>3, <2>1
    <3>. HIDE DEF k
    <3>2. ~(k < m)
      BY <3>1 DEF Less
    <3>. QED BY <3>2 DEF k
  <2>. QED BY <2>1, <2>2
<1>. QED BY <1>3, <1>4

\* MarkRead: the notices stay, and the requester knows what the latest says.
LEMMA ReadStands ==
  ASSUME DeskInv, NEW u \in People, NEW read, read \subseteq DOMAIN supportList[u],
         Desk!MarkRead(u, read)
  PROVE  DeskInv'
<1>. DEFINE l == supportList[u]
            m == supportList'[u]
<1>1. /\ l \in Seq(Notices) /\ Len(l) \in Nat /\ DOMAIN l = 1..Len(l) /\ Len(l) <= Cap
      /\ \A i \in 1..Len(l) : l[i] \in Notices /\ l[i].at \in Nat /\ l[i].at < supportClock
  <2>1. l \in Seq(Notices) /\ Len(l) <= Cap /\ \A i \in 1..Len(l) : l[i].at < supportClock
    BY DEF DeskInv, DeskTypes, DeskPast
  <2>. QED BY <2>1, NoticesAt
<1>2. /\ \A v \in People \ {u} : supportList'[v] = supportList[v]
      /\ m = [i \in 1..Len(l) |-> IF i \in read THEN [l[i] EXCEPT !.read = TRUE] ELSE l[i]]
      /\ DOMAIN supportList' = People /\ supportList' = [v \in People |-> supportList'[v]]
      /\ UNCHANGED <<supportTicket, supportNotifying, supportClock>>
  BY <1>1 DEF Desk!MarkRead, DeskInv, DeskTypes
<1>. HIDE DEF m, l
<1>3. /\ m \in Seq(Notices) /\ Len(m) = Len(l)
      /\ \A i \in 1..Len(l) : /\ m[i].ticket = l[i].ticket /\ m[i].status = l[i].status
                              /\ m[i].at = l[i].at
                              /\ i \notin read => m[i].read = l[i].read
  <2>1. ASSUME NEW i \in 1..Len(l) PROVE m[i] \in Notices
    BY <1>1, <1>2 DEF Notices
  <2>2. m \in Seq(Notices) /\ Len(m) = Len(l)
    BY <1>1, <1>2, <2>1
  <2>3. ASSUME NEW i \in 1..Len(l)
        PROVE  /\ m[i].ticket = l[i].ticket /\ m[i].status = l[i].status /\ m[i].at = l[i].at
               /\ i \notin read => m[i].read = l[i].read
    BY <1>1, <1>2 DEF Notices
  <2>. QED BY <2>2, <2>3
<1>. DEFINE said(t) == {i \in 1..Len(l) : l[i].ticket = t}
            last(t) == CHOOSE i \in said(t) : \A j \in said(t) : j <= i
            Saw(t) == /\ supportTicket[t] # None /\ supportTicket[t].owner = u /\ said(t) # {}
                         /\ last(t) \in read
                      /\ l[last(t)].at >= supportSeen[t].at
<1>4. ASSUME NEW t \in Tickets
      PROVE  supportSeen'[t] = IF Saw(t) THEN [supportSeen[t] EXCEPT !.status
                                               = l[last(t)].status] ELSE supportSeen[t]
  BY <1>1 DEF Desk!MarkRead, Desk!Saw, Desk!Known, l
<1>5. ASSUME NEW t \in Tickets, said(t) # {}
      PROVE  last(t) \in said(t) /\ \A j \in said(t) : j <= last(t)
  <2>1. \E i \in said(t) : \A j \in said(t) : j <= i
    BY <1>1, <1>5, LastOne
  <2>. QED BY <2>1
<1>. HIDE DEF last
<1>6. ASSUME NEW t \in Tickets
      PROVE  /\ supportSeen'[t] \in Sights /\ supportSeen'[t].at = supportSeen[t].at
             /\ supportSeen'[t].told = supportSeen[t].told
             /\ Saw(t) => supportSeen'[t].status = l[last(t)].status
             /\ ~Saw(t) => supportSeen'[t].status = supportSeen[t].status
  <2>1. supportSeen[t] \in Sights
    BY DEF DeskInv, DeskTypes
  <2>2. Saw(t) => l[last(t)].status \in Desk!Statuses
    BY <1>1, <1>5 DEF Notices
  <2>. HIDE DEF Saw
  <2>. QED BY <1>4, <2>1, <2>2 DEF Sights
<1>7. supportSeen' = [t \in Tickets |-> supportSeen'[t]]
  BY DEF Desk!MarkRead, Desk!Saw
<1>8. DeskTypes'
  <2>1. supportSeen' \in [Tickets -> Sights]
    BY <1>6, <1>7
  <2>2. supportList' \in [People -> Seq(Notices)]
    BY <1>2, <1>3 DEF DeskInv, DeskTypes, m
  <2>. QED BY <1>2, <2>1, <2>2 DEF DeskInv, DeskTypes
<1>9. DeskPast'
  <2>1. \A t \in Tickets : supportSeen'[t].at <= supportClock'
    BY <1>2, <1>6 DEF DeskInv, DeskPast
  <2>2. \A i \in 1..Len(m) : m[i].at < supportClock
    BY <1>1, <1>3
  <2>3. ASSUME NEW v \in People
        PROVE  Len(supportList'[v]) <= Cap /\ \A i \in 1..Len(supportList'[v]) :
               supportList'[v][i].at < supportClock'
    <3>1. CASE v = u
      BY <1>1, <1>2, <1>3, <2>2, <3>1 DEF m
    <3>2. CASE v # u
      BY <1>2, <3>2 DEF DeskInv, DeskPast
    <3>. QED BY <3>1, <3>2
  <2>. QED BY <2>1, <2>3 DEF DeskPast
<1>10. ASSUME NEW t \in Tickets PROVE Standing(t)'
  <2>. SUFFICES ASSUME supportTicket[t] # None
       PROVE  LET p == supportList'[supportTicket[t].owner] IN
              Reached(p, t, supportTicket[t], supportSeen'[t]) /\ Says(p, t, supportSeen'[t].at,
                supportTicket[t].status)
    BY <1>2 DEF Standing
  <2>1. supportTicket[t].owner \in People
    BY DEF DeskInv, DeskTypes, TicketRows
  <2>2. /\ Reached(supportList[supportTicket[t].owner], t, supportTicket[t], supportSeen[t])
        /\ Says(supportList[supportTicket[t].owner], t, supportSeen[t].at,
                supportTicket[t].status)
    BY DEF DeskInv, Standing
  <2>3. CASE supportTicket[t].owner # u
    <3>1. supportSeen'[t].status = supportSeen[t].status
      BY <1>6, <2>3
    <3>. QED BY <1>2, <1>6, <2>1, <2>2, <2>3, <3>1 DEF Reached
  <2>4. CASE supportTicket[t].owner = u
    <3>1. Says(m, t, supportSeen'[t].at, supportTicket[t].status)
      BY <1>3, <1>6, <2>2, <2>4 DEF Says, l
    <3>2. Saw(t) => supportSeen'[t].status = supportTicket[t].status
      BY <1>5, <1>6, <2>2, <2>4 DEF Says, l
    <3>3. Reached(m, t, supportTicket[t], supportSeen'[t])
      <4>. SUFFICES ASSUME supportSeen'[t].told, supportSeen'[t].status # supportTicket[t].status
           PROVE  Tells(m, t, supportSeen[t].at) \/ Swept(m, t, supportSeen[t].at)
        BY <1>6 DEF Reached
      <4>1. ~Saw(t) /\ supportSeen[t].status # supportTicket[t].status /\ supportSeen[t].told
        BY <1>6, <3>2
      <4>2. CASE Swept(l, t, supportSeen[t].at)
        BY <1>3, <4>2 DEF Swept
      <4>3. CASE Tells(l, t, supportSeen[t].at)
        <5>1. PICK i \in 1..Len(l) :
                /\ ~l[i].read /\ l[i].ticket = t
                /\ \A j \in i..Len(l) : l[j].at >= supportSeen[t].at /\ (j > i => l[j].ticket # t)
          BY <4>3 DEF Tells
        <5>2. i \in said(t) /\ i \in i..Len(l)
          BY <1>1, <5>1
        <5>3. last(t) = i
          <6>1. last(t) \in said(t) /\ i <= last(t)
            BY <1>5, <5>2
          <6>2. ~(last(t) > i)
            BY <1>1, <5>1, <6>1
          <6>. QED BY <1>1, <5>1, <6>1, <6>2
        <5>4. i \notin read
          BY <2>4, <4>1, <5>1, <5>2, <5>3
        <5>5. \A j \in i..Len(l) : j \in 1..Len(l)
          BY <1>1, <5>1
        <5>. QED BY <1>3, <5>1, <5>4, <5>5 DEF Tells
      <4>. QED BY <2>2, <2>4, <4>1, <4>2, <4>3 DEF Reached, l
    <3>. QED BY <2>4, <3>1, <3>3 DEF m
  <2>. QED BY <2>3, <2>4
<1>. QED BY <1>8, <1>9, <1>10 DEF DeskInv

\* Who is told is told once; the lists of the others stay.
LEMMA NotifyIs ==
  ASSUME DeskTypes, NEW users, NEW t, NEW status, Desk!Notify(users, t, status)
  PROVE  /\ supportList' = [u \in People |-> supportList'[u]]
         /\ \A u \in People : supportList'[u] \in {supportList[u], Push(supportList[u],
            Desk!Notice(t, status))}
         /\ \A u \in People \cap users : supportNotifying =>
              supportList'[u] = Push(supportList[u], Desk!Notice(t, status))
BY DEF Desk!Notify, DeskTypes, Push

\* The requester of a change that was told is the actor or is told.
LEMMA ChangeOperates ==
  ASSUME DeskInv, NEW t \in Tickets, NEW u \in People, NEW tk \in TicketRows,
         supportTicket[t] # None => supportTicket[t].owner = tk.owner,
         supportTicket' = [supportTicket EXCEPT ![t] = tk],
         supportClock' = supportClock + 1, supportNotifying' = supportNotifying,
         Desk!Changed(t, u, tk.status), supportList' = [v \in People |-> supportList'[v]],
         \A v \in People :
           supportList'[v] \in {supportList[v], Push(supportList[v], Desk!Notice(t, tk.status)),
                               Push(Push(supportList[v], Desk!Notice(t, tk.status)),
                                    Desk!Notice(t, tk.status))},
         supportNotifying /\ u # tk.owner =>
           supportList'[tk.owner] \in
             {Push(supportList[tk.owner], Desk!Notice(t, tk.status)),
              Push(Push(supportList[tk.owner], Desk!Notice(t, tk.status)),
                   Desk!Notice(t, tk.status))}
  PROVE  DeskInv'
<1>. DEFINE sight == [status |-> IF u = tk.owner THEN tk.status ELSE supportSeen[t].status,
                      told |-> supportNotifying, at |-> supportClock]
<1>1. supportSeen[t].status \in Desk!Statuses \cup {None} /\ supportClock \in Nat
      /\ supportNotifying \in BOOLEAN
  BY DEF DeskInv, DeskTypes, Sights
<1>2. supportTicket'[t] = tk
  BY DEF DeskInv, DeskTypes
<1>3. supportSeen' = [supportSeen EXCEPT ![t] = sight]
  BY <1>2 DEF Desk!Changed
<1>4. tk.status \in Desk!Statuses
  BY DEF TicketRows
<1>5. sight \in Sights
  BY <1>1, <1>4 DEF Sights
<1>6. /\ sight.at = supportClock
      /\ sight.told = supportNotifying
      /\ u = tk.owner => sight.status = tk.status
  OBVIOUS
<1>. HIDE DEF sight
<1>7. Operation(t, tk, sight)
  BY <1>3, <1>5, <1>6 DEF Operation
<1>8. \A x \in Tickets : Standing(x)'
  BY <1>7, OperationStands
<1>. QED BY <1>7, <1>8, OperationPast DEF DeskInv

LEMMA ChangeNotifies ==
  ASSUME DeskInv, NEW t \in Tickets, NEW u \in People, NEW tk \in TicketRows, NEW users,
         supportTicket[t] # None => supportTicket[t].owner = tk.owner,
         supportTicket' = [supportTicket EXCEPT ![t] = tk],
         supportClock' = supportClock + 1, supportNotifying' = supportNotifying,
         Desk!Changed(t, u, tk.status), Desk!Notify(users, t, tk.status),
         u = tk.owner \/ tk.owner \in users
  PROVE  DeskInv'
<1>. DEFINE n == Desk!Notice(t, tk.status)
<1>1. /\ supportList' = [v \in People |-> supportList'[v]]
      /\ \A v \in People : supportList'[v] \in {supportList[v], Push(supportList[v], n)}
      /\ \A v \in People \cap users : supportNotifying
         => supportList'[v] = Push(supportList[v], n)
  BY NotifyIs DEF DeskInv
<1>2. tk.owner \in People
  BY DEF TicketRows
<1>. HIDE DEF n
<1>3. \A v \in People : supportList'[v] \in {supportList[v], Push(supportList[v], n),
      Push(Push(supportList[v], n), n)}
  BY <1>1
<1>4. supportNotifying /\ u # tk.owner =>
        supportList'[tk.owner] \in {Push(supportList[tk.owner], n),
          Push(Push(supportList[tk.owner], n), n)}
  BY <1>1, <1>2
<1>. QED BY <1>1, <1>3, <1>4, ChangeOperates DEF n

LEMMA TimePasses ==
  ASSUME DeskInv, UNCHANGED <<supportTicket, supportList, supportSeen>>,
         supportClock' = supportClock + 1, supportNotifying' \in BOOLEAN
  PROVE  DeskInv'
<1>1. DeskTypes'
  BY DEF DeskInv, DeskTypes
<1>2. supportClock \in Nat /\ \A a \in Nat : (a <= supportClock => a <= supportClock')
      /\ (a < supportClock => a < supportClock')
  BY DEF DeskInv, DeskTypes
<1>3. \A t \in Tickets : supportSeen[t].at \in Nat
  BY DEF DeskInv, DeskTypes, Sights
<1>4. \A u \in People : \A i \in 1..Len(supportList[u]) : supportList[u][i].at \in Nat
  BY NoticesAt DEF DeskInv, DeskTypes
<1>5. DeskPast'
  BY <1>2, <1>3, <1>4 DEF DeskInv, DeskPast
<1>6. \A t \in Tickets : Standing(t)'
  BY DEF DeskInv, Standing
<1>. QED BY <1>1, <1>5, <1>6 DEF DeskInv

\* Nothing but the clock, the assignee or who is told of the assignment changes.
LEMMA QuietOperates ==
  ASSUME DeskInv, NEW t \in Tickets, NEW tk \in TicketRows, supportTicket[t] # None,
         supportTicket[t].owner = tk.owner, supportTicket[t].status = tk.status,
         supportTicket' = [supportTicket EXCEPT ![t] = tk],
         supportClock' = supportClock + 1, UNCHANGED <<supportSeen, supportNotifying>>,
         supportList' = [v \in People |-> supportList'[v]],
         \A v \in People :
           supportList'[v] \in {supportList[v], Push(supportList[v], Desk!Notice(t, tk.status)),
                               Push(Push(supportList[v], Desk!Notice(t, tk.status)),
                                    Desk!Notice(t, tk.status))}
  PROVE  DeskInv'
<1>1. supportSeen' = [supportSeen EXCEPT ![t] = supportSeen[t]] /\ supportSeen[t] \in Sights
  BY DEF DeskInv, DeskTypes
<1>2. Operation(t, tk, supportSeen[t])
  BY <1>1 DEF Operation
<1>3. \A x \in Tickets : Standing(x)'
  BY <1>2, OperationStands
<1>. QED BY <1>2, <1>3, OperationPast DEF DeskInv

LEMMA DeskKept ==
  ASSUME DeskInv, [Desk!Next]_(Desk!vars)
  PROVE  DeskInv'
<1>. DEFINE Keeps(t, tk) ==
       /\ tk \in TicketRows /\ supportTicket' = [supportTicket EXCEPT ![t] = tk]
       /\ supportClock' = supportClock + 1 /\ supportNotifying' = supportNotifying
<1>. USE DEF Desk!Tick
<1>0. Cap \in Nat /\ DeskTypes /\ Settable \subseteq Desk!Statuses
      /\ \A t \in Tickets : supportTicket[t] # None => supportTicket[t] \in TicketRows
  BY SupportFits DEF Desk!SupportAssumption, DeskInv, DeskTypes
<1>1. ASSUME NEW u \in People, NEW t \in Tickets, Desk!Create(u, t) PROVE DeskInv'
  <2>. DEFINE tk == [owner |-> u, status |-> "waiting_on_staff", closed |-> FALSE,
                     assignee |-> None]
  <2>1. Keeps(t, tk) /\ supportTicket[t] = None /\ Desk!Changed(t, u, tk.status) /\ tk.owner = u
    BY <1>1 DEF Desk!Create, Desk!Known, TicketRows, Desk!Statuses
  <2>2. Desk!Notify(Desk!Staff \ {u}, t, tk.status)
    BY <1>1 DEF Desk!Create, Desk!NotifyStaff
  <2>. HIDE DEF tk
  <2>. QED BY <2>1, <2>2, ChangeNotifies
<1>2. ASSUME NEW u \in People, NEW t \in Tickets, Desk!Reply(u, t) PROVE DeskInv'
  <2>. DEFINE status == IF u \in Desk!Staff THEN "waiting_on_user" ELSE "waiting_on_staff"
              tk == [supportTicket[t] EXCEPT !.status = status, !.closed = FALSE]
  <2>1. supportTicket[t] \in TicketRows /\ (u \in Desk!Staff \/ supportTicket[t].owner = u)
    BY <1>0, <1>2 DEF Desk!Reply, Desk!MayView, Desk!Known
  <2>2. status \in Desk!Statuses
    BY DEF Desk!Statuses
  <2>3. Desk!Changed(t, u, status) /\ supportClock' = supportClock + 1
        /\ supportNotifying' = supportNotifying
        /\ IF u \in Desk!Staff THEN Desk!Notify({supportTicket[t].owner} \ {u}, t, status)
                               ELSE Desk!Notify(Desk!Staff \ {u}, t, status)
    BY <1>2 DEF Desk!Reply, Desk!NotifyStaff, Desk!NotifyRequester
  <2>. HIDE DEF status
  <2>4. tk \in TicketRows /\ tk.status = status /\ tk.owner = supportTicket[t].owner
        /\ tk.owner \in People
    BY <2>1, <2>2 DEF TicketRows
  <2>5. supportTicket' = [supportTicket EXCEPT ![t] = tk]
    BY <1>2 DEF Desk!Reply, DeskInv, DeskTypes, status
  <2>. HIDE DEF tk
  <2>6. CASE u \in Desk!Staff
    BY <2>3, <2>4, <2>5, <2>6, ChangeNotifies
  <2>7. CASE u \notin Desk!Staff
    BY <2>1, <2>3, <2>4, <2>5, <2>7, ChangeNotifies
  <2>. QED BY <2>6, <2>7
<1>3. ASSUME NEW u \in People, NEW t \in Tickets, Desk!Note(u, t) PROVE DeskInv'
  <2>. DEFINE tk == [supportTicket[t] EXCEPT !.closed = FALSE]
  <2>1. supportTicket[t] \in TicketRows /\ supportTicket[t] # None
    BY <1>0, <1>3 DEF Desk!Note, Desk!MayView, Desk!Known
  <2>2. tk \in TicketRows /\ tk.status = supportTicket[t].status
        /\ tk.owner = supportTicket[t].owner
    BY <2>1 DEF TicketRows
  <2>3. supportTicket' = [supportTicket EXCEPT ![t] = tk]
    BY <1>3 DEF Desk!Note
  <2>4. supportClock' = supportClock + 1 /\ UNCHANGED <<supportSeen, supportNotifying,
                                                        supportList>>
    BY <1>3 DEF Desk!Note
  <2>5. supportList' = [v \in People |-> supportList'[v]]
    BY <1>0, <2>4 DEF DeskTypes
  <2>. HIDE DEF tk
  <2>. QED BY <2>1, <2>2, <2>3, <2>4, <2>5, QuietOperates
<1>4. ASSUME NEW u \in People, NEW t \in Tickets, Desk!Close(u, t) PROVE DeskInv'
  <2>. DEFINE tk == [supportTicket[t] EXCEPT !.status = "closed", !.closed = TRUE]
  <2>1. supportTicket[t] \in TicketRows
    BY <1>0, <1>4 DEF Desk!Close, Desk!MayView, Desk!Known
  <2>2. tk \in TicketRows /\ tk.status = "closed" /\ tk.owner = supportTicket[t].owner
        /\ tk.owner \in People
    BY <2>1 DEF TicketRows, Desk!Statuses
  <2>3. /\ supportTicket' = [supportTicket EXCEPT ![t] = tk]
        /\ Desk!Changed(t, u, "closed") /\ supportClock' = supportClock + 1
           /\ supportNotifying' = supportNotifying
        /\ Desk!Notify({supportTicket[t].owner} \ {u}, t, "closed")
    BY <1>4 DEF Desk!Close, Desk!NotifyRequester
  <2>. HIDE DEF tk
  <2>. QED BY <2>2, <2>3, ChangeNotifies
<1>5. ASSUME NEW u \in People, NEW t \in Tickets, Desk!Reopen(u, t) PROVE DeskInv'
  <2>. DEFINE tk == [supportTicket[t] EXCEPT !.status = "waiting_on_staff", !.closed = FALSE]
  <2>1. supportTicket[t] \in TicketRows /\ (u \in Desk!Staff \/ supportTicket[t].owner = u)
    BY <1>0, <1>5 DEF Desk!Reopen, Desk!MayView, Desk!Known
  <2>2. tk \in TicketRows /\ tk.status = "waiting_on_staff" /\ tk.owner = supportTicket[t].owner
        /\ tk.owner \in People
    BY <2>1 DEF TicketRows, Desk!Statuses
  <2>3. /\ supportTicket' = [supportTicket EXCEPT ![t] = tk]
        /\ Desk!Changed(t, u, "waiting_on_staff") /\ supportClock' = supportClock + 1
        /\ supportNotifying' = supportNotifying
        /\ IF u \in Desk!Staff THEN Desk!Notify({supportTicket[t].owner} \ {u}, t,
                                                "waiting_on_staff")
                               ELSE Desk!Notify(Desk!Staff \ {u}, t, "waiting_on_staff")
    BY <1>5 DEF Desk!Reopen, Desk!NotifyStaff, Desk!NotifyRequester
  <2>. HIDE DEF tk
  <2>4. CASE u \in Desk!Staff
    BY <2>2, <2>3, <2>4, ChangeNotifies
  <2>5. CASE u \notin Desk!Staff
    BY <2>1, <2>2, <2>3, <2>5, ChangeNotifies
  <2>. QED BY <2>4, <2>5
<1>6. ASSUME NEW u \in People, NEW t \in Tickets, NEW c \in Settable \cup {None},
             NEW a \in People \cup {None}, Desk!Update(u, t, c, a)
      PROVE  DeskInv'
  <2>. DEFINE before == supportTicket[t]
              s == Desk!Asked(t, c)
              tk == [before EXCEPT !.status = s, !.closed = s = "closed", !.assignee = a]
              n == Desk!Notice(t, s)
              news == IF s # before.status /\ supportNotifying THEN {before.owner} \ {u} ELSE {}
              work == {a} \ {None, before.assignee, u}
  <2>1. before \in TicketRows /\ before # None /\ s \in Desk!Statuses
    BY <1>0, <1>6 DEF Desk!Update, Desk!Known, Desk!Asked, TicketRows
  <2>. HIDE DEF s
  <2>2. tk \in TicketRows /\ tk.status = s /\ tk.owner = before.owner /\ tk.owner \in People
    BY <2>1 DEF TicketRows
  <2>3. /\ supportTicket' = [supportTicket EXCEPT ![t] = tk]
        /\ supportClock' = supportClock + 1 /\ supportNotifying' = supportNotifying
        /\ IF s # before.status \/ u = before.owner THEN Desk!Changed(t, u,
           s) ELSE UNCHANGED supportSeen
    BY <1>6 DEF Desk!Update, s
  <2>4. supportList' = [v \in People |->
          LET first == IF v \in news THEN Push(supportList[v], n) ELSE supportList[v]
          IN IF v \in work THEN Push(first, n) ELSE first]
    BY <1>6 DEF Desk!Update, Push, s
  <2>. HIDE DEF tk, n, news, work
  <2>5. /\ supportList' = [v \in People |-> supportList'[v]]
        /\ \A v \in People : supportList'[v] \in {supportList[v], Push(supportList[v], n),
           Push(Push(supportList[v], n), n)}
        /\ \A v \in People : v \in news => supportList'[v] \in {Push(supportList[v], n),
           Push(Push(supportList[v], n), n)}
    BY <2>4
  <2>6. CASE s # before.status \/ u = before.owner
    <3>1. supportNotifying /\ u # tk.owner => tk.owner \in news
      BY <2>2, <2>6 DEF news
    <3>. QED BY <2>1, <2>2, <2>3, <2>5, <2>6, <3>1, ChangeOperates DEF n
  <2>7. CASE ~(s # before.status \/ u = before.owner)
    BY <2>1, <2>2, <2>3, <2>5, <2>7, QuietOperates DEF n
  <2>. QED BY <2>6, <2>7
<1>7. ASSUME NEW u \in People, NEW t \in Tickets, NEW c \in Settable \cup {None},
             Desk!UpdateRefused(u, t, c)
      PROVE  DeskInv'
  <2>. DEFINE before == supportTicket[t]
              s == Desk!Asked(t, c)
              tk == [before EXCEPT !.status = s]
              sight == [supportSeen[t] EXCEPT !.told = FALSE, !.at = supportClock]
  <2>1. before \in TicketRows /\ before # None /\ s \in Desk!Statuses
    BY <1>0, <1>7 DEF Desk!UpdateRefused, Desk!Known, Desk!Asked, TicketRows
  <2>. HIDE DEF s
  <2>2. tk \in TicketRows /\ tk.status = s /\ tk.owner = before.owner
    BY <2>1 DEF TicketRows
  <2>3. supportSeen[t] \in Sights /\ supportClock \in Nat
    BY <1>0 DEF DeskTypes
  <2>4. sight \in Sights /\ sight.at = supportClock /\ ~sight.told
    BY <2>3 DEF Sights
  <2>5. /\ supportTicket' = [supportTicket EXCEPT ![t] = tk]
        /\ supportClock' = supportClock + 1 /\ UNCHANGED <<supportNotifying, supportList>>
        /\ s = before.status => UNCHANGED supportSeen
        /\ s # before.status => supportSeen' = [supportSeen EXCEPT ![t] = sight]
    BY <1>7 DEF Desk!UpdateRefused, s
  <2>6. supportList' = [v \in People |-> supportList'[v]]
    BY <1>0, <2>5 DEF DeskTypes
  <2>. HIDE DEF tk, sight
  <2>7. CASE s = before.status
    BY <2>1, <2>2, <2>5, <2>6, <2>7, QuietOperates
  <2>8. CASE s # before.status
    <3>1. Operation(t, tk, sight)
      BY <2>1, <2>2, <2>4, <2>5, <2>6, <2>8 DEF Operation
    <3>. QED BY <3>1, OperationPast, OperationStands DEF DeskInv
  <2>. QED BY <2>7, <2>8
<1>8. ASSUME NEW u \in People, NEW r, Desk!ChangeRole(u, r) PROVE DeskInv'
  <2>1. UNCHANGED <<supportTicket, supportList, supportSeen>> /\ supportClock' = supportClock + 1
        /\ supportNotifying' = supportNotifying /\ supportNotifying \in BOOLEAN
    BY <1>0, <1>8 DEF Desk!ChangeRole, DeskTypes
  <2>. QED BY <2>1, TimePasses
<1>9. ASSUME NEW b \in BOOLEAN, Desk!SetNotifying(b) PROVE DeskInv'
  <2>1. UNCHANGED <<supportTicket, supportList, supportSeen>> /\ supportClock' = supportClock + 1
        /\ supportNotifying' \in BOOLEAN
    BY <1>9 DEF Desk!SetNotifying
  <2>. QED BY <2>1, TimePasses
<1>10. ASSUME NEW u \in People, Desk!MarkOne(u) \/ Desk!MarkAllRead(u) PROVE DeskInv'
  BY <1>10, ReadStands DEF Desk!MarkOne, Desk!MarkAllRead
<1>11. CASE UNCHANGED Desk!vars
  BY <1>11 DEF Desk!vars, DeskInv, DeskTypes, DeskPast, Standing
<1>. QED BY <1>1, <1>2, <1>3, <1>4, <1>5, <1>6, <1>7, <1>8, <1>9, <1>10, <1>11 DEF Desk!Next

\* For any people, tickets and notifications kept: whoever asked for support can
\* tell how a ticket stands - it did the last thing or read of it, an unread
\* notice says so, or as many as are kept came after it - unless the ticket's
\* last change was not to be told: notifications were off, or update() refused
\* the assignee after it had written the status.
THEOREM StatusReachesRequesterAlways == PanelSpec => []StatusReachesRequester
<1>. DEFINE I == part = "support" => DeskInv
<1>1. PanelInit => I
  BY DeskInit DEF PanelInit
<1>2. I /\ [PanelNext]_panelVars => I'
  BY DeskKept, PartMoves
<1>3. I => StatusReachesRequester
  <2>. SUFFICES ASSUME DeskInv, NEW t \in Tickets, supportTicket[t] # None, supportSeen[t].told
       PROVE  LET mine == supportList[supportTicket[t].owner] IN
              \/ supportSeen[t].status = supportTicket[t].status
              \/ \E i \in DOMAIN mine : ~mine[i].read /\ mine[i].ticket = t
                 /\ mine[i].status = supportTicket[t].status
              \/ Len(mine) = Cap /\ \A i \in DOMAIN mine : mine[i].at >= supportSeen[t].at
                 /\ mine[i].ticket # t
    BY DEF StatusReachesRequester, Desk!StatusReachesRequester, Desk!Known
  <2>. DEFINE mine == supportList[supportTicket[t].owner]
  <2>1. mine \in Seq(Notices) /\ DOMAIN mine = 1..Len(mine) /\ Len(mine) \in Nat
    BY DEF DeskInv, DeskTypes, TicketRows
  <2>2. /\ Reached(mine, t, supportTicket[t], supportSeen[t])
        /\ Says(mine, t, supportSeen[t].at, supportTicket[t].status)
    BY DEF DeskInv, Standing
  <2>. HIDE DEF mine
  <2>3. Tells(mine, t, supportSeen[t].at) =>
          \E i \in 1..Len(mine) : ~mine[i].read /\ mine[i].ticket = t
            /\ mine[i].status = supportTicket[t].status
    <3>1. \A i \in 1..Len(mine) : i \in i..Len(mine)
      BY <2>1
    <3>. QED BY <2>2, <3>1 DEF Tells, Says
  <2>. QED BY <2>1, <2>2, <2>3 DEF Reached, Swept, mine
<1>. QED BY <1>1, <1>2, <1>3, PTL DEF PanelSpec

-----------------------------------------------------------------------------
(***************************************************************************)
(* Accounts: ChangesStand and OwnerRemains, for one process and any        *)
(* accounts, requests, saves that wait and failures.                       *)
(*                                                                         *)
(* The table will have of an account what the last save that waits lists   *)
(* (Future); that and the memory agree with the changes that were answered *)
(* (Current).  A request that lost its record works on an account that is   *)
(* gone, or was read again under it (Works).                                *)
(***************************************************************************)

OneProcess == \E r : Processes = {r}

Saves == [list : [Users -> Directory!Records \cup {None, Same}], waiter : Requests \cup {None}]
Calls ==
  [pc : Directory!Points, at : Processes \cup {None}, user : Users \cup {None},
   row : Directory!Records \cup {None}, held : BOOLEAN, number : Nat]
Under(q) == accountRequest[q].user

\* Whoever works on an account was let in under its id or found it in memory, and
\* has the row it read.
CallOK(c, used) ==
  /\ c \in Calls
  /\ c.pc # "idle" => c.at \in Processes
  /\ c.pc \notin {"idle", "saving"} => c.user \in Users
  /\ c.pc \notin {"idle", "saving", "resetting", "removing"} => c.user \in used
  /\ c.pc \in {"admitted", "registering", "resetting"} => c.row # None

AccountTypes ==
  /\ accountTable \in [Users -> Directory!Records \cup {None}]
  /\ accountMemory \in [Processes -> [Users -> Directory!Records \cup {None}]]
  /\ accountQueue \in [Processes -> Seq(Saves)]
  /\ accountWriting \in [Processes -> Directory!Replaces \cup {None}]
  /\ accountAnswered \in [Users -> Directory!Records \cup {None}]
  /\ accountRequest \in [Requests -> Calls]
  /\ accountExcused \subseteq Users /\ accountUsed \subseteq Users /\ accountChanges \in Nat
  /\ \A q \in Requests : CallOK(accountRequest[q], accountUsed)
  /\ \A u \in Users : accountAnswered[u] # None => u \in accountUsed

\* What the table will have of an account when every save that waits has landed.
Lands(e, r, u) == IF e.list[u] = Same THEN accountMemory[r][u] ELSE e.list[u]
Future(r, u) ==
  IF accountQueue[r] # <<>> THEN Lands(accountQueue[r][Len(accountQueue[r])], r, u)
  ELSE IF accountWriting[r] # None THEN accountWriting[r].rows[u] ELSE accountTable[u]

Agrees(x, a) == (x = None <=> a = None) /\ (a # None => x.hash = a.hash /\ x.role = a.role)
Current ==
  \A r \in Processes : \A u \in Users \ accountExcused :
    Agrees(accountMemory[r][u], accountAnswered[u]) /\ Agrees(Future(r, u), accountAnswered[u])

Hashing(q) == accountRequest[q].pc \in {"changing", "resetting"}
Joins(q) == accountRequest[q].pc = "registering"
Works ==
  \A q \in Requests :
    /\ accountRequest[q].held
       => Hashing(q) /\ accountMemory[accountRequest[q].at][Under(q)] # None
    /\ Hashing(q) /\ ~accountRequest[q].held
       => Under(q) \in accountExcused \/ accountAnswered[Under(q)] = None
    /\ Hashing(q) => Under(q) \in accountUsed \cup accountExcused
    /\ Joins(q) => accountAnswered[Under(q)] = None
    /\ \A o \in Requests \ {q} : Joins(q) /\ Under(o) = Under(q) =>
         ~Joins(o) /\ (Hashing(o) => Under(q) \in accountExcused)

Owned ==
  accountExcused = {} => \E u \in Users : accountAnswered[u] # None
    /\ accountAnswered[u].role = "owner"

AccountInv == AccountTypes /\ Current /\ Works /\ Owned

LEMMA IdleIsOK ==
  ASSUME NEW used
  PROVE  CallOK(Directory!NoRequest, used) /\ Directory!NoRequest.pc = "idle"
         /\ ~Directory!NoRequest.held
BY DEF Directory!NoRequest, CallOK, Calls, Directory!Points

LEMMA AccountInit ==
  ASSUME Directory!Init
  PROVE  AccountInv
<1>. USE AccountsFit DEF Directory!AccountsAssumption
<1>1. Directory!Owner \in Directory!Records
  BY DEF Directory!Owner, Directory!Records
<1>2. \A used : CallOK(Directory!NoRequest, used)
  BY IdleIsOK
<1>3. AccountTypes
  <2>1. \A q \in Requests : accountRequest[q] = Directory!NoRequest
    BY DEF Directory!Init
  <2>2. accountRequest \in [Requests -> Calls]
    BY <1>2 DEF Directory!Init, CallOK
  <2>3. accountTable \in [Users -> Directory!Records \cup {None}]
        /\ accountAnswered = accountTable
    BY <1>1 DEF Directory!Init
  <2>. HIDE DEF Directory!AccountsAssumption
  <2>4. accountUsed = {FirstUser} /\ FirstUser \in Users /\ accountExcused = {}
        /\ accountChanges = 0
    BY DEF Directory!Init, Directory!AccountsAssumption
  <2>5. accountQueue \in [Processes -> Seq(Saves)]
        /\ accountWriting \in [Processes -> Directory!Replaces \cup {None}]
    BY DEF Directory!Init
  <2>6. \A u \in Users : accountAnswered[u] # None => u \in accountUsed
    BY <2>4 DEF Directory!Init
  <2>7. accountMemory \in [Processes -> [Users -> Directory!Records \cup {None}]]
    BY <2>3 DEF Directory!Init
  <2>. QED BY <1>2, <2>1, <2>2, <2>3, <2>4, <2>5, <2>6, <2>7 DEF AccountTypes
<1>4. Current
  BY <1>1 DEF Directory!Init, Current, Agrees, Future
<1>5. Works
  BY DEF Directory!Init, Works, Hashing, Joins, Directory!NoRequest
<1>6. Owned
  <2>1. accountAnswered[FirstUser] # None /\ accountAnswered[FirstUser].role = "owner"
        /\ FirstUser \in Users
    BY <1>1 DEF Directory!Init, Directory!Owner
  <2>. QED BY <2>1 DEF Owned
<1>. QED BY <1>3, <1>4, <1>5, <1>6 DEF AccountInv

\* A save lists the records that memory has, so it lands as memory is.
LEMMA SaveLands ==
  ASSUME AccountTypes, NEW r \in Processes, NEW list \in [Users -> Directory!Records \cup {None}],
         NEW w \in Requests \cup {None}, Directory!Save(r, list, w),
         accountMemory' \in [Processes -> [Users -> Directory!Records \cup {None}]],
         \A u \in Users : list[u] = None <=> accountMemory'[r][u] = None
  PROVE  /\ accountQueue' \in [Processes -> Seq(Saves)]
         /\ \A u \in Users : Future(r, u)' = accountMemory'[r][u]
<1>. DEFINE e == [list |-> Directory!Listed(list), waiter |-> w]
<1>1. e \in Saves /\ \A u \in Users : e.list[u] = IF list[u] = None THEN None ELSE Same
  BY DEF Saves, Directory!Listed
<1>2. accountQueue' = [accountQueue EXCEPT ![r] = Append(accountQueue[r], e)]
  BY DEF Directory!Save
<1>3. accountQueue[r] \in Seq(Saves)
  BY DEF AccountTypes
<1>. HIDE DEF e
<1>4. /\ accountQueue'[r] \in Seq(Saves) /\ accountQueue'[r] # <<>>
      /\ accountQueue'[r][Len(accountQueue'[r])] = e
  <2>. DEFINE s == accountQueue[r]
  <2>1. accountQueue'[r] = Append(s, e)
    BY <1>2 DEF AccountTypes
  <2>. HIDE DEF s
  <2>2. s \in Seq(Saves) /\ e \in Saves
    BY <1>1, <1>3 DEF s
  <2>3. /\ Append(s, e) \in Seq(Saves) /\ Len(Append(s, e)) = Len(s) + 1 /\ Len(s) \in Nat
        /\ Append(s, e)[Len(s) + 1] = e
    BY <2>2
  <2>4. Append(s, e) # <<>>
    BY <2>3
  <2>. QED BY <2>1, <2>3, <2>4
<1>5. ASSUME NEW u \in Users PROVE Future(r, u)' = accountMemory'[r][u]
  <2>1. Future(r, u)' = IF e.list[u] = Same THEN accountMemory'[r][u] ELSE e.list[u]
    BY <1>4 DEF Future, Lands
  <2>. QED BY <1>1, <2>1, AccountsFit DEF Directory!AccountsAssumption
<1>. QED BY <1>1, <1>2, <1>4, <1>5 DEF AccountTypes

\* The saves that list a record keep it when it leaves memory.
LEMMA KeptIs ==
  ASSUME AccountTypes, NEW r \in Processes, NEW u \in Users
  PROVE  LET k == Directory!Kept(r, u) IN
         /\ k \in Seq(Saves) /\ Len(k) = Len(accountQueue[r])
         /\ \A i \in 1..Len(k) :
              /\ \A v \in Users \ {u} : k[i].list[v] = accountQueue[r][i].list[v]
              /\ k[i].list[u] = Lands(accountQueue[r][i], r, u)
<1>. DEFINE s == accountQueue[r]
            new(i) == IF s[i].list[u] = Same THEN accountMemory[r][u] ELSE s[i].list[u]
            k == [i \in 1..Len(s) |-> [s[i] EXCEPT !.list = [s[i].list EXCEPT ![u] = new(i)]]]
<1>1. s \in Seq(Saves) /\ Len(s) \in Nat /\ DOMAIN s = 1..Len(s)
      /\ \A i \in 1..Len(s) : s[i] \in Saves
  BY DEF AccountTypes
<1>2. ASSUME NEW i \in 1..Len(s)
      PROVE  [s[i] EXCEPT !.list[u] = IF @ = Same THEN accountMemory[r][u] ELSE @]
               = [s[i] EXCEPT !.list = [s[i].list EXCEPT ![u] = new(i)]]
  BY <1>1 DEF Saves
<1>3. Directory!Kept(r, u) = k
  BY <1>1, <1>2 DEF Directory!Kept
<1>4. ASSUME NEW i \in 1..Len(s)
      PROVE  /\ k[i] \in Saves /\ \A v \in Users \ {u} : k[i].list[v] = s[i].list[v]
             /\ k[i].list[u] = new(i)
  <2>1. s[i].list \in [Users -> Directory!Records \cup {None, Same}]
        /\ s[i].waiter \in Requests \cup {None}
    BY <1>1 DEF Saves
  <2>2. accountMemory[r][u] \in Directory!Records \cup {None}
    BY DEF AccountTypes
  <2>3. [s[i].list EXCEPT ![u] = new(i)] \in [Users -> Directory!Records \cup {None, Same}]
    BY <2>1, <2>2
  <2>. QED BY <1>1, <2>1, <2>3 DEF Saves
<1>5. k \in Seq(Saves) /\ Len(k) = Len(s)
  <2>1. k \in [1..Len(s) -> Saves]
    BY <1>4
  <2>. HIDE DEF k
  <2>. QED BY <1>1, <2>1
<1>6. \A i \in 1..Len(s) : /\ \A v \in Users \ {u} : k[i].list[v] = accountQueue[r][i].list[v]
                           /\ k[i].list[u] = Lands(accountQueue[r][i], r, u)
  BY <1>4 DEF Lands
<1>. HIDE DEF k
<1>. QED BY <1>3, <1>5, <1>6

\* users.set(id, fresh): what memory has and what the table will have stay as
\* they are, for every account that is not overtaken.
LEMMA AdoptKeeps ==
  ASSUME AccountTypes, OneProcess, NEW r \in Processes, NEW u \in Users,
         NEW x \in Directory!Records \cup {None},
         NEW calls, Directory!Adopt(r, u, x, calls), UNCHANGED <<accountTable, accountWriting>>
  PROVE  /\ accountMemory' \in [Processes -> [Users -> Directory!Records \cup {None}]]
         /\ accountQueue' \in [Processes -> Seq(Saves)]
         /\ accountExcused' \subseteq Users /\ accountExcused \subseteq accountExcused'
         /\ \A v \in Users \ accountExcused' :
              accountMemory'[r][v] = accountMemory[r][v] /\ Future(r, v)' = Future(r, v)
<1>1. /\ accountMemory' = [accountMemory EXCEPT ![r] = [accountMemory[r] EXCEPT ![u] = x]]
      /\ accountQueue' = [accountQueue EXCEPT ![r] = Directory!Kept(r, u)]
      /\ accountExcused \subseteq accountExcused'
         /\ accountExcused' \subseteq accountExcused \cup {u}
      /\ u \notin accountExcused' => accountMemory[r][u] = x
  BY DEF Directory!Adopt, Directory!Overtakes
<1>2. /\ accountMemory' \in [Processes -> [Users -> Directory!Records \cup {None}]]
      /\ accountMemory'[r][u] = x /\ \A v \in Users \ {u} : accountMemory'[r][v]
         = accountMemory[r][v]
  BY <1>1 DEF AccountTypes
<1>. DEFINE k == Directory!Kept(r, u)
<1>3. /\ k \in Seq(Saves) /\ Len(k) = Len(accountQueue[r]) /\ Len(k) \in Nat
      /\ \A i \in 1..Len(k) : /\ \A v \in Users \ {u} : k[i].list[v] = accountQueue[r][i].list[v]
                              /\ k[i].list[u] = Lands(accountQueue[r][i], r, u)
  BY KeptIs
<1>. HIDE DEF k
<1>4. accountQueue' \in [Processes -> Seq(Saves)] /\ accountQueue'[r] = k
      /\ accountQueue[r] \in Seq(Saves)
  BY <1>1, <1>3 DEF AccountTypes, k
<1>5. ASSUME NEW v \in Users \ accountExcused' PROVE Future(r, v)' = Future(r, v)
  <2>1. CASE k = <<>>
    <3>1. accountQueue[r] = <<>>
      BY <1>3, <1>4, <2>1
    <3>. QED BY <1>4, <2>1, <3>1 DEF Future
  <2>2. CASE k # <<>>
    <3>. DEFINE n == Len(k)
    <3>1. accountQueue[r] # <<>> /\ n \in 1..Len(k)
      BY <1>3, <1>4, <2>2
    <3>2. (IF k[n].list[v] = Same THEN accountMemory'[r][v] ELSE k[n].list[v])
          = Lands(accountQueue[r][n], r, v)
      <4>1. CASE v # u
        BY <1>2, <1>3, <3>1, <4>1 DEF Lands
      <4>2. CASE v = u
        <5>1. accountMemory'[r][u] = accountMemory[r][u]
          BY <1>1, <1>2, <1>5, <4>2
        <5>. QED BY <1>3, <3>1, <4>2, <5>1 DEF Lands
      <4>. QED BY <4>1, <4>2
    <3>. QED BY <1>3, <1>4, <2>2, <3>1, <3>2 DEF Future, Lands
  <2>. QED BY <2>1, <2>2
<1>. QED BY <1>1, <1>2, <1>4, <1>5 DEF AccountTypes

\* Requests that move one at a time.
LEMMA CallMoves ==
  ASSUME AccountTypes, NEW q \in Requests, NEW c, accountUsed \subseteq accountUsed',
         CallOK(c, accountUsed'), accountRequest' = [accountRequest EXCEPT ![q] = c]
  PROVE  /\ accountRequest' \in [Requests -> Calls]
         /\ \A p \in Requests : CallOK(accountRequest'[p], accountUsed')
<1>1. \A p \in Requests : CallOK(accountRequest[p], accountUsed')
  BY DEF AccountTypes, CallOK
<1>2. c \in Calls
  BY DEF CallOK
<1>. QED BY <1>1, <1>2 DEF AccountTypes

\* A change of one account, in memory and as it was answered, and its save.
Changed(r, u, n, a) ==
  /\ accountMemory' \in [Processes -> [Users -> Directory!Records \cup {None}]]
  /\ accountMemory'[r][u] = n /\ \A v \in Users \ {u} : accountMemory'[r][v] = accountMemory[r][v]
  /\ accountAnswered' \in [Users -> Directory!Records \cup {None}]
  /\ accountAnswered'[u] = a /\ \A v \in Users \ {u} : accountAnswered'[v] = accountAnswered[v]
  /\ accountQueue' \in [Processes -> Seq(Saves)]
  /\ \A v \in Users : Future(r, v)' = accountMemory'[r][v]
  /\ UNCHANGED <<accountTable, accountWriting, accountExcused, accountUsed>>

LEMMA RecordChanges ==
  ASSUME AccountTypes, NEW r \in Processes, NEW u \in Users,
         NEW n \in Directory!Records \cup {None}, NEW a \in Directory!Records \cup {None},
         accountMemory' = [accountMemory EXCEPT ![r] = [accountMemory[r] EXCEPT ![u] = n]],
         accountAnswered' = [accountAnswered EXCEPT ![u] = a],
         NEW list, list = accountMemory'[r] \/ (list = accountMemory[r]
                                                /\ (n = None <=> list[u] = None)),
         NEW w \in Requests \cup {None}, Directory!Save(r, list, w),
         UNCHANGED <<accountTable, accountWriting, accountExcused, accountUsed>>
  PROVE  Changed(r, u, n, a)
<1>1. /\ accountMemory' \in [Processes -> [Users -> Directory!Records \cup {None}]]
      /\ accountMemory'[r][u] = n /\ \A v \in Users \ {u} : accountMemory'[r][v]
         = accountMemory[r][v]
      /\ accountMemory \in [Processes -> [Users -> Directory!Records \cup {None}]]
  BY DEF AccountTypes
<1>2. /\ accountAnswered' \in [Users -> Directory!Records \cup {None}]
      /\ accountAnswered'[u] = a /\ \A v \in Users \ {u} : accountAnswered'[v]
         = accountAnswered[v]
  BY DEF AccountTypes
<1>3. list \in [Users -> Directory!Records \cup {None}]
      /\ \A v \in Users : list[v] = None <=> accountMemory'[r][v] = None
  BY <1>1
<1>4. accountQueue' \in [Processes -> Seq(Saves)] /\ \A v \in Users : Future(r,
      v)' = accountMemory'[r][v]
  BY <1>1, <1>3, SaveLands
<1>. QED BY <1>1, <1>2, <1>4 DEF Changed

LEMMA ChangedTypes ==
  ASSUME AccountTypes, NEW r \in Processes, NEW u \in Users, NEW n, NEW a, Changed(r, u, n, a),
         a # None => u \in accountUsed, accountChanges' \in Nat,
         accountRequest' \in [Requests -> Calls], \A p \in Requests : CallOK(accountRequest'[p],
           accountUsed)
  PROVE  AccountTypes'
<1>1. \A v \in Users : accountAnswered'[v] # None => v \in accountUsed'
  BY DEF Changed, AccountTypes
<1>. QED BY <1>1 DEF Changed, AccountTypes

LEMMA ChangedCurrent ==
  ASSUME AccountTypes, OneProcess, Current, NEW r \in Processes, NEW u \in Users, NEW n, NEW a,
         Changed(r, u, n, a),
         u \in accountExcused \/ Agrees(n, a)
  PROVE  Current'
<1>1. ASSUME NEW v \in Users \ accountExcused
      PROVE  Agrees(accountMemory'[r][v], accountAnswered'[v])
  BY DEF Changed, Current
<1>2. ASSUME NEW s \in Processes, NEW v \in Users \ accountExcused'
      PROVE  Agrees(accountMemory'[s][v], accountAnswered'[v]) /\ Agrees(Future(s, v)',
             accountAnswered'[v])
  <2>1. s = r /\ v \in Users \ accountExcused
    BY DEF OneProcess, Changed
  <2>2. Future(r, v)' = accountMemory'[r][v]
    BY DEF Changed
  <2>. QED BY <1>1, <2>1, <2>2
<1>. QED BY <1>2 DEF Current, Agrees

\* The account changes or stays, and who changed it has done its work.
LEMMA ChangedWorks ==
  ASSUME AccountInv, OneProcess, NEW r \in Processes, NEW u \in Users, NEW n, NEW a, Changed(r,
         u, n, a),
         n = None => accountMemory[r][u] = None, a = None <=> accountAnswered[u] = None,
         NEW q \in Requests, NEW c \in Calls, c.pc \notin {"changing", "resetting",
           "registering"}, ~c.held,
         accountRequest' = [accountRequest EXCEPT ![q] = c]
  PROVE  Works'
<1>1. accountRequest'[q] = c /\ \A p \in Requests \ {q} : accountRequest'[p] = accountRequest[p]
  BY DEF AccountInv, AccountTypes
<1>2. \A v \in Users : accountAnswered'[v] = None <=> accountAnswered[v] = None
  BY DEF Changed
<1>3. \A v \in Users : accountMemory'[r][v] = None => accountMemory[r][v] = None
  BY DEF Changed
<1>4. ASSUME NEW p \in Requests, p # q, accountRequest[p].held
      PROVE  accountMemory'[accountRequest[p].at][Under(p)] # None
  <2>1. accountRequest[p].at \in Processes /\ Under(p) \in Users
        /\ accountMemory[accountRequest[p].at][Under(p)] # None
    BY <1>4 DEF AccountInv, AccountTypes, CallOK, Works, Hashing, Under
  <2>. QED BY <1>3, <2>1 DEF OneProcess
<1>5. \A p \in Requests : Hashing(p) \/ Joins(p) => Under(p) \in Users
  BY DEF AccountInv, AccountTypes, CallOK, Hashing, Joins, Under
<1>. QED BY <1>1, <1>2, <1>4, <1>5 DEF AccountInv, Works, Hashing, Joins, Under, Changed

LEMMA ChangedOwned ==
  ASSUME AccountTypes, Owned, NEW r \in Processes, NEW u \in Users, NEW n, NEW a, Changed(r, u,
         n, a),
         \/ a # None /\ a.role = "owner"
         \/ accountAnswered[u] = None \/ (accountAnswered[u].role # "owner")
         \/ accountExcused # {}
         \/ \E v \in Users \ {u} : accountAnswered[v] # None /\ accountAnswered[v].role = "owner"
  PROVE  Owned'
<1>. SUFFICES ASSUME accountExcused = {}
     PROVE  \E v \in Users : accountAnswered'[v] # None /\ accountAnswered'[v].role = "owner"
  BY DEF Changed, Owned
<1>1. PICK v \in Users : accountAnswered[v] # None /\ accountAnswered[v].role = "owner"
  BY DEF Owned
<1>. QED BY <1>1 DEF Changed

\* What each change leaves, and that memory and answer agree on it.
WithRole(m, role, ver) == [m EXCEPT !.role = role, !.ver = ver]
LEMMA RoleIs ==
  ASSUME NEW m \in Directory!Records, NEW role \in {"owner", "user"}, NEW ver \in Nat
  PROVE  LET n == WithRole(m, role, ver) IN n \in Directory!Records /\ n.role = role
         /\ n.hash = m.hash
<1>1. /\ [m EXCEPT !.role = role, !.ver = ver] \in Directory!Records
      /\ [m EXCEPT !.role = role, !.ver = ver].role = role
      /\ [m EXCEPT !.role = role, !.ver = ver].hash = m.hash
  BY DEF Directory!Records
<1>. QED BY <1>1 DEF WithRole

LEMMA HashIs ==
  ASSUME NEW m \in Directory!Records, NEW hash \in Nat, NEW n, n = [m EXCEPT !.hash = hash]
  PROVE  n \in Directory!Records /\ n.role = m.role /\ n.hash = hash
BY DEF Directory!Records

WithHash(m, hash, ver) == [m EXCEPT !.hash = hash, !.ver = ver]
LEMMA ResetIs ==
  ASSUME NEW m \in Directory!Records, NEW hash \in Nat, NEW ver \in Nat
  PROVE  LET n == WithHash(m, hash, ver) IN n \in Directory!Records /\ n.role = m.role
         /\ n.hash = hash
<1>1. /\ [m EXCEPT !.hash = hash, !.ver = ver] \in Directory!Records
      /\ [m EXCEPT !.hash = hash, !.ver = ver].role = m.role
      /\ [m EXCEPT !.hash = hash, !.ver = ver].hash = hash
  BY DEF Directory!Records
<1>. QED BY <1>1 DEF WithHash

LEMMA SetRoleIs ==
  ASSUME AccountInv, OneProcess, NEW q \in Requests, NEW u \in Users, NEW role \in {"owner",
         "user"},
         Directory!SetRole(q, u, role)
  PROVE  \E r \in Processes, n, a \in Directory!Records \cup {None} :
           /\ Changed(r, u, n, a) /\ n # None /\ (a = None <=> accountAnswered[u] = None)
           /\ u \in accountExcused \/ Agrees(n, a)
           /\ a # None => a.role = role
           /\ role = "user" => Directory!Owners(r) # {u}
<1>. USE AccountsFit DEF Directory!AccountsAssumption
<1>1. PICK r \in Processes, m \in Directory!Records, b \in Directory!Records \cup {None} :
        /\ r = accountRequest[q].at /\ m = accountMemory[r][u] /\ b = accountAnswered[u]
        /\ u \in accountExcused \/ Agrees(m, b)
  <2>1. accountRequest[q].at \in Processes
    BY DEF Directory!SetRole, Directory!At, AccountInv, AccountTypes, CallOK
  <2>2. accountMemory[accountRequest[q].at][u] \in Directory!Records
    BY <2>1 DEF Directory!SetRole, Directory!Known, AccountInv, AccountTypes
  <2>. QED BY <2>1, <2>2 DEF AccountInv, AccountTypes, Current
<1>2. PICK ver \in Nat : ver = m.ver + 1
  BY DEF Directory!Records
<1>3. PICK n : n = WithRole(m, role, ver)
  OBVIOUS
<1>4. n \in Directory!Records /\ n.role = role /\ n.hash = m.hash /\ n # None
  BY <1>3, RoleIs
<1>5. PICK a : a = IF b = None THEN None ELSE WithRole(b, role, ver)
  OBVIOUS
<1>6. /\ a \in Directory!Records \cup {None} /\ (a = None <=> b = None)
      /\ a # None => a.role = role /\ a.hash = b.hash
  BY <1>5, RoleIs
<1>7. /\ accountMemory' = [accountMemory EXCEPT ![r] = [accountMemory[r] EXCEPT ![u] = n]]
      /\ accountAnswered' = [accountAnswered EXCEPT ![u] = a]
      /\ Directory!Save(r, accountMemory[r], None)
      /\ UNCHANGED <<accountTable, accountWriting, accountExcused, accountUsed>>
      /\ role = "user" => Directory!Owners(r) # {u}
  BY <1>1, <1>2, <1>3, <1>5 DEF Directory!SetRole, WithRole
<1>8. Changed(r, u, n, a)
  BY <1>1, <1>4, <1>6, <1>7, RecordChanges DEF AccountInv
<1>9. u \in accountExcused \/ Agrees(n, a)
  BY <1>1, <1>4, <1>6 DEF Agrees
<1>. QED BY <1>1, <1>4, <1>6, <1>7, <1>8, <1>9

LEMMA PasswordIs ==
  ASSUME AccountInv, OneProcess, NEW q \in Requests, Directory!ChangePassword(q)
         \/ Directory!ResetPassword(q)
  PROVE  \E r \in Processes, u \in Users, n, a \in Directory!Records \cup {None} :
           /\ r = accountRequest[q].at /\ u = Under(q)
           /\ Changed(r, u, n, a) /\ (n = None => accountMemory[r][u] = None)
              /\ (a = None <=> accountAnswered[u] = None)
           /\ u \in accountExcused \/ Agrees(n, a)
           /\ a # None => a.role = accountAnswered[u].role
<1>. USE AccountsFit DEF Directory!AccountsAssumption
<1>1. PICK r \in Processes, u \in Users, m, b \in Directory!Records \cup {None}, k \in Nat,
           held \in BOOLEAN :
        /\ r = accountRequest[q].at /\ m = accountMemory[r][u] /\ b = accountAnswered[u]
        /\ u = Under(q) /\ k = accountRequest[q].number /\ held = accountRequest[q].held
        /\ held => m # None
        /\ u \in accountExcused \/ (Agrees(m, b) /\ (~held => b = None))
  <2>1. /\ accountRequest[q].at \in Processes /\ Under(q) \in Users
        /\ accountRequest[q].number \in Nat /\ accountRequest[q].held \in BOOLEAN /\ Hashing(q)
    BY DEF Directory!ChangePassword, Directory!ResetPassword, Directory!At, AccountInv,
       AccountTypes, CallOK,
           Hashing, Under, Calls
  <2>2. /\ accountMemory[accountRequest[q].at][Under(q)] \in Directory!Records \cup {None}
        /\ accountAnswered[Under(q)] \in Directory!Records \cup {None}
    BY <2>1 DEF AccountInv, AccountTypes
  <2>3. /\ accountRequest[q].held => accountMemory[accountRequest[q].at][Under(q)] # None
        /\ ~accountRequest[q].held => Under(q) \in accountExcused
           \/ accountAnswered[Under(q)] = None
    BY <2>1 DEF AccountInv, Works
  <2>4. Under(q) \in accountExcused \/ Agrees(accountMemory[accountRequest[q].at][Under(q)],
                                              accountAnswered[Under(q)])
    BY <2>1 DEF AccountInv, Current
  <2>. QED BY <2>1, <2>2, <2>3, <2>4
<1>2. PICK n, a \in Directory!Records \cup {None}, w \in Requests \cup {None} :
        /\ (n = None <=> m = None) /\ (a = None <=> b = None) /\ (~held => n = m)
        /\ held => n.role = m.role /\ n.hash = k
        /\ b # None => a.role = b.role /\ a.hash = k
        /\ accountMemory' = [accountMemory EXCEPT ![r] = [accountMemory[r] EXCEPT ![u] = n]]
        /\ accountAnswered' = [accountAnswered EXCEPT ![u] = a]
        /\ Directory!Save(r, accountMemory'[r], w)
        /\ UNCHANGED <<accountTable, accountWriting, accountExcused, accountUsed>>
  <2>1. CASE Directory!ChangePassword(q)
    <3>1. PICK n : n = IF held THEN [m EXCEPT !.hash = k] ELSE m
      OBVIOUS
    <3>2. n \in Directory!Records \cup {None} /\ (n = None <=> m = None)
          /\ (held => n.role = m.role /\ n.hash = k)
      BY <1>1, <3>1, HashIs
    <3>3. PICK a : a = IF b = None THEN None ELSE [b EXCEPT !.hash = k]
      OBVIOUS
    <3>4. a \in Directory!Records \cup {None} /\ (a = None <=> b = None)
          /\ (b # None => a.role = b.role /\ a.hash = k)
      BY <1>1, <3>3, HashIs
    <3>5. /\ accountMemory' = [accountMemory EXCEPT ![r] = [accountMemory[r] EXCEPT ![u] = n]]
          /\ accountAnswered' = [accountAnswered EXCEPT ![u] = a]
          /\ Directory!Save(r, accountMemory'[r], None)
          /\ UNCHANGED <<accountTable, accountWriting, accountExcused, accountUsed>>
      BY <1>1, <2>1, <3>1, <3>3 DEF Directory!ChangePassword, Under
    <3>. QED BY <3>1, <3>2, <3>4, <3>5
  <2>2. CASE Directory!ResetPassword(q)
    <3>1. PICK ver \in Nat : ver = (IF held THEN m.ver ELSE accountRequest[q].row.ver) + 1
      <4>1. accountRequest[q].row \in Directory!Records
        BY <2>2 DEF Directory!ResetPassword, Directory!At, AccountInv, AccountTypes, CallOK, Calls
      <4>. QED BY <1>1, <4>1 DEF Directory!Records
    <3>2. PICK n : n = IF held THEN WithHash(m, k, ver) ELSE m
      OBVIOUS
    <3>3. n \in Directory!Records \cup {None} /\ (n = None <=> m = None)
          /\ (held => n.role = m.role /\ n.hash = k)
      <4>1. CASE ~held
        BY <3>2, <4>1
      <4>2. CASE held
        <5>1. n = WithHash(m, k, ver) /\ m \in Directory!Records
          BY <1>1, <3>2, <4>2
        <5>. QED BY <5>1, ResetIs
      <4>. QED BY <4>1, <4>2
    <3>4. PICK a : a = IF b = None THEN None ELSE WithHash(b, k, ver)
      OBVIOUS
    <3>5. a \in Directory!Records \cup {None} /\ (a = None <=> b = None)
          /\ (b # None => a.role = b.role /\ a.hash = k)
      <4>1. CASE b = None
        BY <3>4, <4>1
      <4>2. CASE b # None
        <5>1. a = WithHash(b, k, ver) /\ b \in Directory!Records
          BY <3>4, <4>2
        <5>. QED BY <4>2, <5>1, ResetIs
      <4>. QED BY <4>1, <4>2
    <3>6. /\ accountMemory' = [accountMemory EXCEPT ![r] = [accountMemory[r] EXCEPT ![u] = n]]
          /\ accountAnswered' = [accountAnswered EXCEPT ![u] = a]
          /\ Directory!Save(r, accountMemory'[r], q)
          /\ UNCHANGED <<accountTable, accountWriting, accountExcused, accountUsed>>
      BY <1>1, <2>2, <3>1, <3>2, <3>4 DEF Directory!ResetPassword, Under, WithHash
    <3>. QED BY <3>2, <3>3, <3>5, <3>6
  <2>. QED BY <2>1, <2>2
<1>3. Changed(r, u, n, a)
  BY <1>1, <1>2, RecordChanges DEF AccountInv
<1>4. u \in accountExcused \/ Agrees(n, a)
  BY <1>1, <1>2 DEF Agrees
<1>. QED BY <1>1, <1>2, <1>3, <1>4

LEMMA RegisterIs ==
  ASSUME AccountInv, OneProcess, NEW q \in Requests, Directory!Register(q)
  PROVE  \E r \in Processes, u \in accountUsed, a \in Directory!Records :
           /\ r = accountRequest[q].at /\ u = Under(q) /\ u \in Users /\ accountAnswered[u] = None
           /\ a # None /\ Changed(r, u, a, a)
<1>. USE AccountsFit DEF Directory!AccountsAssumption
<1>1. PICK r \in Processes, u \in accountUsed, a \in Directory!Records :
        /\ r = accountRequest[q].at /\ u = Under(q) /\ u \in Users /\ a = accountRequest[q].row
        /\ a # None /\ accountAnswered[u] = None
  <2>1. accountRequest[q].pc = "registering" /\ CallOK(accountRequest[q], accountUsed)
    BY DEF Directory!Register, Directory!At, AccountInv, AccountTypes
  <2>2. /\ accountRequest[q].at \in Processes /\ Under(q) \in accountUsed /\ Under(q) \in Users
        /\ accountRequest[q].row \in Directory!Records
    BY <2>1 DEF CallOK, Calls, Under
  <2>3. accountAnswered[Under(q)] = None
    BY <2>1 DEF AccountInv, Works, Joins
  <2>. QED BY <2>2, <2>3
<1>2. /\ accountMemory' = [accountMemory EXCEPT ![r] = [accountMemory[r] EXCEPT ![u] = a]]
      /\ accountAnswered' = [accountAnswered EXCEPT ![u] = a]
      /\ Directory!Save(r, accountMemory'[r], None)
      /\ UNCHANGED <<accountTable, accountWriting, accountExcused, accountUsed>>
  BY <1>1 DEF Directory!Register, Under
<1>3. Changed(r, u, a, a)
  BY <1>1, <1>2, RecordChanges DEF AccountInv
<1>. QED BY <1>1, <1>3

\* remove(): the saves that wait keep the record, and a new one leaves it out.
LEMMA RemoveIs ==
  ASSUME AccountInv, OneProcess, NEW q \in Requests, Directory!Remove(q),
         Under(q) \in Directory!Known(accountRequest[q].at),
           Directory!Owners(accountRequest[q].at) # {Under(q)}
  PROVE  \E r \in Processes, u \in Users :
           /\ r = accountRequest[q].at /\ u = Under(q) /\ Changed(r, u, None, None)
              /\ Directory!Owners(r) # {u}
           /\ accountRequest'
              = Directory!Dropped([accountRequest EXCEPT ![q] = Directory!NoRequest], r, u)
<1>. USE AccountsFit DEF Directory!AccountsAssumption
<1>1. PICK r \in Processes, u \in Users : r = accountRequest[q].at /\ u = Under(q)
  BY DEF Directory!Remove, Directory!At, AccountInv, AccountTypes, CallOK, Under
<1>. DEFINE k == Directory!Kept(r, u)
            e == [list |-> Directory!Listed(accountMemory'[r]), waiter |-> None]
<1>2. /\ accountMemory' = [accountMemory EXCEPT ![r] = [accountMemory[r] EXCEPT ![u] = None]]
      /\ accountAnswered' = [accountAnswered EXCEPT ![u] = None]
      /\ accountQueue' = [accountQueue EXCEPT ![r] = Append(k, e)]
      /\ UNCHANGED <<accountTable, accountWriting, accountExcused, accountUsed>>
      /\ accountRequest' = Directory!Dropped([accountRequest EXCEPT ![q] = Directory!NoRequest],
                                             r, u)
  BY <1>1 DEF Directory!Remove, Under
<1>3. /\ accountMemory' \in [Processes -> [Users -> Directory!Records \cup {None}]]
      /\ accountMemory'[r][u] = None /\ \A v \in Users \ {u} : accountMemory'[r][v]
         = accountMemory[r][v]
      /\ accountAnswered' \in [Users -> Directory!Records \cup {None}]
      /\ accountAnswered'[u] = None /\ \A v \in Users \ {u} : accountAnswered'[v]
         = accountAnswered[v]
  BY <1>2 DEF AccountInv, AccountTypes
<1>4. e \in Saves /\ \A v \in Users : e.list[v] = IF accountMemory'[r][v]
      = None THEN None ELSE Same
  BY DEF Saves, Directory!Listed
<1>5. k \in Seq(Saves)
  BY KeptIs DEF AccountInv
<1>. HIDE DEF k, e
<1>6. /\ Append(k, e) \in Seq(Saves) /\ Append(k, e) # <<>> /\ Append(k, e)[Len(Append(k, e))] = e
  <2>1. /\ Append(k, e) \in Seq(Saves) /\ Len(Append(k, e)) = Len(k) + 1 /\ Len(k) \in Nat
           /\ Append(k, e)[Len(k) + 1] = e
    BY <1>4, <1>5
  <2>2. Append(k, e) # <<>>
    BY <2>1
  <2>. QED BY <2>1, <2>2
<1>7. /\ accountQueue' \in [Processes -> Seq(Saves)] /\ accountQueue'[r] # <<>>
      /\ accountQueue'[r][Len(accountQueue'[r])] = e
  BY <1>2, <1>6 DEF AccountInv, AccountTypes
<1>8. ASSUME NEW v \in Users PROVE Future(r, v)' = accountMemory'[r][v]
  <2>1. Future(r, v)' = IF e.list[v] = Same THEN accountMemory'[r][v] ELSE e.list[v]
    BY <1>7 DEF Future, Lands
  <2>. QED BY <1>4, <2>1
<1>9. Changed(r, u, None, None)
  BY <1>2, <1>3, <1>7, <1>8 DEF Changed
<1>. QED BY <1>1, <1>2, <1>9

\* A request goes on with another record, looks a record up, or loses it.
Stands(c, pc, x) == [c EXCEPT !.pc = pc, !.row = x]
Holds(c, n) == [c EXCEPT !.pc = "changing", !.row = None, !.held = TRUE, !.number = n]
LEMMA StandsOK ==
  ASSUME NEW c \in Calls, NEW pc \in Directory!Points, NEW x \in Directory!Records \cup {None}
  PROVE  LET d == Stands(c, pc, x) IN
         d \in Calls /\ d.pc = pc /\ d.at = c.at /\ d.user = c.user /\ d.row = x
           /\ d.held = c.held
<1>. DEFINE d == [c EXCEPT !.pc = pc, !.row = x]
<1>1. d \in Calls
  BY DEF Calls
<1>2. d.pc = pc /\ d.at = c.at /\ d.user = c.user /\ d.row = x /\ d.held = c.held
  BY DEF Calls
<1>. QED BY <1>1, <1>2 DEF Stands

LEMMA HoldsOK ==
  ASSUME NEW c \in Calls, NEW n \in Nat
  PROVE  LET d == Holds(c, n) IN
         d \in Calls /\ d.pc = "changing" /\ d.at = c.at /\ d.user = c.user
<1>. DEFINE d == [c EXCEPT !.pc = "changing", !.row = None, !.held = TRUE, !.number = n]
<1>1. d \in Calls
  BY DEF Calls, Directory!Points
<1>2. d.pc = "changing" /\ d.at = c.at /\ d.user = c.user
  BY DEF Calls
<1>. QED BY <1>1, <1>2 DEF Holds

LEMMA DropsOK ==
  ASSUME NEW r \in Processes, NEW u \in Users, NEW calls \in [Requests -> Calls], NEW used,
         \A q \in Requests : CallOK(calls[q], used)
  PROVE  /\ Directory!Dropped(calls, r, u) \in [Requests -> Calls]
         /\ \A q \in Requests : CallOK(Directory!Dropped(calls, r, u)[q], used)
<1>1. ASSUME NEW q \in Requests
      PROVE  CallOK([calls[q] EXCEPT !.held = FALSE], used)
  BY DEF CallOK, Calls
<1>. QED BY <1>1 DEF Directory!Dropped, CallOK

\* What the table, the memory and the requests are once a request has moved on.
LEMMA CallTypes ==
  ASSUME AccountTypes, NEW q \in Requests, NEW c,
         accountUsed \subseteq accountUsed', accountUsed' \subseteq Users, CallOK(c,
           accountUsed'),
         accountRequest' = [accountRequest EXCEPT ![q] = c], accountChanges' \in Nat,
         accountTable' \in [Users -> Directory!Records \cup {None}],
         accountQueue' \in [Processes -> Seq(Saves)],
         UNCHANGED <<accountMemory, accountWriting, accountAnswered, accountExcused>>
  PROVE  AccountTypes'
<1>1. /\ accountRequest' \in [Requests -> Calls]
      /\ \A p \in Requests : CallOK(accountRequest'[p], accountUsed')
  BY CallMoves
<1>2. \A v \in Users : accountAnswered'[v] # None => v \in accountUsed'
  BY DEF AccountTypes
<1>. QED BY <1>1, <1>2 DEF AccountTypes

\* Every account was answered as it is now, but perhaps for its version.
Likewise ==
  /\ accountAnswered' \in [Users -> Directory!Records \cup {None}]
  /\ \A v \in Users : Agrees(accountAnswered'[v], accountAnswered[v])

\* A row that takes the place of the record: q has c to do then.
Adopts(q, c, r, u, x) ==
  /\ Directory!Adopt(r, u, x, [accountRequest EXCEPT ![q] = c])
  /\ UNCHANGED <<accountTable, accountWriting, accountUsed>>
  /\ accountChanges' \in Nat /\ Likewise

LEMMA AdoptsFacts ==
  ASSUME AccountTypes, OneProcess, NEW q \in Requests, NEW c, CallOK(c, accountUsed),
         NEW r \in Processes,
         NEW u \in Users, NEW x \in Directory!Records \cup {None}, Adopts(q, c, r, u, x)
  PROVE  /\ AccountTypes'
         /\ accountExcused \subseteq accountExcused'
         /\ \A v \in Users \ accountExcused' :
              accountMemory'[r][v] = accountMemory[r][v] /\ Future(r, v)' = Future(r, v)
<1>. DEFINE calls == [accountRequest EXCEPT ![q] = c]
<1>1. Directory!Adopt(r, u, x, calls) /\ UNCHANGED <<accountTable, accountWriting, accountUsed>>
      /\ accountChanges' \in Nat /\ Likewise
  BY DEF Adopts
<1>2. calls \in [Requests -> Calls] /\ \A p \in Requests : CallOK(calls[p], accountUsed)
  BY DEF AccountTypes, CallOK
<1>. HIDE DEF calls
<1>3. accountRequest' = Directory!Dropped(calls, r, u)
  BY <1>1 DEF Directory!Adopt
<1>4. accountRequest' \in [Requests -> Calls] /\ \A p \in Requests : CallOK(accountRequest'[p],
      accountUsed)
  BY <1>2, <1>3, DropsOK
<1>5. /\ accountMemory' \in [Processes -> [Users -> Directory!Records \cup {None}]]
      /\ accountQueue' \in [Processes -> Seq(Saves)]
      /\ accountExcused' \subseteq Users /\ accountExcused \subseteq accountExcused'
      /\ \A v \in Users \ accountExcused' :
           accountMemory'[r][v] = accountMemory[r][v] /\ Future(r, v)' = Future(r, v)
  BY <1>1, AdoptKeeps
<1>6. \A v \in Users : accountAnswered'[v] # None => v \in accountUsed'
  BY <1>1 DEF Likewise, Agrees, AccountTypes
<1>7. AccountTypes'
  BY <1>1, <1>4, <1>5, <1>6 DEF AccountTypes, Likewise
<1>. QED BY <1>5, <1>7

LEMMA AdoptsCurrent ==
  ASSUME AccountTypes, Current, OneProcess, NEW q \in Requests, NEW c, CallOK(c, accountUsed),
         NEW r \in Processes,
         NEW u \in Users, NEW x \in Directory!Records \cup {None}, Adopts(q, c, r, u, x)
  PROVE  Current'
<1>1. ASSUME NEW s \in Processes, NEW v \in Users \ accountExcused'
      PROVE  Agrees(accountMemory'[s][v], accountAnswered'[v]) /\ Agrees(Future(s, v)',
             accountAnswered'[v])
  <2>1. s = r /\ v \in Users \ accountExcused
    BY AdoptsFacts DEF OneProcess
  <2>2. accountMemory'[s][v] = accountMemory[r][v] /\ Future(s, v)' = Future(r, v)
    BY <2>1, AdoptsFacts
  <2>3. Agrees(accountMemory[r][v], accountAnswered[v]) /\ Agrees(Future(r, v),
        accountAnswered[v])
    BY <2>1 DEF Current
  <2>4. Agrees(accountAnswered'[v], accountAnswered[v])
    BY DEF Adopts, Likewise
  <2>. QED BY <2>2, <2>3, <2>4 DEF Agrees
<1>. QED BY <1>1 DEF Current, Agrees

LEMMA AdoptsWorks ==
  ASSUME AccountInv, OneProcess, NEW q \in Requests, NEW c, CallOK(c, accountUsed),
         NEW r \in Processes,
         NEW u \in Users, NEW x \in Directory!Records \cup {None}, Adopts(q, c, r, u, x),
         c.pc \notin {"changing", "resetting", "registering"}, ~c.held
  PROVE  Works'
<1>. DEFINE R == accountRequest
<1>1. /\ accountMemory' = [accountMemory EXCEPT ![r] = [accountMemory[r] EXCEPT ![u] = x]]
      /\ accountRequest' = Directory!Dropped([accountRequest EXCEPT ![q] = c], r, u)
      /\ (\E p \in Requests : R[p].held /\ R[p].at = r /\ R[p].user = u) => u \in accountExcused'
      /\ accountExcused \subseteq accountExcused' /\ accountUsed' = accountUsed
  BY DEF Adopts, Directory!Adopt, Directory!Overtakes
<1>2. /\ \A v \in Users \ {u} : accountMemory'[r][v] = accountMemory[r][v]
      /\ \A v \in Users : accountAnswered'[v] = None <=> accountAnswered[v] = None
  BY <1>1 DEF AccountInv, AccountTypes, Adopts, Likewise, Agrees
<1>3. c \in Calls /\ R \in [Requests -> Calls]
  BY DEF CallOK, AccountInv, AccountTypes
<1>4. accountRequest'[q].pc = c.pc /\ ~accountRequest'[q].held
  BY <1>1, <1>3 DEF Directory!Dropped, Calls
<1>5. ASSUME NEW p \in Requests \ {q}
      PROVE  /\ accountRequest'[p].pc = R[p].pc /\ accountRequest'[p].at = R[p].at
                /\ accountRequest'[p].user = R[p].user
             /\ accountRequest'[p].held => R[p].held /\ ~(R[p].at = r /\ R[p].user = u)
             /\ ~accountRequest'[p].held => ~R[p].held \/ (R[p].at = r /\ R[p].user = u)
  BY <1>1, <1>3 DEF Directory!Dropped, Calls
<1>6. \A p \in Requests : Hashing(p) \/ Joins(p) => Under(p) \in Users /\ R[p].at = r
  BY DEF AccountInv, AccountTypes, CallOK, Hashing, Joins, Under, OneProcess
<1>7. ASSUME NEW p \in Requests
      PROVE  /\ accountRequest'[p].held => Hashing(p)'
                /\ accountMemory'[accountRequest'[p].at][Under(p)'] # None
             /\ Hashing(p)' /\ ~accountRequest'[p].held
                => Under(p)' \in accountExcused' \/ accountAnswered'[Under(p)'] = None
             /\ Hashing(p)' => Under(p)' \in accountUsed' \cup accountExcused'
             /\ Joins(p)' => accountAnswered'[Under(p)'] = None
  <2>1. CASE p = q
    BY <1>4, <2>1 DEF Hashing, Joins
  <2>2. CASE p # q
    <3>1. /\ accountRequest'[p].pc = R[p].pc /\ accountRequest'[p].at = R[p].at
             /\ Under(p)' = Under(p)
          /\ accountRequest'[p].held => R[p].held /\ ~(R[p].at = r /\ Under(p) = u)
          /\ ~accountRequest'[p].held => ~R[p].held \/ (R[p].at = r /\ Under(p) = u)
          /\ Hashing(p)' = Hashing(p) /\ Joins(p)' = Joins(p)
      BY <1>5, <2>2 DEF Under, Hashing, Joins
    <3>2. /\ R[p].held => Hashing(p) /\ accountMemory[R[p].at][Under(p)] # None
          /\ Hashing(p) /\ ~R[p].held => Under(p) \in accountExcused
             \/ accountAnswered[Under(p)] = None
          /\ Hashing(p) => Under(p) \in accountUsed \cup accountExcused
          /\ Joins(p) => accountAnswered[Under(p)] = None
      BY DEF AccountInv, Works
    <3>3. R[p].held /\ R[p].at = r /\ Under(p) = u => u \in accountExcused'
      BY <1>1 DEF Under
    <3>. QED BY <1>1, <1>2, <1>6, <3>1, <3>2, <3>3
  <2>. QED BY <2>1, <2>2
<1>8. ASSUME NEW p \in Requests, NEW o \in Requests \ {p}, Joins(p)', Under(o)' = Under(p)'
      PROVE  ~Joins(o)' /\ (Hashing(o)' => Under(p)' \in accountExcused')
  <2>1. p # q
    BY <1>4, <1>8 DEF Joins
  <2>2. CASE o = q
    BY <1>4, <2>2 DEF Joins, Hashing
  <2>3. CASE o # q
    <3>1. Joins(p) /\ Under(p)' = Under(p) /\ Under(o)' = Under(o) /\ Joins(o)' = Joins(o)
          /\ Hashing(o)' = Hashing(o)
      BY <1>5, <1>8, <2>1, <2>3 DEF Joins, Hashing, Under
    <3>2. Under(o) = Under(p)
      BY <1>8, <3>1
    <3>3. ~Joins(o) /\ (Hashing(o) => Under(p) \in accountExcused)
      BY <3>1, <3>2 DEF AccountInv, Works
    <3>. QED BY <1>1, <3>1, <3>3
  <2>. QED BY <2>2, <2>3
<1>. QED BY <1>7, <1>8 DEF Works, Hashing, Joins, Under

LEMMA AdoptsOwned ==
  ASSUME AccountTypes, Owned, OneProcess, NEW q \in Requests, NEW c, CallOK(c, accountUsed),
         NEW r \in Processes,
         NEW u \in Users, NEW x \in Directory!Records \cup {None}, Adopts(q, c, r, u, x)
  PROVE  Owned'
<1>1. accountExcused \subseteq accountExcused' /\ \A v \in Users : Agrees(accountAnswered'[v],
      accountAnswered[v])
  BY AdoptsFacts DEF Adopts, Likewise
<1>. QED BY <1>1 DEF Owned, Agrees

\* Admit() and a Revoked() that has a row adopt it.
LEMMA AdmitIs ==
  ASSUME AccountInv, NEW q \in Requests, Directory!Admit(q)
  PROVE  \E c \in Calls, r \in Processes, u \in Users, x \in Directory!Records \cup {None} :
           /\ CallOK(c, accountUsed) /\ Adopts(q, c, r, u, x)
           /\ c.pc \notin {"changing", "resetting", "registering"} /\ ~c.held
<1>. USE AccountsFit DEF Directory!AccountsAssumption
<1>1. PICK d \in Calls, r \in Processes, u \in Users, x \in Directory!Records \cup {None} :
        /\ d = accountRequest[q] /\ r = d.at /\ u = d.user /\ x = d.row /\ d.pc = "asked"
           /\ u \in accountUsed
        /\ ~d.held
  BY DEF Directory!Admit, Directory!At, AccountInv, AccountTypes, CallOK, Calls, Works, Hashing
<1>2. PICK y : y = [Directory!Owner EXCEPT !.role = x.role]
  OBVIOUS
<1>3. PICK c : c = IF x = None THEN Directory!NoRequest ELSE Stands(d, "admitted", y)
  OBVIOUS
<1>4. CallOK(c, accountUsed) /\ c.pc \notin {"changing", "resetting", "registering"} /\ ~c.held
  <2>1. CASE x = None
    BY <1>3, <2>1, IdleIsOK
  <2>2. CASE x # None
    <3>1. y \in Directory!Records /\ y # None
      BY <1>2, <2>2 DEF Directory!Owner, Directory!Records
    <3>2. c = Stands(d, "admitted", y)
      BY <1>3, <2>2
    <3>3. "admitted" \in Directory!Points
      BY DEF Directory!Points
    <3>4. /\ c \in Calls /\ c.pc = "admitted" /\ c.at = d.at /\ c.user = d.user /\ c.row = y
             /\ c.held = d.held
      BY <3>1, <3>2, <3>3, StandsOK
    <3>. QED BY <1>1, <3>1, <3>4 DEF CallOK
  <2>. QED BY <2>1, <2>2
<1>5. /\ Directory!Adopt(r, u, x, [accountRequest EXCEPT ![q] = c])
      /\ UNCHANGED <<accountTable, accountWriting, accountUsed, accountAnswered, accountChanges>>
  BY <1>1, <1>2, <1>3 DEF Directory!Admit, Directory!bounds, Stands
<1>6. Adopts(q, c, r, u, x)
  BY <1>5 DEF Adopts, Likewise, Agrees, AccountInv, AccountTypes
<1>. QED BY <1>4, <1>6 DEF CallOK

LEMMA RevokedIs ==
  ASSUME AccountInv, NEW q \in Requests, Directory!Revoked(q), accountRequest[q].row # None
  PROVE  \E r \in Processes, u \in Users, x \in Directory!Records \cup {None} :
           Adopts(q, Directory!NoRequest, r, u, x)
<1>. USE AccountsFit DEF Directory!AccountsAssumption
<1>1. PICK r \in Processes, u \in Users, x \in Directory!Records :
        accountRequest[q].at = r /\ accountRequest[q].user = u /\ accountRequest[q].row = x
  BY DEF Directory!Revoked, Directory!At, AccountInv, AccountTypes, CallOK, Calls
<1>2. PICK b \in Directory!Records \cup {None} : b = accountAnswered[u]
  BY DEF AccountInv, AccountTypes
<1>3. PICK a : a = IF b = None THEN b ELSE [b EXCEPT !.ver = x.ver]
  OBVIOUS
<1>4. a \in Directory!Records \cup {None} /\ Agrees(a, b)
  BY <1>2, <1>3 DEF Directory!Records, Agrees
<1>5. /\ Directory!Adopt(r, u, x, [accountRequest EXCEPT ![q] = Directory!NoRequest])
      /\ accountAnswered' = [accountAnswered EXCEPT ![u] = a]
      /\ UNCHANGED <<accountTable, accountWriting, accountUsed, accountChanges>>
  BY <1>1, <1>2, <1>3 DEF Directory!Revoked, Directory!bounds
<1>6. Likewise
  BY <1>2, <1>4, <1>5 DEF Likewise, Agrees, AccountInv, AccountTypes
<1>7. Adopts(q, Directory!NoRequest, r, u, x)
  BY <1>5, <1>6 DEF Adopts, AccountInv, AccountTypes
<1>. QED BY <1>7

\* BeginReplace() takes the first save that waits, with what memory has.
LEMMA BeginIs ==
  ASSUME AccountInv, OneProcess, NEW r \in Processes, Directory!BeginReplace(r)
  PROVE  /\ accountQueue' \in [Processes -> Seq(Saves)]
         /\ accountWriting' \in [Processes -> Directory!Replaces \cup {None}]
         /\ \A v \in Users : Future(r, v)' = Future(r, v)
<1>. USE AccountsFit DEF Directory!AccountsAssumption
<1>1. PICK s \in Seq(Saves) : s = accountQueue[r] /\ s # <<>>
  BY DEF Directory!BeginReplace, AccountInv, AccountTypes
<1>2. PICK head \in Saves : head = Head(s) /\ head = s[1]
  BY <1>1
<1>3. PICK rows : rows = [u \in Users |-> IF head.list[u]
                          = Same THEN accountMemory[r][u] ELSE head.list[u]]
  OBVIOUS
<1>4. rows \in [Users -> Directory!Records \cup {None}]
  BY <1>2, <1>3 DEF Saves, AccountInv, AccountTypes
<1>5. PICK w : w = [rows |-> rows, waiter |-> head.waiter]
  OBVIOUS
<1>6. w \in Directory!Replaces /\ w # None /\ w.rows = rows
  BY <1>2, <1>4, <1>5 DEF Saves, Directory!Replaces
<1>7. /\ accountQueue' = [accountQueue EXCEPT ![r] = Tail(s)]
      /\ accountWriting' = [accountWriting EXCEPT ![r] = w]
      /\ UNCHANGED <<accountTable, accountMemory>>
  BY <1>1, <1>2, <1>3, <1>5 DEF Directory!BeginReplace
<1>8. /\ Tail(s) \in Seq(Saves) /\ Len(s) \in Nat \ {0}
      /\ Len(s) = 1 => Tail(s) = <<>>
      /\ Len(s) # 1 => Tail(s) # <<>> /\ Tail(s)[Len(Tail(s))] = s[Len(s)]
  <2>1. Len(s) \in Nat \ {0} /\ Tail(s) \in Seq(Saves) /\ Len(Tail(s)) = Len(s) - 1
        /\ \A i \in 1..Len(Tail(s)) : Tail(s)[i] = s[i + 1]
    BY <1>1
  <2>. DEFINE t == Tail(s)
  <2>2. t \in Seq(Saves) /\ Len(t) \in Nat /\ Len(t) = Len(s) - 1
        /\ \A i \in 1..Len(t) : t[i] = s[i + 1]
    BY <2>1
  <2>. HIDE DEF t
  <2>3. CASE Len(s) = 1
    <3>1. t = <<>>
      BY <2>2, <2>3
    <3>. QED BY <2>1, <2>3, <3>1 DEF t
  <2>4. CASE Len(s) # 1
    <3>1. Len(t) \in 1..Len(t) /\ Len(t) + 1 = Len(s)
      BY <2>1, <2>2, <2>4
    <3>2. t # <<>> /\ t[Len(t)] = s[Len(s)]
      BY <2>2, <3>1
    <3>. QED BY <2>1, <2>4, <3>2 DEF t
  <2>. QED BY <2>3, <2>4
<1>9. /\ accountQueue' \in [Processes -> Seq(Saves)] /\ accountQueue'[r] = Tail(s)
      /\ accountWriting' \in [Processes -> Directory!Replaces \cup {None}]
         /\ accountWriting'[r] = w
  BY <1>6, <1>7, <1>8 DEF AccountInv, AccountTypes
<1>10. ASSUME NEW v \in Users PROVE Future(r, v)' = Future(r, v)
  <2>1. CASE Len(s) = 1
    <3>1. Future(r, v)' = rows[v]
      BY <1>6, <1>8, <1>9, <2>1 DEF Future
    <3>2. Future(r, v) = Lands(head, r, v)
      BY <1>1, <1>2, <2>1 DEF Future
    <3>. QED BY <1>3, <3>1, <3>2 DEF Lands
  <2>2. CASE Len(s) # 1
    <3>1. Future(r,
                 v)' = (IF s[Len(s)].list[v]
                        = Same THEN accountMemory'[r][v] ELSE s[Len(s)].list[v])
      BY <1>8, <1>9, <2>2 DEF Future, Lands
    <3>2. Future(r, v) = Lands(s[Len(s)], r, v)
      BY <1>1 DEF Future
    <3>. QED BY <1>7, <3>1, <3>2 DEF Lands
  <2>. QED BY <2>1, <2>2
<1>. QED BY <1>9, <1>10

\* revokeAllSessions() leaves password and role of the row.
LEMMA RevokeIs ==
  ASSUME AccountInv, NEW q \in Requests, Directory!Revoke(q)
  PROVE  /\ accountTable' \in [Users -> Directory!Records \cup {None}]
         /\ \A v \in Users : Agrees(accountTable'[v], accountTable[v])
<1>. USE AccountsFit DEF Directory!AccountsAssumption
<1>1. CASE accountTable' = accountTable
  BY <1>1 DEF Agrees, AccountInv, AccountTypes
<1>2. CASE accountTable' # accountTable
  <2>1. PICK u \in Users : u = accountRequest[q].user
    BY DEF Directory!Revoke, Directory!At, AccountInv, AccountTypes, CallOK
  <2>2. PICK b \in Directory!Records \cup {None} : b = accountTable[u]
    BY DEF AccountInv, AccountTypes
  <2>3. PICK a : a = IF b = None THEN None ELSE [b EXCEPT !.ver = b.ver + 1]
    OBVIOUS
  <2>4. a \in Directory!Records \cup {None} /\ Agrees(a, b)
    BY <2>2, <2>3 DEF Directory!Records, Agrees
  <2>5. accountTable' = [accountTable EXCEPT ![u] = a]
    BY <1>2, <2>1, <2>2, <2>3 DEF Directory!Revoke
  <2>. QED BY <2>2, <2>4, <2>5 DEF Agrees, AccountInv, AccountTypes
<1>. QED BY <1>1, <1>2

\* remove(): whoever works on the account works on one that is gone.
LEMMA RemovedWorks ==
  ASSUME AccountInv, OneProcess, NEW q \in Requests, NEW r \in Processes, NEW u \in Users,
         Changed(r, u, None, None),
         accountRequest' = Directory!Dropped([accountRequest EXCEPT ![q] = Directory!NoRequest],
                                             r, u)
  PROVE  Works'
<1>. DEFINE R == accountRequest
<1>1. R \in [Requests -> Calls] /\ Directory!NoRequest \in Calls
  BY IdleIsOK DEF CallOK, AccountInv, AccountTypes
<1>2. accountRequest'[q].pc = "idle" /\ ~accountRequest'[q].held
  BY <1>1, IdleIsOK DEF Directory!Dropped, Calls
<1>3. ASSUME NEW p \in Requests \ {q}
      PROVE  /\ accountRequest'[p].pc = R[p].pc /\ accountRequest'[p].at = R[p].at
                /\ accountRequest'[p].user = R[p].user
             /\ accountRequest'[p].held => R[p].held /\ ~(R[p].at = r /\ R[p].user = u)
             /\ ~accountRequest'[p].held => ~R[p].held \/ (R[p].at = r /\ R[p].user = u)
  BY <1>1 DEF Directory!Dropped, Calls
<1>4. \A p \in Requests : Hashing(p) \/ Joins(p) => Under(p) \in Users /\ R[p].at = r
  BY DEF AccountInv, AccountTypes, CallOK, Hashing, Joins, Under, OneProcess
<1>5. /\ accountExcused' = accountExcused /\ accountUsed' = accountUsed
      /\ \A v \in Users \ {u} : accountMemory'[r][v] = accountMemory[r][v]
      /\ \A v \in Users : accountAnswered'[v] = None \/ accountAnswered'[v] = accountAnswered[v]
      /\ accountAnswered'[u] = None
  BY DEF Changed
<1>6. ASSUME NEW p \in Requests
      PROVE  /\ accountRequest'[p].held => Hashing(p)'
                /\ accountMemory'[accountRequest'[p].at][Under(p)'] # None
             /\ Hashing(p)' /\ ~accountRequest'[p].held
                => Under(p)' \in accountExcused' \/ accountAnswered'[Under(p)'] = None
             /\ Hashing(p)' => Under(p)' \in accountUsed' \cup accountExcused'
             /\ Joins(p)' => accountAnswered'[Under(p)'] = None
  <2>1. CASE p = q
    BY <1>2, <2>1 DEF Hashing, Joins
  <2>2. CASE p # q
    <3>1. /\ accountRequest'[p].pc = R[p].pc /\ accountRequest'[p].at = R[p].at
             /\ Under(p)' = Under(p)
          /\ accountRequest'[p].held => R[p].held /\ ~(R[p].at = r /\ Under(p) = u)
          /\ ~accountRequest'[p].held => ~R[p].held \/ (R[p].at = r /\ Under(p) = u)
          /\ Hashing(p)' = Hashing(p) /\ Joins(p)' = Joins(p)
      BY <1>3, <2>2 DEF Under, Hashing, Joins
    <3>2. /\ R[p].held => Hashing(p) /\ accountMemory[R[p].at][Under(p)] # None
          /\ Hashing(p) /\ ~R[p].held => Under(p) \in accountExcused
             \/ accountAnswered[Under(p)] = None
          /\ Hashing(p) => Under(p) \in accountUsed \cup accountExcused
          /\ Joins(p) => accountAnswered[Under(p)] = None
      BY DEF AccountInv, Works
    <3>. QED BY <1>4, <1>5, <3>1, <3>2
  <2>. QED BY <2>1, <2>2
<1>7. ASSUME NEW p \in Requests, NEW o \in Requests \ {p}, Joins(p)', Under(o)' = Under(p)'
      PROVE  ~Joins(o)' /\ (Hashing(o)' => Under(p)' \in accountExcused')
  <2>1. p # q
    BY <1>2, <1>7 DEF Joins
  <2>2. CASE o = q
    BY <1>2, <2>2 DEF Joins, Hashing
  <2>3. CASE o # q
    <3>1. Joins(p) /\ Under(p)' = Under(p) /\ Under(o)' = Under(o) /\ Joins(o)' = Joins(o)
          /\ Hashing(o)' = Hashing(o)
      BY <1>3, <1>7, <2>1, <2>3 DEF Joins, Hashing, Under
    <3>2. Under(o) = Under(p)
      BY <1>7, <3>1
    <3>3. ~Joins(o) /\ (Hashing(o) => Under(p) \in accountExcused)
      BY <3>1, <3>2 DEF AccountInv, Works
    <3>. QED BY <1>5, <3>1, <3>3
  <2>. QED BY <2>2, <2>3
<1>. QED BY <1>6, <1>7 DEF Works, Hashing, Joins, Under

\* An account that is not the only owner in memory is not the only one there is.
LEMMA NotLastOwner ==
  ASSUME AccountInv, NEW r \in Processes, NEW u \in Users, Directory!Owners(r) # {u}
  PROVE  \/ accountAnswered[u] = None \/ accountAnswered[u].role # "owner" \/ accountExcused # {}
         \/ \E v \in Users \ {u} : accountAnswered[v] # None /\ accountAnswered[v].role = "owner"
<1>. SUFFICES ASSUME accountAnswered[u] # None, accountAnswered[u].role = "owner",
     accountExcused = {}
     PROVE  \E v \in Users \ {u} : accountAnswered[v] # None /\ accountAnswered[v].role = "owner"
  OBVIOUS
<1>1. \A v \in Users : Agrees(accountMemory[r][v], accountAnswered[v])
  BY DEF AccountInv, Current
<1>2. u \in Directory!Owners(r)
  BY <1>1 DEF Agrees, Directory!Owners, Directory!Known
<1>3. PICK v \in Users : v # u /\ v \in Directory!Owners(r)
  BY <1>2 DEF Directory!Owners, Directory!Known
<1>. QED BY <1>1, <1>3 DEF Agrees, Directory!Owners, Directory!Known

LEMMA AccountTypesKept ==
  ASSUME AccountInv, OneProcess, [Directory!Next]_(Directory!vars)
  PROVE  AccountTypes'
<1>. USE AccountsFit DEF Directory!AccountsAssumption, Directory!At, Directory!End,
     Directory!NoRequest, Directory!history, Directory!bounds
<1>1. ASSUME NEW q \in Requests, NEW r \in Processes, NEW u \in Users, Directory!Ask(q, r, u)
      PROVE  AccountTypes'
  BY <1>1 DEF AccountInv, AccountTypes, CallOK, Under, Calls, Directory!Points, Directory!Ask
<1>2. ASSUME NEW q \in Requests, NEW r \in Processes, NEW u \in Users, Directory!StartReset(q, r,
      u)
      PROVE  AccountTypes'
  <2>1. PICK c : c = [pc |-> "resetting", at |-> r, user |-> u, row |-> accountMemory[r][u],
                      held |-> TRUE, number |-> accountChanges']
    OBVIOUS
  <2>2. accountMemory[r][u] \in Directory!Records /\ accountChanges' \in Nat
    BY <1>2 DEF AccountInv, AccountTypes, Directory!StartReset, Directory!Known
  <2>3. CallOK(c, accountUsed')
    BY <2>1, <2>2 DEF CallOK, Calls, Directory!Points
  <2>4. /\ accountRequest' = [accountRequest EXCEPT ![q] = c] /\ accountUsed' = accountUsed
        /\ UNCHANGED <<accountTable, accountQueue, accountMemory, accountWriting,
                       accountAnswered, accountExcused>>
    BY <1>2, <2>1 DEF Directory!StartReset
  <2>. QED BY <2>2, <2>3, <2>4, CallTypes DEF AccountInv, AccountTypes
<1>3. ASSUME NEW q \in Requests, NEW r \in Processes, NEW u \in Users, Directory!StartRegister(q,
      r, u)
      PROVE  AccountTypes'
  <2>1. PICK x : x = [hash |-> 0, ver |-> 0,
                      role |-> IF Directory!Known(r) = {} THEN "owner" ELSE "user"]
    OBVIOUS
  <2>2. x \in Directory!Records /\ x # None
    BY <2>1 DEF Directory!Records
  <2>3. PICK c : c = [Directory!NoRequest EXCEPT !.pc = "registering", !.at = r, !.user = u,
                      !.row = x]
    OBVIOUS
  <2>4. CallOK(c, accountUsed \cup {u})
    BY <2>2, <2>3 DEF CallOK, Calls, Directory!Points
  <2>5. /\ accountRequest' = [accountRequest EXCEPT ![q] = c]
           /\ accountUsed' = accountUsed \cup {u}
        /\ UNCHANGED <<accountTable, accountQueue, accountMemory, accountWriting,
                       accountAnswered, accountExcused,
                       accountChanges>>
    BY <1>3, <2>1, <2>3 DEF Directory!StartRegister
  <2>. QED BY <2>4, <2>5, CallTypes DEF AccountInv, AccountTypes
<1>4. ASSUME NEW q \in Requests, Directory!Admit(q)
      PROVE  AccountTypes'
  BY <1>4, AdmitIs, AdoptsFacts DEF AccountInv
<1>5. ASSUME NEW q \in Requests, Directory!Leave(q)
      PROVE  AccountTypes'
  BY <1>5 DEF AccountInv, AccountTypes, CallOK, Under, Calls, Directory!Points, Directory!Leave
<1>6. ASSUME NEW q \in Requests, Directory!RecordLogin(q)
      PROVE  AccountTypes'
  <2>1. PICK r \in Processes : r = accountRequest[q].at
    BY <1>6 DEF Directory!RecordLogin, AccountInv, AccountTypes, CallOK
  <2>2. accountQueue' \in [Processes -> Seq(Saves)]
    BY <1>6, <2>1, SaveLands DEF Directory!RecordLogin, AccountInv, AccountTypes
  <2>3. /\ accountRequest' = [accountRequest EXCEPT ![q] = Directory!NoRequest]
        /\ UNCHANGED <<accountTable, accountMemory, accountWriting, accountAnswered,
                       accountExcused, accountUsed,
                       accountChanges>>
    BY <1>6 DEF Directory!RecordLogin
  <2>. QED BY <2>2, <2>3, IdleIsOK, CallTypes DEF AccountInv, AccountTypes
<1>7. ASSUME NEW q \in Requests, NEW u \in Users, Directory!StartRemove(q, u)
      PROVE  AccountTypes'
  <2>1. PICK d \in Calls : d = accountRequest[q] /\ d.at \in Processes
    BY <1>7 DEF Directory!StartRemove, AccountInv, AccountTypes, CallOK
  <2>2. PICK c : c = [d EXCEPT !.pc = "removing", !.user = u, !.row = None]
    OBVIOUS
  <2>3. c \in Calls /\ c.pc = "removing" /\ c.at = d.at /\ c.user = u
    BY <2>2 DEF Calls, Directory!Points
  <2>4. CallOK(c, accountUsed)
    BY <2>1, <2>3 DEF CallOK
  <2>5. /\ accountRequest' = [accountRequest EXCEPT ![q] = c]
        /\ UNCHANGED <<accountTable, accountQueue, accountMemory, accountWriting,
                       accountAnswered, accountExcused,
                       accountUsed, accountChanges>>
    BY <1>7, <2>1, <2>2 DEF Directory!StartRemove
  <2>. QED BY <2>4, <2>5, CallTypes DEF AccountInv, AccountTypes
<1>8. ASSUME NEW q \in Requests, NEW u \in Users, NEW role \in {"owner", "user"},
      Directory!SetRole(q, u, role)
      PROVE  AccountTypes'
  <2>1. accountRequest' = [accountRequest EXCEPT ![q] = Directory!NoRequest]
        /\ accountChanges' \in Nat
    BY <1>8 DEF Directory!SetRole, AccountInv, AccountTypes
  <2>2. PICK r \in Processes, n, a \in Directory!Records \cup {None} :
          Changed(r, u, n, a) /\ (a = None <=> accountAnswered[u] = None)
    BY <1>8, SetRoleIs
  <2>3. accountRequest' \in [Requests -> Calls] /\ \A p \in Requests : CallOK(accountRequest'[p],
        accountUsed)
    BY <2>1, <2>2, CallMoves, IdleIsOK DEF AccountInv, Changed
  <2>4. a # None => u \in accountUsed
    BY <2>2 DEF AccountInv, AccountTypes
  <2>. QED BY <2>1, <2>2, <2>3, <2>4, ChangedTypes DEF AccountInv
<1>9. ASSUME NEW q \in Requests, Directory!StartChange(q)
      PROVE  AccountTypes'
  <2>1. PICK d \in Calls : d = accountRequest[q] /\ CallOK(d, accountUsed) /\ d.pc = "admitted"
    BY <1>9 DEF Directory!StartChange, AccountInv, AccountTypes, CallOK
  <2>2. accountChanges' \in Nat
    BY <1>9 DEF Directory!StartChange, AccountInv, AccountTypes
  <2>3. PICK c : c = Holds(d, accountChanges')
    OBVIOUS
  <2>4. CallOK(c, accountUsed)
    <3>1. c \in Calls /\ c.pc = "changing" /\ c.at = d.at /\ c.user = d.user
      BY <2>2, <2>3, HoldsOK
    <3>. QED BY <2>1, <3>1 DEF CallOK
  <2>5. /\ accountRequest' = [accountRequest EXCEPT ![q] = c]
        /\ UNCHANGED <<accountTable, accountQueue, accountMemory, accountWriting,
                       accountAnswered, accountExcused,
                       accountUsed>>
    BY <1>9, <2>1, <2>3 DEF Directory!StartChange, Holds
  <2>. QED BY <2>2, <2>4, <2>5, CallTypes DEF AccountInv, AccountTypes
<1>10. ASSUME NEW q \in Requests, Directory!ChangePassword(q)
      PROVE  AccountTypes'
  <2>1. PICK r \in Processes, u \in Users, n, a \in Directory!Records \cup {None} :
          r = accountRequest[q].at /\ Changed(r, u, n, a)
            /\ (a = None <=> accountAnswered[u] = None)
    BY <1>10, PasswordIs
  <2>2. PICK c : c = Directory!NoRequest
    OBVIOUS
  <2>3. CallOK(c, accountUsed)
    BY <2>1, <2>2, IdleIsOK DEF CallOK, Calls, Directory!Points
  <2>4. accountRequest' = [accountRequest EXCEPT ![q] = c] /\ accountChanges' \in Nat
        /\ accountUsed' = accountUsed
    BY <1>10, <2>2 DEF Directory!ChangePassword, AccountInv, AccountTypes
  <2>5. accountRequest' \in [Requests -> Calls] /\ \A p \in Requests : CallOK(accountRequest'[p],
        accountUsed)
    BY <2>3, <2>4, CallMoves DEF AccountInv
  <2>6. a # None => u \in accountUsed
    BY <2>1 DEF AccountInv, AccountTypes
  <2>. QED BY <2>1, <2>4, <2>5, <2>6, ChangedTypes DEF AccountInv
<1>11. ASSUME NEW q \in Requests, Directory!ResetPassword(q)
      PROVE  AccountTypes'
  <2>1. PICK r \in Processes, u \in Users, n, a \in Directory!Records \cup {None} :
          r = accountRequest[q].at /\ Changed(r, u, n, a)
            /\ (a = None <=> accountAnswered[u] = None)
    BY <1>11, PasswordIs
  <2>2. PICK c : c = [Directory!NoRequest EXCEPT !.pc = "saving", !.at = accountRequest[q].at]
    OBVIOUS
  <2>3. CallOK(c, accountUsed)
    BY <2>1, <2>2 DEF CallOK, Calls, Directory!Points
  <2>4. accountRequest' = [accountRequest EXCEPT ![q] = c] /\ accountChanges' \in Nat
        /\ accountUsed' = accountUsed
    BY <1>11, <2>2 DEF Directory!ResetPassword, AccountInv, AccountTypes
  <2>5. accountRequest' \in [Requests -> Calls] /\ \A p \in Requests : CallOK(accountRequest'[p],
        accountUsed)
    BY <2>3, <2>4, CallMoves DEF AccountInv
  <2>6. a # None => u \in accountUsed
    BY <2>1 DEF AccountInv, AccountTypes
  <2>. QED BY <2>1, <2>4, <2>5, <2>6, ChangedTypes DEF AccountInv
<1>12. ASSUME NEW q \in Requests, Directory!Register(q)
      PROVE  AccountTypes'
  <2>1. PICK r \in Processes, u \in accountUsed, a \in Directory!Records : u \in Users
             /\ Changed(r, u, a, a)
    BY <1>12, RegisterIs
  <2>2. /\ accountRequest' = [accountRequest EXCEPT ![q] = Directory!NoRequest]
           /\ accountChanges' \in Nat
        /\ accountUsed' = accountUsed
    BY <1>12 DEF Directory!Register, AccountInv, AccountTypes
  <2>3. accountRequest' \in [Requests -> Calls] /\ \A p \in Requests : CallOK(accountRequest'[p],
        accountUsed)
    BY <2>2, CallMoves, IdleIsOK DEF AccountInv
  <2>. QED BY <2>1, <2>2, <2>3, ChangedTypes DEF AccountInv
<1>13. ASSUME NEW q \in Requests, Directory!Remove(q)
      PROVE  AccountTypes'
  <2>1. CASE ~(Under(q) \in Directory!Known(accountRequest[q].at)
               /\ Directory!Owners(accountRequest[q].at) # {Under(q)})
    <3>1. /\ accountRequest' = [accountRequest EXCEPT ![q] = Directory!NoRequest]
          /\ UNCHANGED <<accountTable, accountQueue, accountMemory, accountWriting,
                         accountAnswered, accountExcused,
                         accountUsed, accountChanges>>
      BY <1>13, <2>1 DEF Directory!Remove, Under
    <3>. QED BY <3>1, IdleIsOK, CallTypes DEF AccountInv, AccountTypes
  <2>2. CASE Under(q) \in Directory!Known(accountRequest[q].at)
             /\ Directory!Owners(accountRequest[q].at) # {Under(q)}
    <3>1. PICK r \in Processes, u \in Users :
            /\ Changed(r, u, None, None)
            /\ accountRequest'
               = Directory!Dropped([accountRequest EXCEPT ![q] = Directory!NoRequest], r, u)
      BY <1>13, <2>2, RemoveIs
    <3>2. PICK calls : calls = [accountRequest EXCEPT ![q] = Directory!NoRequest]
      OBVIOUS
    <3>3. calls \in [Requests -> Calls] /\ \A p \in Requests : CallOK(calls[p], accountUsed)
      BY <3>2, IdleIsOK DEF AccountInv, AccountTypes, CallOK
    <3>4. accountRequest' \in [Requests -> Calls]
          /\ \A p \in Requests : CallOK(accountRequest'[p], accountUsed)
      BY <3>1, <3>2, <3>3, DropsOK
    <3>5. accountChanges' \in Nat
      BY <1>13 DEF Directory!Remove, AccountInv, AccountTypes
    <3>. QED BY <3>1, <3>4, <3>5, ChangedTypes DEF AccountInv
  <2>. QED BY <2>1, <2>2
<1>14. ASSUME NEW q \in Requests, Directory!Revoke(q)
      PROVE  AccountTypes'
  <2>1. PICK u \in Users : u = accountRequest[q].user
    BY <1>14 DEF Directory!Revoke, AccountInv, AccountTypes, CallOK
  <2>2. PICK d \in Calls : d = accountRequest[q] /\ CallOK(d, accountUsed) /\ d.pc = "admitted"
    BY <1>14 DEF Directory!Revoke, AccountInv, AccountTypes, CallOK
  <2>3. accountTable' \in [Users -> Directory!Records \cup {None}] /\ accountChanges' \in Nat
    <3>1. accountTable' \in [Users -> Directory!Records \cup {None}]
      BY <1>14, RevokeIs
    <3>2. accountChanges' \in Nat
      BY <1>14 DEF Directory!Revoke, AccountInv, AccountTypes
    <3>. QED BY <3>1, <3>2
  <2>4. PICK c : \/ c = Stands(d, "revoking", None)
                    /\ accountRequest' = [accountRequest EXCEPT ![q] = c]
                 \/ c = Stands(d, "revoked", accountTable'[u])
                    /\ accountRequest' = [accountRequest EXCEPT ![q] = c]
    BY <1>14, <2>1, <2>2 DEF Directory!Revoke, Stands
  <2>5. CallOK(c, accountUsed)
    <3>1. PICK pc \in {"revoking", "revoked"},
               x \in Directory!Records \cup {None} : c = Stands(d, pc, x)
      BY <2>1, <2>3, <2>4
    <3>2. pc \in Directory!Points
      BY DEF Directory!Points
    <3>3. c \in Calls /\ c.pc = pc /\ c.at = d.at /\ c.user = d.user
      BY <3>1, <3>2, StandsOK
    <3>. QED BY <2>2, <3>3 DEF CallOK
  <2>6. UNCHANGED <<accountQueue, accountMemory, accountWriting, accountAnswered, accountExcused,
                    accountUsed>>
    BY <1>14 DEF Directory!Revoke
  <2>. QED BY <2>3, <2>4, <2>5, <2>6, CallTypes DEF AccountInv, AccountTypes
<1>15. ASSUME NEW q \in Requests, Directory!RevokeLate(q)
      PROVE  AccountTypes'
  <2>1. PICK u \in Users : u = accountRequest[q].user
    BY <1>15 DEF Directory!RevokeLate, AccountInv, AccountTypes, CallOK
  <2>2. PICK d \in Calls : d = accountRequest[q] /\ CallOK(d, accountUsed) /\ d.pc = "revoking"
    BY <1>15 DEF Directory!RevokeLate, AccountInv, AccountTypes, CallOK
  <2>3. accountTable[u] \in Directory!Records \cup {None}
    BY DEF AccountInv, AccountTypes
  <2>4. PICK c : c = Stands(d, "revoked", accountTable[u])
    OBVIOUS
  <2>5. CallOK(c, accountUsed)
    <3>1. "revoked" \in Directory!Points
      BY DEF Directory!Points
    <3>2. c \in Calls /\ c.pc = "revoked" /\ c.at = d.at /\ c.user = d.user
      BY <2>3, <2>4, <3>1, StandsOK
    <3>. QED BY <2>2, <3>2 DEF CallOK
  <2>6. /\ accountRequest' = [accountRequest EXCEPT ![q] = c]
        /\ UNCHANGED <<accountTable, accountQueue, accountMemory, accountWriting,
                       accountAnswered, accountExcused,
                       accountUsed, accountChanges>>
    BY <1>15, <2>1, <2>2, <2>4 DEF Directory!RevokeLate, Stands
  <2>. QED BY <2>5, <2>6, CallTypes DEF AccountInv, AccountTypes
<1>16. ASSUME NEW q \in Requests, Directory!Revoked(q)
      PROVE  AccountTypes'
  <2>1. CASE accountRequest[q].row = None
    <3>1. /\ accountRequest' = [accountRequest EXCEPT ![q] = Directory!NoRequest]
          /\ UNCHANGED <<accountTable, accountQueue, accountMemory, accountWriting,
                         accountAnswered, accountExcused,
                         accountUsed, accountChanges>>
      BY <1>16, <2>1 DEF Directory!Revoked
    <3>. QED BY <3>1, IdleIsOK, CallTypes DEF AccountInv, AccountTypes
  <2>2. CASE accountRequest[q].row # None
    BY <1>16, <2>2, RevokedIs, AdoptsFacts, IdleIsOK DEF AccountInv
  <2>. QED BY <2>1, <2>2
<1>17. ASSUME NEW r \in Processes, Directory!BeginReplace(r)
      PROVE  AccountTypes'
  <2>1. UNCHANGED <<accountTable, accountMemory, accountRequest, accountAnswered, accountExcused,
                    accountUsed,
                    accountChanges>>
    BY <1>17 DEF Directory!BeginReplace
  <2>. QED BY <1>17, <2>1, BeginIs DEF AccountInv, AccountTypes
<1>18. ASSUME NEW r \in Processes, Directory!CommitReplace(r)
      PROVE  AccountTypes'
  <2>1. accountTable' \in [Users -> Directory!Records \cup {None}]
    BY <1>18 DEF Directory!CommitReplace, Directory!Replaces, AccountInv, AccountTypes
  <2>2. accountWriting' \in [Processes -> Directory!Replaces \cup {None}]
    BY <1>18 DEF Directory!CommitReplace, AccountInv, AccountTypes
  <2>3. PICK w : accountRequest' = [p \in Requests |-> IF p
                                    = w THEN Directory!NoRequest ELSE accountRequest[p]]
    BY <1>18 DEF Directory!CommitReplace, Directory!Answer
  <2>4. accountRequest' \in [Requests -> Calls] /\ \A p \in Requests : CallOK(accountRequest'[p],
        accountUsed)
    BY <2>3, IdleIsOK DEF AccountInv, AccountTypes, CallOK
  <2>5. UNCHANGED <<accountMemory, accountQueue, accountAnswered, accountExcused, accountUsed,
                    accountChanges>>
    BY <1>18 DEF Directory!CommitReplace
  <2>. QED BY <2>1, <2>2, <2>4, <2>5 DEF AccountInv, AccountTypes
<1>19. ASSUME NEW r \in Processes, Directory!FailReplace(r)
      PROVE  AccountTypes'
  BY <1>19 DEF AccountInv, AccountTypes, CallOK, Under, Calls, Directory!Points,
     Directory!FailReplace, Directory!Answer
<1>20. ASSUME NEW r \in Processes, Directory!Restart(r)
      PROVE  AccountTypes'
  BY <1>20 DEF AccountInv, AccountTypes, CallOK, Under, Calls, Directory!Points, Directory!Restart
<1>21. ASSUME UNCHANGED Directory!vars
      PROVE  AccountTypes'
  BY <1>21 DEF AccountInv, AccountTypes, CallOK, Under, Calls, Directory!Points, Directory!vars
<1>. QED BY <1>1, <1>2, <1>3, <1>4, <1>5, <1>6, <1>7, <1>8, <1>9, <1>10, <1>11, <1>12, <1>13,
         <1>14, <1>15, <1>16, <1>17, <1>18, <1>19, <1>20, <1>21 DEF Directory!Next

LEMMA CurrentKept ==
  ASSUME AccountInv, OneProcess, [Directory!Next]_(Directory!vars)
  PROVE  Current'
<1>. USE AccountsFit DEF Directory!AccountsAssumption, Directory!At, Directory!End,
     Directory!NoRequest, Directory!history, Directory!bounds
<1>1. ASSUME NEW q \in Requests, NEW r \in Processes, NEW u \in Users, Directory!Ask(q, r, u)
      PROVE  Current'
  BY <1>1 DEF AccountInv, AccountTypes, CallOK, Current, Works, Under, Calls, Hashing, Joins,
     Future, Lands, Agrees, Directory!Ask
<1>2. ASSUME NEW q \in Requests, NEW r \in Processes, NEW u \in Users, Directory!StartReset(q, r,
      u)
      PROVE  Current'
  BY <1>2 DEF AccountInv, AccountTypes, CallOK, Current, Works, Under, Calls, Hashing, Joins,
     Future, Lands, Agrees, Directory!StartReset, Directory!Known
<1>3. ASSUME NEW q \in Requests, NEW r \in Processes, NEW u \in Users, Directory!StartRegister(q,
      r, u)
      PROVE  Current'
  BY <1>3 DEF AccountInv, AccountTypes, CallOK, Current, Works, Under, Calls, Hashing, Joins,
     Future, Lands, Agrees, Directory!StartRegister
<1>4. ASSUME NEW q \in Requests, Directory!Admit(q)
      PROVE  Current'
  BY <1>4, AdmitIs, AdoptsCurrent DEF AccountInv
<1>5. ASSUME NEW q \in Requests, Directory!Leave(q)
      PROVE  Current'
  BY <1>5 DEF AccountInv, AccountTypes, CallOK, Current, Works, Under, Calls, Hashing, Joins,
     Future, Lands, Agrees, Directory!Leave
<1>6. ASSUME NEW q \in Requests, Directory!RecordLogin(q)
      PROVE  Current'
  <2>1. PICK r \in Processes : r = accountRequest[q].at
    BY <1>6 DEF Directory!RecordLogin, AccountInv, AccountTypes, CallOK
  <2>2. \A v \in Users : Future(r, v)' = accountMemory'[r][v]
    BY <1>6, <2>1, SaveLands DEF Directory!RecordLogin, AccountInv, AccountTypes
  <2>3. UNCHANGED <<accountMemory, accountAnswered, accountExcused>>
    BY <1>6 DEF Directory!RecordLogin
  <2>4. ASSUME NEW s \in Processes, NEW v \in Users \ accountExcused'
        PROVE  Agrees(accountMemory'[s][v], accountAnswered'[v]) /\ Agrees(Future(s, v)',
               accountAnswered'[v])
    <3>1. s = r
      BY DEF OneProcess
    <3>2. Agrees(accountMemory[r][v], accountAnswered[v])
      BY <2>3 DEF AccountInv, Current
    <3>. QED BY <2>2, <2>3, <3>1, <3>2
  <2>. QED BY <2>4 DEF Current, Agrees
<1>7. ASSUME NEW q \in Requests, NEW u \in Users, Directory!StartRemove(q, u)
      PROVE  Current'
  BY <1>7 DEF AccountInv, AccountTypes, CallOK, Current, Works, Under, Calls, Hashing, Joins,
     Future, Lands, Agrees, Directory!StartRemove, Directory!Known
<1>8. ASSUME NEW q \in Requests, NEW u \in Users, NEW role \in {"owner", "user"},
      Directory!SetRole(q, u, role)
      PROVE  Current'
  BY <1>8, SetRoleIs, ChangedCurrent DEF AccountInv
<1>9. ASSUME NEW q \in Requests, Directory!StartChange(q)
      PROVE  Current'
  BY <1>9 DEF AccountInv, AccountTypes, CallOK, Current, Works, Under, Calls, Hashing, Joins,
     Future, Lands, Agrees, Directory!StartChange, Directory!Known
<1>10. ASSUME NEW q \in Requests, Directory!ChangePassword(q)
      PROVE  Current'
  BY <1>10, PasswordIs, ChangedCurrent DEF AccountInv
<1>11. ASSUME NEW q \in Requests, Directory!ResetPassword(q)
      PROVE  Current'
  BY <1>11, PasswordIs, ChangedCurrent DEF AccountInv
<1>12. ASSUME NEW q \in Requests, Directory!Register(q)
      PROVE  Current'
  <2>1. PICK r \in Processes, u \in Users, a \in Directory!Records : Changed(r, u, a, a)
    BY <1>12, RegisterIs
  <2>2. Agrees(a, a)
    BY DEF Agrees
  <2>. QED BY <2>1, <2>2, ChangedCurrent DEF AccountInv
<1>13. ASSUME NEW q \in Requests, Directory!Remove(q)
      PROVE  Current'
  <2>1. CASE ~(Under(q) \in Directory!Known(accountRequest[q].at)
               /\ Directory!Owners(accountRequest[q].at) # {Under(q)})
    <3>1. UNCHANGED <<accountTable, accountQueue, accountMemory, accountWriting, accountAnswered,
                      accountExcused>>
      BY <1>13, <2>1 DEF Directory!Remove, Under
    <3>. QED BY <3>1 DEF AccountInv, Current, Agrees, Future, Lands
  <2>2. CASE Under(q) \in Directory!Known(accountRequest[q].at)
             /\ Directory!Owners(accountRequest[q].at) # {Under(q)}
    <3>1. Agrees(None, None)
      BY DEF Agrees
    <3>. QED BY <1>13, <2>2, <3>1, RemoveIs, ChangedCurrent DEF AccountInv
  <2>. QED BY <2>1, <2>2
<1>14. ASSUME NEW q \in Requests, Directory!Revoke(q)
      PROVE  Current'
  <2>1. \A v \in Users : Agrees(accountTable'[v], accountTable[v])
    BY <1>14, RevokeIs
  <2>2. UNCHANGED <<accountQueue, accountMemory, accountWriting, accountAnswered, accountExcused>>
    BY <1>14 DEF Directory!Revoke
  <2>3. ASSUME NEW s \in Processes, NEW v \in Users
        PROVE  accountMemory'[s][v] = accountMemory[s][v] /\ Agrees(Future(s, v)', Future(s, v))
    <3>1. Future(s, v)' = Future(s, v) \/ (Future(s, v)' = accountTable'[v] /\ Future(s,
          v) = accountTable[v])
      BY <2>2 DEF Future, Lands
    <3>. QED BY <2>1, <2>2, <3>1 DEF Agrees
  <2>4. ASSUME NEW s \in Processes, NEW v \in Users \ accountExcused'
        PROVE  Agrees(accountMemory'[s][v], accountAnswered'[v]) /\ Agrees(Future(s, v)',
               accountAnswered'[v])
    BY <2>2, <2>3 DEF AccountInv, Current, Agrees
  <2>. QED BY <2>4 DEF Current, Agrees
<1>15. ASSUME NEW q \in Requests, Directory!RevokeLate(q)
      PROVE  Current'
  BY <1>15 DEF AccountInv, AccountTypes, CallOK, Current, Works, Under, Calls, Hashing, Joins,
     Future, Lands, Agrees, Directory!RevokeLate
<1>16. ASSUME NEW q \in Requests, Directory!Revoked(q)
      PROVE  Current'
  <2>1. CASE accountRequest[q].row = None
    <3>1. /\ accountRequest' = [accountRequest EXCEPT ![q] = Directory!NoRequest]
          /\ UNCHANGED <<accountTable, accountQueue, accountMemory, accountWriting,
                         accountAnswered, accountExcused,
                         accountUsed, accountChanges>>
      BY <1>16, <2>1 DEF Directory!Revoked
    <3>. QED BY <3>1 DEF AccountInv, Current, Agrees, Future, Lands
  <2>2. CASE accountRequest[q].row # None
    BY <1>16, <2>2, RevokedIs, AdoptsCurrent, IdleIsOK DEF AccountInv
  <2>. QED BY <2>1, <2>2
<1>17. ASSUME NEW r \in Processes, Directory!BeginReplace(r)
      PROVE  Current'
  <2>1. UNCHANGED <<accountMemory, accountAnswered, accountExcused>>
    BY <1>17 DEF Directory!BeginReplace
  <2>2. ASSUME NEW s \in Processes, NEW v \in Users \ accountExcused'
        PROVE  Agrees(accountMemory'[s][v], accountAnswered'[v]) /\ Agrees(Future(s, v)',
               accountAnswered'[v])
    <3>1. s = r
      BY DEF OneProcess
    <3>2. Future(s, v)' = Future(s, v)
      BY <1>17, <3>1, BeginIs
    <3>. QED BY <2>1, <3>2 DEF AccountInv, Current
  <2>. QED BY <2>2 DEF Current, Agrees
<1>18. ASSUME NEW r \in Processes, Directory!CommitReplace(r)
      PROVE  Current'
  <2>1. /\ accountTable' = accountWriting[r].rows /\ accountWriting[r] # None
           /\ accountWriting'[r] = None
        /\ UNCHANGED <<accountMemory, accountQueue, accountAnswered, accountExcused>>
    BY <1>18 DEF Directory!CommitReplace, AccountInv, AccountTypes
  <2>2. ASSUME NEW s \in Processes, NEW v \in Users \ accountExcused'
        PROVE  Agrees(accountMemory'[s][v], accountAnswered'[v]) /\ Agrees(Future(s, v)',
               accountAnswered'[v])
    <3>1. s = r
      BY DEF OneProcess
    <3>2. Future(s, v)' = Future(s, v)
      BY <2>1, <3>1 DEF Future, Lands
    <3>. QED BY <2>1, <3>2 DEF AccountInv, Current
  <2>. QED BY <2>2 DEF Current, Agrees
<1>19. ASSUME NEW r \in Processes, Directory!FailReplace(r)
      PROVE  Current'
  BY <1>19 DEF AccountInv, AccountTypes, CallOK, Current, Works, Under, Calls, Hashing, Joins,
     Future, Lands, Agrees, Directory!FailReplace, Directory!Answer
<1>20. ASSUME NEW r \in Processes, Directory!Restart(r)
      PROVE  Current'
  BY <1>20 DEF AccountInv, AccountTypes, CallOK, Current, Works, Under, Calls, Hashing, Joins,
     Future, Lands, Agrees, Directory!Restart
<1>21. ASSUME UNCHANGED Directory!vars
      PROVE  Current'
  BY <1>21 DEF AccountInv, AccountTypes, CallOK, Current, Works, Under, Calls, Hashing, Joins,
     Future, Lands, Agrees, Directory!vars
<1>. QED BY <1>1, <1>2, <1>3, <1>4, <1>5, <1>6, <1>7, <1>8, <1>9, <1>10, <1>11, <1>12, <1>13,
         <1>14, <1>15, <1>16, <1>17, <1>18, <1>19, <1>20, <1>21 DEF Directory!Next

LEMMA WorksKept ==
  ASSUME AccountInv, OneProcess, [Directory!Next]_(Directory!vars)
  PROVE  Works'
<1>. USE AccountsFit DEF Directory!AccountsAssumption, Directory!At, Directory!End,
     Directory!NoRequest, Directory!history, Directory!bounds
<1>1. ASSUME NEW q \in Requests, NEW r \in Processes, NEW u \in Users, Directory!Ask(q, r, u)
      PROVE  Works'
  BY <1>1 DEF AccountInv, AccountTypes, CallOK, Current, Works, Under, Calls, Hashing, Joins,
     Agrees, Directory!Ask
<1>2. ASSUME NEW q \in Requests, NEW r \in Processes, NEW u \in Users, Directory!StartReset(q, r,
      u)
      PROVE  Works'
  BY <1>2 DEF AccountInv, AccountTypes, CallOK, Current, Works, Under, Calls, Hashing, Joins,
     Agrees, Directory!StartReset, Directory!Known
<1>3. ASSUME NEW q \in Requests, NEW r \in Processes, NEW u \in Users, Directory!StartRegister(q,
      r, u)
      PROVE  Works'
  BY <1>3 DEF AccountInv, AccountTypes, CallOK, Current, Works, Under, Calls, Hashing, Joins,
     Agrees, Directory!StartRegister
<1>4. ASSUME NEW q \in Requests, Directory!Admit(q)
      PROVE  Works'
  BY <1>4, AdmitIs, AdoptsWorks
<1>5. ASSUME NEW q \in Requests, Directory!Leave(q)
      PROVE  Works'
  BY <1>5 DEF AccountInv, AccountTypes, CallOK, Current, Works, Under, Calls, Hashing, Joins,
     Agrees, Directory!Leave
<1>6. ASSUME NEW q \in Requests, Directory!RecordLogin(q)
      PROVE  Works'
  BY <1>6 DEF AccountInv, AccountTypes, CallOK, Current, Works, Under, Calls, Hashing, Joins,
     Agrees, Directory!RecordLogin, Directory!Known
<1>7. ASSUME NEW q \in Requests, NEW u \in Users, Directory!StartRemove(q, u)
      PROVE  Works'
  BY <1>7 DEF AccountInv, AccountTypes, CallOK, Current, Works, Under, Calls, Hashing, Joins,
     Agrees, Directory!StartRemove, Directory!Known
<1>8. ASSUME NEW q \in Requests, NEW u \in Users, NEW role \in {"owner", "user"},
      Directory!SetRole(q, u, role)
      PROVE  Works'
  <2>1. PICK r \in Processes, n, a \in Directory!Records \cup {None} :
          Changed(r, u, n, a) /\ n # None /\ (a = None <=> accountAnswered[u] = None)
    BY <1>8, SetRoleIs
  <2>2. accountRequest' = [accountRequest EXCEPT ![q] = Directory!NoRequest]
    BY <1>8 DEF Directory!SetRole
  <2>. QED BY <2>1, <2>2, IdleIsOK, ChangedWorks DEF CallOK
<1>9. ASSUME NEW q \in Requests, Directory!StartChange(q)
      PROVE  Works'
  BY <1>9 DEF AccountInv, AccountTypes, CallOK, Current, Works, Under, Calls, Hashing, Joins,
     Agrees, Directory!StartChange, Directory!Known
<1>10. ASSUME NEW q \in Requests, Directory!ChangePassword(q)
      PROVE  Works'
  <2>1. PICK r \in Processes, u \in Users, n, a \in Directory!Records \cup {None} :
          /\ r = accountRequest[q].at /\ Changed(r, u, n, a)
          /\ n = None => accountMemory[r][u] = None
          /\ a = None <=> accountAnswered[u] = None
    BY <1>10, PasswordIs
  <2>2. PICK c : c = Directory!NoRequest
    OBVIOUS
  <2>3. c \in Calls /\ c.pc \notin {"changing", "resetting", "registering"} /\ ~c.held
    BY <2>1, <2>2, IdleIsOK DEF CallOK, Calls, Directory!Points
  <2>4. accountRequest' = [accountRequest EXCEPT ![q] = c]
    BY <1>10, <2>2 DEF Directory!ChangePassword
  <2>. QED BY <2>1, <2>3, <2>4, ChangedWorks
<1>11. ASSUME NEW q \in Requests, Directory!ResetPassword(q)
      PROVE  Works'
  <2>1. PICK r \in Processes, u \in Users, n, a \in Directory!Records \cup {None} :
          /\ r = accountRequest[q].at /\ Changed(r, u, n, a)
          /\ n = None => accountMemory[r][u] = None
          /\ a = None <=> accountAnswered[u] = None
    BY <1>11, PasswordIs
  <2>2. PICK c : c = [Directory!NoRequest EXCEPT !.pc = "saving", !.at = accountRequest[q].at]
    OBVIOUS
  <2>3. c \in Calls /\ c.pc \notin {"changing", "resetting", "registering"} /\ ~c.held
    BY <2>1, <2>2 DEF CallOK, Calls, Directory!Points
  <2>4. accountRequest' = [accountRequest EXCEPT ![q] = c]
    BY <1>11, <2>2 DEF Directory!ResetPassword
  <2>. QED BY <2>1, <2>3, <2>4, ChangedWorks
<1>12. ASSUME NEW q \in Requests, Directory!Register(q)
      PROVE  Works'
  BY <1>12 DEF AccountInv, AccountTypes, CallOK, Current, Works, Under, Calls, Hashing, Joins,
     Agrees, Directory!Register
<1>13. ASSUME NEW q \in Requests, Directory!Remove(q)
      PROVE  Works'
  <2>1. CASE ~(Under(q) \in Directory!Known(accountRequest[q].at)
               /\ Directory!Owners(accountRequest[q].at) # {Under(q)})
    <3>1. /\ accountRequest' = [accountRequest EXCEPT ![q] = Directory!NoRequest]
          /\ UNCHANGED <<accountMemory, accountAnswered, accountExcused, accountUsed>>
      BY <1>13, <2>1 DEF Directory!Remove, Under
    <3>. QED BY <3>1 DEF AccountInv, AccountTypes, Works, Hashing, Joins, Under
  <2>2. CASE Under(q) \in Directory!Known(accountRequest[q].at)
             /\ Directory!Owners(accountRequest[q].at) # {Under(q)}
    <3>1. PICK r \in Processes, u \in Users :
            /\ Changed(r, u, None, None)
            /\ accountRequest'
               = Directory!Dropped([accountRequest EXCEPT ![q] = Directory!NoRequest], r, u)
      BY <1>13, <2>2, RemoveIs
    <3>. QED BY <3>1, RemovedWorks
  <2>. QED BY <2>1, <2>2
<1>14. ASSUME NEW q \in Requests, Directory!Revoke(q)
      PROVE  Works'
  <2>1. UNCHANGED <<accountMemory, accountAnswered, accountExcused, accountUsed>>
    BY <1>14 DEF Directory!Revoke
  <2>2. PICK c : accountRequest' = [accountRequest EXCEPT ![q] = c] /\ c.pc \in {"revoking",
             "revoked"} /\ ~c.held
    <3>1. PICK d \in Calls : d = accountRequest[q] /\ ~d.held
      BY <1>14 DEF Directory!Revoke, AccountInv, AccountTypes, Works, Hashing
    <3>2. PICK x : x = accountTable'[d.user]
      OBVIOUS
    <3>3. \/ accountRequest' = [accountRequest EXCEPT ![q] = Stands(d, "revoking", None)]
          \/ accountRequest' = [accountRequest EXCEPT ![q] = Stands(d, "revoked", x)]
      BY <1>14, <3>1, <3>2 DEF Directory!Revoke, Stands
    <3>4. PICK c : /\ accountRequest' = [accountRequest EXCEPT ![q] = c]
                   /\ c = Stands(d, "revoking", None) \/ c = Stands(d, "revoked", x)
      BY <3>3
    <3>5. c.pc \in {"revoking", "revoked"} /\ c.held = d.held
      BY <3>4 DEF Stands, Calls
    <3>. QED BY <3>1, <3>4, <3>5
  <2>. QED BY <2>1, <2>2 DEF AccountInv, AccountTypes, Works, Hashing, Joins, Under
<1>15. ASSUME NEW q \in Requests, Directory!RevokeLate(q)
      PROVE  Works'
  BY <1>15 DEF AccountInv, AccountTypes, CallOK, Current, Works, Under, Calls, Hashing, Joins,
     Agrees, Directory!RevokeLate
<1>16. ASSUME NEW q \in Requests, Directory!Revoked(q)
      PROVE  Works'
  <2>1. CASE accountRequest[q].row = None
    <3>1. /\ accountRequest' = [accountRequest EXCEPT ![q] = Directory!NoRequest]
          /\ UNCHANGED <<accountTable, accountQueue, accountMemory, accountWriting,
                         accountAnswered, accountExcused,
                         accountUsed, accountChanges>>
      BY <1>16, <2>1 DEF Directory!Revoked
    <3>. QED BY <3>1 DEF AccountInv, AccountTypes, Works, Hashing, Joins, Under
  <2>2. CASE accountRequest[q].row # None
    BY <1>16, <2>2, RevokedIs, AdoptsWorks, IdleIsOK
  <2>. QED BY <2>1, <2>2
<1>17. ASSUME NEW r \in Processes, Directory!BeginReplace(r)
      PROVE  Works'
  BY <1>17 DEF AccountInv, AccountTypes, CallOK, Current, Works, Under, Calls, Hashing, Joins,
     Agrees, Directory!BeginReplace
<1>18. ASSUME NEW r \in Processes, Directory!CommitReplace(r)
      PROVE  Works'
  BY <1>18 DEF AccountInv, AccountTypes, CallOK, Current, Works, Under, Calls, Hashing, Joins,
     Agrees, Directory!CommitReplace, Directory!Answer
<1>19. ASSUME NEW r \in Processes, Directory!FailReplace(r)
      PROVE  Works'
  BY <1>19 DEF AccountInv, AccountTypes, CallOK, Current, Works, Under, Calls, Hashing, Joins,
     Agrees, Directory!FailReplace, Directory!Answer
<1>20. ASSUME NEW r \in Processes, Directory!Restart(r)
      PROVE  Works'
  BY <1>20 DEF AccountInv, AccountTypes, CallOK, Current, Works, Under, Calls, Hashing, Joins,
     Agrees, Directory!Restart
<1>21. ASSUME UNCHANGED Directory!vars
      PROVE  Works'
  BY <1>21 DEF AccountInv, AccountTypes, CallOK, Current, Works, Under, Calls, Hashing, Joins,
     Agrees, Directory!vars
<1>. QED BY <1>1, <1>2, <1>3, <1>4, <1>5, <1>6, <1>7, <1>8, <1>9, <1>10, <1>11, <1>12, <1>13,
         <1>14, <1>15, <1>16, <1>17, <1>18, <1>19, <1>20, <1>21 DEF Directory!Next

LEMMA OwnedKept ==
  ASSUME AccountInv, OneProcess, [Directory!Next]_(Directory!vars)
  PROVE  Owned'
<1>. USE AccountsFit DEF Directory!AccountsAssumption, Directory!At, Directory!End,
     Directory!NoRequest, Directory!history, Directory!bounds
<1>1. ASSUME NEW q \in Requests, NEW r \in Processes, NEW u \in Users, Directory!Ask(q, r, u)
      PROVE  Owned'
  BY <1>1 DEF AccountInv, AccountTypes, Current, Works, Owned, Under, Calls, Joins, Agrees,
     Directory!Ask
<1>2. ASSUME NEW q \in Requests, NEW r \in Processes, NEW u \in Users, Directory!StartReset(q, r,
      u)
      PROVE  Owned'
  BY <1>2 DEF AccountInv, AccountTypes, Current, Works, Owned, Under, Calls, Joins, Agrees,
     Directory!StartReset, Directory!Known
<1>3. ASSUME NEW q \in Requests, NEW r \in Processes, NEW u \in Users, Directory!StartRegister(q,
      r, u)
      PROVE  Owned'
  BY <1>3 DEF AccountInv, AccountTypes, Current, Works, Owned, Under, Calls, Joins, Agrees,
     Directory!StartRegister
<1>4. ASSUME NEW q \in Requests, Directory!Admit(q)
      PROVE  Owned'
  BY <1>4, AdmitIs, AdoptsOwned DEF AccountInv
<1>5. ASSUME NEW q \in Requests, Directory!Leave(q)
      PROVE  Owned'
  BY <1>5 DEF AccountInv, AccountTypes, Current, Works, Owned, Under, Calls, Joins, Agrees,
     Directory!Leave
<1>6. ASSUME NEW q \in Requests, Directory!RecordLogin(q)
      PROVE  Owned'
  BY <1>6 DEF AccountInv, AccountTypes, Current, Works, Owned, Under, Calls, Joins, Agrees,
     Directory!RecordLogin, Directory!Known
<1>7. ASSUME NEW q \in Requests, NEW u \in Users, Directory!StartRemove(q, u)
      PROVE  Owned'
  BY <1>7 DEF AccountInv, AccountTypes, Current, Works, Owned, Under, Calls, Joins, Agrees,
     Directory!StartRemove, Directory!Known
<1>8. ASSUME NEW q \in Requests, NEW u \in Users, NEW role \in {"owner", "user"},
      Directory!SetRole(q, u, role)
      PROVE  Owned'
  <2>1. PICK r \in Processes, n, a \in Directory!Records \cup {None} :
          /\ Changed(r, u, n, a) /\ (a = None <=> accountAnswered[u] = None)
             /\ (a # None => a.role = role)
          /\ role = "user" => Directory!Owners(r) # {u}
    BY <1>8, SetRoleIs
  <2>2. (a # None /\ a.role = "owner") \/ accountAnswered[u] = None \/ role = "user"
    BY <2>1
  <2>3. CASE role = "user"
    BY <2>1, <2>3, NotLastOwner, ChangedOwned DEF AccountInv
  <2>. QED BY <2>1, <2>2, <2>3, ChangedOwned DEF AccountInv
<1>9. ASSUME NEW q \in Requests, Directory!StartChange(q)
      PROVE  Owned'
  BY <1>9 DEF AccountInv, AccountTypes, Current, Works, Owned, Under, Calls, Joins, Agrees,
     Directory!StartChange, Directory!Known
<1>10. ASSUME NEW q \in Requests, Directory!ChangePassword(q)
      PROVE  Owned'
  <2>1. PICK r \in Processes, u \in Users, n, a \in Directory!Records \cup {None} :
          /\ Changed(r, u, n, a) /\ (a = None <=> accountAnswered[u] = None)
          /\ a # None => a.role = accountAnswered[u].role
    BY <1>10, PasswordIs
  <2>. QED BY <2>1, ChangedOwned DEF AccountInv
<1>11. ASSUME NEW q \in Requests, Directory!ResetPassword(q)
      PROVE  Owned'
  <2>1. PICK r \in Processes, u \in Users, n, a \in Directory!Records \cup {None} :
          /\ Changed(r, u, n, a) /\ (a = None <=> accountAnswered[u] = None)
          /\ a # None => a.role = accountAnswered[u].role
    BY <1>11, PasswordIs
  <2>. QED BY <2>1, ChangedOwned DEF AccountInv
<1>12. ASSUME NEW q \in Requests, Directory!Register(q)
      PROVE  Owned'
  BY <1>12 DEF AccountInv, AccountTypes, Current, Works, Owned, Under, Calls, Joins, Agrees,
     Directory!Register
<1>13. ASSUME NEW q \in Requests, Directory!Remove(q)
      PROVE  Owned'
  <2>1. CASE ~(Under(q) \in Directory!Known(accountRequest[q].at)
               /\ Directory!Owners(accountRequest[q].at) # {Under(q)})
    <3>1. UNCHANGED <<accountAnswered, accountExcused>>
      BY <1>13, <2>1 DEF Directory!Remove, Under
    <3>. QED BY <3>1 DEF AccountInv, Owned
  <2>2. CASE Under(q) \in Directory!Known(accountRequest[q].at)
             /\ Directory!Owners(accountRequest[q].at) # {Under(q)}
    BY <1>13, <2>2, RemoveIs, NotLastOwner, ChangedOwned DEF AccountInv
  <2>. QED BY <2>1, <2>2
<1>14. ASSUME NEW q \in Requests, Directory!Revoke(q)
      PROVE  Owned'
  BY <1>14 DEF AccountInv, AccountTypes, Current, Works, Owned, Under, Calls, Joins, Agrees,
     Directory!Revoke, Directory!Known
<1>15. ASSUME NEW q \in Requests, Directory!RevokeLate(q)
      PROVE  Owned'
  BY <1>15 DEF AccountInv, AccountTypes, Current, Works, Owned, Under, Calls, Joins, Agrees,
     Directory!RevokeLate
<1>16. ASSUME NEW q \in Requests, Directory!Revoked(q)
      PROVE  Owned'
  <2>1. CASE accountRequest[q].row = None
    <3>1. /\ accountRequest' = [accountRequest EXCEPT ![q] = Directory!NoRequest]
          /\ UNCHANGED <<accountTable, accountQueue, accountMemory, accountWriting,
                         accountAnswered, accountExcused,
                         accountUsed, accountChanges>>
      BY <1>16, <2>1 DEF Directory!Revoked
    <3>. QED BY <3>1 DEF AccountInv, Owned
  <2>2. CASE accountRequest[q].row # None
    BY <1>16, <2>2, RevokedIs, AdoptsOwned, IdleIsOK DEF AccountInv
  <2>. QED BY <2>1, <2>2
<1>17. ASSUME NEW r \in Processes, Directory!BeginReplace(r)
      PROVE  Owned'
  BY <1>17 DEF AccountInv, AccountTypes, Current, Works, Owned, Under, Calls, Joins, Agrees,
     Directory!BeginReplace
<1>18. ASSUME NEW r \in Processes, Directory!CommitReplace(r)
      PROVE  Owned'
  BY <1>18 DEF AccountInv, AccountTypes, Current, Works, Owned, Under, Calls, Joins, Agrees,
     Directory!CommitReplace, Directory!Answer
<1>19. ASSUME NEW r \in Processes, Directory!FailReplace(r)
      PROVE  Owned'
  BY <1>19 DEF AccountInv, AccountTypes, Current, Works, Owned, Under, Calls, Joins, Agrees,
     Directory!FailReplace, Directory!Answer
<1>20. ASSUME NEW r \in Processes, Directory!Restart(r)
      PROVE  Owned'
  BY <1>20 DEF AccountInv, AccountTypes, Current, Works, Owned, Under, Calls, Joins, Agrees,
     Directory!Restart
<1>21. ASSUME UNCHANGED Directory!vars
      PROVE  Owned'
  BY <1>21 DEF AccountInv, AccountTypes, Current, Works, Owned, Under, Calls, Joins, Agrees,
     Directory!vars
<1>. QED BY <1>1, <1>2, <1>3, <1>4, <1>5, <1>6, <1>7, <1>8, <1>9, <1>10, <1>11, <1>12, <1>13,
         <1>14, <1>15, <1>16, <1>17, <1>18, <1>19, <1>20, <1>21 DEF Directory!Next

LEMMA AccountsKept ==
  ASSUME AccountInv, OneProcess, [Directory!Next]_(Directory!vars)
  PROVE  AccountInv'
BY AccountTypesKept, CurrentKept, WorksKept, OwnedKept DEF AccountInv

LEMMA AccountsStand ==
  ASSUME AccountInv, OneProcess
  PROVE  Directory!ChangesStand /\ Directory!OwnerRemains
<1>1. PICK r : Processes = {r}
  BY DEF OneProcess
<1>. SUFFICES ASSUME Directory!Saved PROVE Directory!ChangesStand /\ Directory!OwnerRemains
  BY DEF Directory!ChangesStand, Directory!OwnerRemains
<1>2. ASSUME NEW u \in Users \ accountExcused PROVE Agrees(accountTable[u], accountAnswered[u])
  <2>1. Future(r, u) = accountTable[u]
    BY <1>1 DEF Directory!Saved, Future
  <2>. QED BY <1>1, <2>1 DEF AccountInv, Current
<1>3. Directory!ChangesStand
  BY <1>2 DEF Directory!ChangesStand, Directory!Matches, Agrees
<1>4. Directory!OwnerRemains
  <2>. SUFFICES ASSUME accountExcused = {}
       PROVE  \E u \in Users : accountTable[u] # None /\ accountTable[u].role = "owner"
    BY DEF Directory!OwnerRemains
  <2>1. PICK u \in Users : accountAnswered[u] # None /\ accountAnswered[u].role = "owner"
    BY DEF AccountInv, Owned
  <2>. QED BY <1>2, <2>1 DEF Agrees
<1>. QED BY <1>3, <1>4

\* For one API process and any accounts, requests, saves that wait, failed
\* writes and restarts: once every save is written, the table has each account
\* as the requests answered so far left it, unless it was read again under a
\* change or a write was lost; and while none was, some account is an owner.
THEOREM AccountsSoundAlways ==
  ASSUME OneProcess
  PROVE  PanelSpec => []AccountsSound
<1>. DEFINE I == part = "accounts" => AccountInv
<1>1. PanelInit => I
  BY AccountInit DEF PanelInit
<1>2. I /\ [PanelNext]_panelVars => I'
  BY AccountsKept, PartMoves
<1>3. I => AccountsSound
  BY AccountsStand DEF AccountsSound
<1>. QED BY <1>1, <1>2, <1>3, PTL DEF PanelSpec

=============================================================================
