---------------------------- MODULE VersionInstall ----------------------------
(***************************************************************************)
(* Installing the JAR of another version.  Lists of versions and builds are*)
(* asked of upstream and cached, in every replica and in the database; the *)
(* JAR is chosen from them, the server is stopped, the JAR uploaded, the   *)
(* variables that name it are saved, and the server is started again.  What*)
(* upstream says is known by its edition (0: not JSON); versions and builds*)
(* are numbers, and Latest is offered where there is no list.              *)
(***************************************************************************)
EXTENDS Integers, Sequences, FiniteSets, Functions, TLC

CONSTANTS
  None, Replicas,
  Providers,   \* of eggs, each with a way of its own to list or to install
  Editions,    \* the versions and, for each, its builds, as published
  Wishes,      \* requests: browse or install, a version, a build or None
  Lifetime,    \* ticks for which a document is kept
  MaxTicks, MaxFaults, MaxStarts

FromTheEnd(list) == [i \in DOMAIN list |-> list[(Len(list) + 1) - i]]

\* Every version that is listed has builds, or an empty list of them.
VersionInstallAssumption ==
  /\ Providers \subseteq {"vanilla", "paper", "purpur", "forge", "mohist"}
  /\ \A wish \in Wishes : wish.kind \in {"browse", "install"}
  /\ \A e \in DOMAIN Editions : LET doc == Editions[e] IN
       \A list \in {doc.versions, FromTheEnd(doc.versions), SortSeq(doc.versions, >)} :
         list \in Seq(DOMAIN doc.builds)
  /\ Lifetime \in Nat \ {0} /\ {MaxTicks, MaxFaults, MaxStarts} \subseteq Nat

VARIABLES
  provider,    \* of the server's egg
  edition, now,
  memory, row, \* cached documents: the edition, when it came, when it expires
  job,         \* of each replica
  server,      \* running, its databases running, the JAR, the variables, what people want
  used,        \* history: when the document read last had come, and when it was read
  excused,     \* history: what keeps the properties from holding
  faults, starts

catalogVars == <<provider, edition, now, memory, row, used>>
vars == <<provider, edition, now, memory, row, job, server, used, excused, faults, starts>>

Latest == 0
All == -1
Works == UNCHANGED <<faults, excused>>
Fails(excuse) == faults < MaxFaults /\ faults' = faults + 1 /\ excused' = excused \cup excuse
Idle == [stage |-> "idle"]   \* of a replica without a job
Busy(r) == job[r].stage # "idle"
At(r, stage) == job[r].stage = stage
Goes(r, j) == job' = [job EXCEPT ![r] = j]
Begin(j, stage) == [j EXCEPT !.stage = stage, !.pc = "look"]

-----------------------------------------------------------------------------
(* Lists. *)

\* versionsFor(): Forge by number, Mohist and Arclight from the end, the others
\* as published.
VersionsFor(doc) ==
  CASE provider = "forge" -> SortSeq(doc.versions, >)
    [] provider = "mohist" -> FromTheEnd(doc.versions)
    [] OTHER -> doc.versions

\* buildsFor(): Paper as published, the others from the end.
HasBuilds == provider # "vanilla"
BuildsFor(doc, version) ==
  IF provider = "paper" THEN doc.builds[version] ELSE FromTheEnd(doc.builds[version])

\* fallbackVersions(), fallbackBuilds(): what is offered without a list.
OfferedVersions(doc) == IF doc = None THEN {Latest} ELSE Range(VersionsFor(doc))
OfferedBuilds(doc, version) == IF doc = None THEN {Latest} ELSE Range(BuildsFor(doc, version))

\* jarInstallSupported().
JarInstallSupported == provider \in {"vanilla", "paper", "purpur"}

\* The address that a stage asks: of versions, or of the builds of one.
Address(j) == IF j.stage \in {"versions", "versions2"} \/ provider = "vanilla" THEN All ELSE j.version

-----------------------------------------------------------------------------
(* What a job does with an answer, "doc" being None without one. *)

\* catalog(): the version asked for where it is offered, or else the first.
Preferred(version, list) ==
  IF version \in Range(list) THEN version ELSE IF list = <<>> THEN Latest ELSE list[1]
Browse(j, doc) ==
  IF doc = None \/ j.stage = "builds" \/ ~HasBuilds THEN Idle
  ELSE Begin([j EXCEPT !.version = Preferred(j.version, VersionsFor(doc))], "builds")

\* resolveArtifact(): a version that is offered, the build asked for or else the
\* first, and for most providers another document with its address.
Artifact(j, doc) ==
  IF doc = None THEN Idle
  ELSE CASE j.stage = "versions" ->
              IF j.version \notin OfferedVersions(doc) \/ (~HasBuilds /\ j.build # None) THEN Idle
              ELSE Begin(j, IF HasBuilds THEN "builds" ELSE "entry")
         [] j.stage = "builds" ->
              LET builds == BuildsFor(doc, j.version) IN
              IF j.build \notin OfferedBuilds(doc, j.version) \cup {None} \/ builds = <<>> THEN Idle
              ELSE Begin([j EXCEPT !.pick = IF j.build = None THEN builds[1] ELSE j.build],
                         IF provider = "purpur" THEN "versions2" ELSE "entry")
         [] j.stage = "entry" ->
              IF \/ provider = "paper" /\ j.pick \notin OfferedBuilds(doc, j.version)
                 \/ provider = "vanilla" /\ j.version \notin OfferedVersions(doc)
              THEN Idle ELSE Begin(j, "versions2")

\* resolveSelection(): both are looked up again, for the variables.  A build is
\* a variable only if it was asked for.
Selection(j, doc) ==
  LET ready == [Begin(j, IF j.wasRunning THEN "stop" ELSE "upload") EXCEPT
                  !.vars = [version |-> j.version,
                            build |-> IF HasBuilds /\ j.build # None THEN j.build ELSE j.vars.build]] IN
  CASE j.stage = "versions2" ->
         IF j.version \notin OfferedVersions(doc) THEN Idle
         ELSE IF HasBuilds /\ j.build # None THEN Begin(j, "builds2") ELSE ready
    [] j.stage = "builds2" ->
         IF j.build \notin OfferedBuilds(doc, j.version) THEN Idle ELSE ready

Decided(j, doc) ==
  CASE j.kind = "browse" -> Browse(j, doc)
    [] j.kind = "install" /\ j.stage \in {"versions", "builds", "entry"} -> Artifact(j, doc)
    [] OTHER -> Selection(j, doc)
Answered(r, doc) == Goes(r, Decided(job[r], doc))

\* requestJson(): text that is not JSON is an error, and cached all the same.
Doc(v) == IF v.edition = 0 THEN None ELSE Editions[v.edition]
Uses(r, v) == used' = [came |-> v.came, at |-> now] /\ Answered(r, Doc(v))

-----------------------------------------------------------------------------
(* requestText() *)

Asks(r, pc) ==
  /\ job[r].stage \in {"versions", "builds", "entry", "versions2", "builds2"}
  /\ job[r].pc = pc

Lookup(r) ==
  /\ Asks(r, "look")
  /\ LET v == memory[r][Address(job[r])] IN
     IF v # None /\ v.expires > now THEN Uses(r, v)
     ELSE Goes(r, [job[r] EXCEPT !.pc = "row"]) /\ UNCHANGED used
  /\ UNCHANGED <<provider, edition, now, memory, row, server, excused, faults, starts>>

\* readDatabase(): an error counts as no row.
ReadRow(r) ==
  /\ Asks(r, "row")
  /\ LET a == Address(job[r]) v == row[a] IN
     \/ /\ v # None /\ v.expires > now
        /\ memory' = [memory EXCEPT ![r][a] = v] /\ Uses(r, v) /\ Works
     \/ /\ IF v # None /\ v.expires > now THEN Fails({}) ELSE Works
        /\ Goes(r, [job[r] EXCEPT !.pc = "fetch"]) /\ UNCHANGED <<memory, used>>
  /\ UNCHANGED <<provider, edition, now, row, server, starts>>

\* fetch(): upstream answers, or not.
Fetch(r) ==
  /\ Asks(r, "fetch")
  /\ LET a == Address(job[r]) v == [edition |-> edition, came |-> now, expires |-> now + Lifetime] IN
     \/ /\ memory' = [memory EXCEPT ![r][a] = v]
        /\ Goes(r, [job[r] EXCEPT !.pc = "save", !.got = v]) /\ Works
     \/ Fails({}) /\ Answered(r, None) /\ UNCHANGED memory
  /\ UNCHANGED <<provider, edition, now, row, server, used, starts>>

\* writeDatabase(): or an error, which is no matter.
SaveRow(r) ==
  /\ Asks(r, "save")
  /\ LET v == job[r].got IN
     /\ \/ row' = [row EXCEPT ![Address(job[r])] = v] /\ Works
        \/ Fails({}) /\ UNCHANGED row
     /\ used' = [came |-> v.came, at |-> v.came] /\ Answered(r, Doc(v))
  /\ UNCHANGED <<provider, edition, now, memory, server, starts>>

-----------------------------------------------------------------------------
(* The installation. *)

\* installVersionJar(), versionCatalog(): the server is read once, here.
Ask(r, wish) ==
  /\ ~Busy(r) /\ starts < MaxStarts /\ starts' = starts + 1
  /\ wish.kind = "install" => JarInstallSupported
  /\ Goes(r, [kind |-> wish.kind, version |-> wish.version, build |-> wish.build, pick |-> None,
              stage |-> "versions", pc |-> "look", got |-> None,
              wasRunning |-> server.running, vars |-> server.vars])
  /\ excused' = excused \cup
       (IF wish.kind = "install" /\ \E p \in Replicas \ {r} : Busy(p) /\ job[p].kind = "install"
        THEN {"overlap"} ELSE {})
  /\ UNCHANGED <<catalogVars, server, faults>>

\* One call of the saga.  A call that fails may have had its effect.
Call(r, stage, effect, next, excuse, otherwise) ==
  /\ At(r, stage)
  /\ \/ server' = effect /\ Goes(r, next) /\ Works
     \/ server' \in {server, effect} /\ Goes(r, otherwise) /\ Fails(excuse)
  /\ UNCHANGED <<catalogVars, starts>>

Stop(r) ==
  Call(r, "stop", [server EXCEPT !.running = FALSE], Begin(job[r], "stopDbs"), {"power"}, Idle)
StopDbs(r) ==
  Call(r, "stopDbs", [server EXCEPT !.dbs = FALSE], Begin(job[r], "upload"), {"power"}, Idle)

\* Seeded fault: a failed installation leaves the server stopped.
Recovery_None(j) == Idle
Recovery(j) == IF j.wasRunning THEN Begin(j, "recoverDbs") ELSE Idle

\* The JAR goes to the server, then the variables to its row: all of them, as
\* read in the beginning.
Upload(r) ==
  Call(r, "upload", [server EXCEPT !.jar = [version |-> job[r].version, build |-> job[r].pick]],
       Begin(job[r], "save"), {"jar"}, Recovery(job[r]))
Save(r) ==
  Call(r, "save", [server EXCEPT !.vars = job[r].vars],
       IF job[r].wasRunning THEN Begin(job[r], "startDbs") ELSE Idle, {"jar"}, Recovery(job[r]))

StartDbs(r) ==
  Call(r, "startDbs", [server EXCEPT !.dbs = TRUE], Begin(job[r], "start"), {"power"}, Idle)
Start(r) ==
  Call(r, "start", [server EXCEPT !.running = TRUE], Idle, {"power"}, Idle)

\* After an error behind the stop; further errors are swallowed.
RecoverDbs(r) ==
  Call(r, "recoverDbs", [server EXCEPT !.dbs = TRUE], Begin(job[r], "recover"), {"power"}, Begin(job[r], "recover"))
Recover(r) ==
  Call(r, "recover", [server EXCEPT !.running = TRUE], Idle, {"power"}, Idle)

-----------------------------------------------------------------------------
(* Everybody else. *)

Tick ==
  /\ now < MaxTicks /\ now' = now + 1
  /\ UNCHANGED <<provider, edition, memory, row, job, server, used, excused, faults, starts>>

\* Upstream publishes, or answers with something that is no document.
Publish(e) ==
  /\ e # edition /\ starts < MaxStarts /\ starts' = starts + 1 /\ edition' = e
  /\ UNCHANGED <<provider, now, memory, row, job, server, used, excused, faults>>

\* Somebody starts or stops the server.
Power(on) ==
  /\ starts < MaxStarts /\ starts' = starts + 1
  /\ server' = [server EXCEPT !.running = on, !.dbs = on, !.wanted = on]
  /\ excused' = excused \cup (IF \E r \in Replicas : Busy(r) THEN {"power"} ELSE {})
  /\ UNCHANGED <<catalogVars, job, faults>>

Addresses == {All, Latest} \cup UNION {DOMAIN Editions[e].builds : e \in DOMAIN Editions}

Init ==
  /\ provider \in Providers /\ edition \in DOMAIN Editions /\ now = 0
  /\ memory = [r \in Replicas |-> [a \in Addresses |-> None]]
  /\ row = [a \in Addresses |-> None]
  /\ job = [r \in Replicas |-> Idle]
  /\ server = [running |-> TRUE, dbs |-> TRUE, wanted |-> TRUE,
               jar |-> [version |-> Latest, build |-> Latest], vars |-> [version |-> Latest, build |-> Latest]]
  /\ used = [came |-> 0, at |-> 0] /\ excused = {} /\ faults = 0 /\ starts = 0

Next ==
  \/ Tick
  \/ \E e \in DOMAIN Editions \cup {0} : Publish(e)
  \/ \E on \in BOOLEAN : Power(on)
  \/ \E r \in Replicas :
       \/ \E wish \in Wishes : Ask(r, wish)
       \/ Lookup(r) \/ ReadRow(r) \/ Fetch(r) \/ SaveRow(r)
       \/ Stop(r) \/ StopDbs(r) \/ Upload(r) \/ Save(r)
       \/ StartDbs(r) \/ Start(r) \/ RecoverDbs(r) \/ Recover(r)

Spec == Init /\ [][Next]_vars

-----------------------------------------------------------------------------
(* Properties. *)

AtRest == \A r \in Replicas : ~Busy(r)

TypeOK ==
  /\ edition \in DOMAIN Editions \cup {0} /\ now \in 0..MaxTicks /\ faults \in 0..MaxFaults
  /\ \A r \in Replicas : Busy(r) => job[r].vars.version \in Addresses \cup {Latest}

\* A list that is used is younger than its lifetime, whichever replica fetched
\* it and whatever was cached in place of it (requestText).
ListsAreFresh == used.at - used.came < Lifetime

\* The variables name the version of the JAR that is there - and its build, if
\* builds were asked for - unless installations overlapped or one broke off
\* between the JAR and the variables (installVersionJar).
NamesTheJar ==
  AtRest /\ excused \cap {"overlap", "jar"} = {} =>
    /\ server.vars.version = server.jar.version
    /\ (\A wish \in Wishes : wish.kind = "install" => wish.build # None) /\ HasBuilds => server.vars.build = server.jar.build

\* An installation leaves the server and its databases as they are wanted,
\* whether it succeeds or its upload or save fails, unless a call for that
\* failed or somebody else made one meanwhile.
PowerIsKept ==
  AtRest /\ excused \cap {"overlap", "power"} = {} =>
    server.running = server.wanted /\ server.dbs = server.wanted

InstallsSound == ListsAreFresh /\ NamesTheJar /\ PowerIsKept
===============================================================================
