------------------------------ MODULE EggCatalog ------------------------------
(***************************************************************************)
(* Eggs and the nests they are filed under.  EggsService changes its two   *)
(* maps at once and saves each as a whole, without waiting; DatabaseService *)
(* writes the saves of one table one after another (replaceCollection).    *)
(* An egg from outside may name a nest, which is made when it is missing:  *)
(* on import, and again whenever the stored egg is read anew.              *)
(* One API process over PostgreSQL that never used the JSON store.         *)
(***************************************************************************)
EXTENDS Naturals, Sequences, SequencesExt

CONSTANTS
  Eggs,        \* ids of eggs
  Nests,       \* ids of nests
  Default,     \* DEFAULT_NEST_ID, one of Nests
  Named,       \* Named[e]: the nest that the file of egg e names, or None
  Category,    \* the nest of the catalog entries
  Partial,     \* eggs that needsHydration() never finds complete
  None,
  MaxOps, MaxFaults

EggCatalogAssumption ==
  /\ {Default, Category} \subseteq Nests
  /\ Named \in [Eggs -> Nests \cup {None}]
  /\ Partial \subseteq Eggs
  /\ MaxOps \in Nat /\ MaxFaults \in Nat

VARIABLES
  up,
  eggs,        \* EggsService.eggs: the nest and the making of each egg, or None
  nests,       \* EggsService.nests
  eggRows, nestRows,     \* the tables
  eggSaves, nestSaves,   \* collectionQueues: what the saves that wait will write
  stale,       \* history: the tables whose last save failed
  download,    \* catalog eggs that are being downloaded
  ops, faults

vars == <<up, eggs, nests, eggRows, nestRows, eggSaves, nestSaves, stale, download, ops, faults>>
rows == <<eggRows, nestRows, stale>>

Known == {e \in Eggs : eggs[e] # None}
Nothing == [e \in Eggs |-> None]
Op == up /\ ops < MaxOps /\ ops' = ops + 1
Fault == faults < MaxFaults /\ faults' = faults + 1

\* An egg is replaced by a new object, whose making tells it from the old one;
\* a save that waits refers to the objects, and sees what is changed in them.
Egg(nest) == [nest |-> nest, made |-> ops]
Refile(es, changes) ==
  [e \in Eggs |-> IF es[e] # None /\ e \in DOMAIN changes /\ changes[e].made = es[e].made THEN changes[e] ELSE es[e]]

SaveEggs(es) == eggSaves' = Append(eggSaves, es)
\* saveNests(), when one is needed.
SaveNests(needed) == nestSaves' = IF needed THEN Append(nestSaves, nests') ELSE nestSaves

\* resolveNestId(): the nest that an egg names, made when it is missing.
NestOf(e) == IF Named[e] = None THEN Default ELSE Named[e]
Ensure(ns) == nests' = nests \cup ns /\ SaveNests(~(ns \subseteq nests))

-----------------------------------------------------------------------------
(* Eggs. *)

\* import() and importMany(): all are normalized before the first is kept.
ImportMany(es) ==
  /\ Op /\ es # {}
  /\ Ensure({NestOf(e) : e \in es})
  /\ eggs' = [e \in Eggs |-> IF e \in es THEN Egg(NestOf(e)) ELSE eggs[e]]
  /\ SaveEggs(eggs')
  /\ UNCHANGED <<up, download, faults, rows>>

\* A batch that is refused (an egg without images, an id that comes twice) has
\* made the nests of the eggs before.
ImportRefused(es) ==
  /\ Op /\ es # {}
  /\ Ensure({NestOf(e) : e \in es})
  /\ UNCHANGED <<up, eggs, eggSaves, download, faults, rows>>

RemoveEgg(e) ==
  /\ Op /\ e \in Known
  /\ eggs' = [eggs EXCEPT ![e] = None]
  /\ SaveEggs(eggs')
  /\ UNCHANGED <<up, nests, nestSaves, download, faults, rows>>

\* get(): an egg that looks incomplete is made again from its file each time.
Rehydrate(e) ==
  /\ Op /\ e \in Known \cap Partial
  /\ Ensure({NestOf(e)})
  /\ eggs' = [eggs EXCEPT ![e] = Egg(@.nest)]
  /\ SaveEggs(eggs')
  /\ UNCHANGED <<up, download, faults, rows>>

\* installCatalog(): the nest is there before the download ...
StartInstall(e) ==
  /\ Op /\ e \notin Known \cup download
  /\ Ensure({Category})
  /\ download' = download \cup {e}
  /\ UNCHANGED <<up, eggs, eggSaves, faults, rows>>

\* ... and may be gone after it.
FinishInstall(e) ==
  /\ Op /\ e \in download
  /\ download' = download \ {e}
  /\ Ensure({NestOf(e)})
  /\ eggs' = [eggs EXCEPT ![e] = Egg(Category)]
  /\ SaveEggs(eggs')
  /\ UNCHANGED <<up, faults, rows>>

InstallFails(e) ==
  /\ up /\ Fault /\ e \in download
  /\ download' = download \ {e}
  /\ UNCHANGED <<up, eggs, nests, eggSaves, nestSaves, ops, rows>>

-----------------------------------------------------------------------------
(* Nests. *)

CreateNest(n) ==
  /\ Op /\ n \notin nests
  /\ nests' = nests \cup {n} /\ SaveNests(TRUE)
  /\ UNCHANGED <<up, eggs, eggSaves, download, faults, rows>>

\* Objects of eggs that are given another nest, and all that refer to them.
Moved(changes) == eggs' = Refile(eggs, changes)
MovedSaves(changes) == [i \in DOMAIN eggSaves |-> Refile(eggSaves[i], changes)]

\* removeNest(): its eggs go to the default nest; two saves.
RemoveNest(n) ==
  LET changes == [e \in {e \in Known : eggs[e].nest = n} |-> [eggs[e] EXCEPT !.nest = Default]] IN
  /\ Op /\ n \in nests \ {Default}
  /\ nests' = nests \ {n} /\ SaveNests(TRUE)
  /\ Moved(changes)
  /\ eggSaves' = Append(MovedSaves(changes), eggs')
  /\ UNCHANGED <<up, download, faults, rows>>

AssignNest(e, n) ==
  LET changes == [f \in {e} |-> [eggs[f] EXCEPT !.nest = n]] IN
  /\ Op /\ e \in Known /\ n \in nests
  /\ Moved(changes)
  /\ eggSaves' = Append(MovedSaves(changes), eggs')
  /\ UNCHANGED <<up, nests, nestSaves, download, faults, rows>>

-----------------------------------------------------------------------------
(* Saves, crashes and starts. *)

\* Seeded fault: a save does not wait for the one before it.
Turn_Any(i, q) == i \in DOMAIN q
\* replaceCollection(): each save of a table waits for the one before.
Turn(i, q) == i \in DOMAIN q /\ i = 1

WriteEggs(i) ==
  /\ up /\ Turn(i, eggSaves)
  /\ eggSaves' = RemoveAt(eggSaves, i)
  /\ \/ eggRows' = eggSaves[i] /\ stale' = stale \ {"eggs"} /\ UNCHANGED faults
     \/ Fault /\ stale' = stale \cup {"eggs"} /\ UNCHANGED eggRows
  /\ UNCHANGED <<up, eggs, nests, nestRows, nestSaves, download, ops>>

WriteNests(i) ==
  /\ up /\ Turn(i, nestSaves)
  /\ nestSaves' = RemoveAt(nestSaves, i)
  /\ \/ nestRows' = nestSaves[i] /\ stale' = stale \ {"nests"} /\ UNCHANGED faults
     \/ Fault /\ stale' = stale \cup {"nests"} /\ UNCHANGED nestRows
  /\ UNCHANGED <<up, eggs, nests, eggRows, eggSaves, download, ops>>

\* Saves that wait are lost with the process.
Crash ==
  /\ up /\ Fault
  /\ up' = FALSE
  /\ eggs' = Nothing /\ nests' = {} /\ eggSaves' = <<>> /\ nestSaves' = <<>> /\ download' = {}
  /\ UNCHANGED <<eggRows, nestRows, stale, ops>>

\* onModuleInit(): an empty table of nests is filled with the default one.  The
\* stored eggs are read anew, which may make nests that were removed.
Start ==
  /\ ~up /\ up' = TRUE
  /\ nestRows' = IF nestRows = {} THEN {Default} ELSE nestRows
  /\ eggs' = eggRows
  /\ LET named == {NestOf(e) : e \in {e \in Eggs : eggRows[e] # None}} IN
     /\ nests' = nestRows' \cup {Default} \cup named
     /\ SaveNests(~(named \subseteq nestRows' \cup {Default}))
  /\ stale' = {}
  /\ UNCHANGED <<eggRows, eggSaves, download, ops, faults>>

Init ==
  /\ up = FALSE
  /\ eggs = Nothing /\ nests = {}
  /\ eggRows = Nothing /\ nestRows = {}
  /\ eggSaves = <<>> /\ nestSaves = <<>>
  /\ stale = {} /\ download = {}
  /\ ops = 0 /\ faults = 0

Next ==
  \/ \E es \in SUBSET Eggs : ImportMany(es) \/ ImportRefused(es)
  \/ \E e \in Eggs :
       \/ RemoveEgg(e) \/ Rehydrate(e) \/ StartInstall(e) \/ FinishInstall(e) \/ InstallFails(e)
       \/ \E n \in Nests : AssignNest(e, n)
  \/ \E n \in Nests : CreateNest(n) \/ RemoveNest(n)
  \/ \E i \in DOMAIN eggSaves : WriteEggs(i)
  \/ \E i \in DOMAIN nestSaves : WriteNests(i)
  \/ Crash \/ Start

Spec == Init /\ [][Next]_vars

-----------------------------------------------------------------------------
(* Properties. *)

\* Eggs have nests by name, and tables have rows of the kinds they hold.
TypeOK ==
  /\ \A e \in Known : eggs[e].nest \in Nests
  /\ nests \subseteq Nests /\ nestRows \subseteq Nests /\ (up => Default \in nests)
  /\ stale \subseteq {"eggs", "nests"} /\ download \subseteq Eggs
  /\ ops \in 0..MaxOps /\ faults \in 0..MaxFaults

\* Saves that nobody waits for still leave the tables as the memory is: once no
\* save of a table waits, and unless the last one failed, a restart would find
\* what the panel shows.
TablesFollow ==
  up => /\ eggSaves = <<>> /\ "eggs" \notin stale => eggRows = eggs
        /\ nestSaves = <<>> /\ "nests" \notin stale => nestRows = nests

\* An egg is filed under a nest that exists.  A nest removed during a download,
\* and a crash between the two saves of removeNest(), break it: such an egg is
\* shown under the default nest and counted under none.
EggsHaveNests == up => \A e \in Known : eggs[e].nest \in nests
===============================================================================
