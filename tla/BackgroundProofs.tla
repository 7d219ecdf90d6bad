-------------------------- MODULE BackgroundProofs --------------------------
(***************************************************************************)
(* Theorems about the work in the background: the offline engine bundles,  *)
(* the lessons and turns in memory, and all that MCBackground puts side by *)
(* side, for any number of programs, lessons, calls and revisions.  What   *)
(* is said of the fleet and of the controllers rests on FleetProofs and    *)
(* AutopilotProofs.                                                        *)
(***************************************************************************)
EXTENDS MCBackground, FleetProofs, FiniteSetTheorems

(***************************************************************************)
(* Offline bundles.  A row of builds carries what its program has checked: *)
(* what it will put in place loads, and is whole if its source was not     *)
(* swapped meanwhile; what it installs has its blobs first.                *)
(***************************************************************************)

BuildRows ==
    [pc : BuildPcs, does : Programs, from : Outputs, records : Files,
     stage : Tree, moved : Tree]

AbsentOrWhole(tree) == tree = Absent \/ Whole(tree)

\* What holds of a program whatever the others do.
ProgramOK(r) ==
    /\ r.moved # Absent => r.pc \in {"place", "clean"}
    /\ r.does = "install" => r.records.model \in r.records.blobs
    /\ r.pc \in {"aside", "place"} => Loads(r.stage)
    /\ r.does = "assemble" /\ r.pc \in {"aside", "place"} => Whole(r.stage)
    /\ r.does = "assemble" /\ r.pc = "place" => AbsentOrWhole(r.moved)

\* A program that copies an output, which holds files.
Copies(r) == r.does \in {"pack", "zip"} /\ r.pc \in {"seal", "blobs", "model", "engine"}

\* What holds of a program as long as no output was swapped under a reader:
\* what it has copied is part of the whole output from which it copies.
CopyOK(r) ==
    /\ Copies(r) => outputs[r.from] = Sealed(r.records) /\ Whole(Sealed(r.records))
    /\ r.does = "pack" /\ r.pc \in {"blobs", "model", "engine"} =>
          r.stage.seal = r.records
    /\ r.does \in {"pack", "zip"} /\ r.pc \in {"model", "engine", "check"} =>
          /\ r.stage.files.blobs = r.records.blobs
          /\ r.pc \in {"engine", "check"} => r.stage.files.model = r.records.model
          /\ r.pc = "check" => r.stage.files.engine = r.records.engine
          /\ r.pc = "check" => Whole(Sealed(r.records))
    /\ r.does = "pack" /\ r.pc = "check" => r.stage.seal = r.records
    /\ r.does = "pack" /\ r.pc \in {"aside", "place"} => Whole(r.stage)
    /\ r.does = "pack" /\ r.pc = "place" => AbsentOrWhole(r.moved)

\* What an installation names has its blobs.
InstallOK(r) ==
    r.does = "install" /\ r.pc \in {"model", "receipt"} =>
        r.records.blobs \subseteq models.blobs

\* Until another tree is in its place, a published output is there, or was
\* moved aside by a program that is gone or that will put it back.
KeptInv ==
    \A o \in published :
        \/ outputs[o] # Absent
        \/ \E k \in backups : k.of = o
        \/ \E b \in Builders : /\ builds[b].pc = "place" /\ builds[b].moved # Absent
                               /\ OutputOf(b) = o

BundleInv ==
    /\ BundleTypeOK /\ PublishedIsWhole /\ InstalledIsComplete /\ KeptInv
    /\ \A b \in Builders :
          /\ ProgramOK(builds[b])
          /\ ~ swapped => CopyOK(builds[b])
          /\ InstallOK(builds[b])

Became(b, r) == builds' = [builds EXCEPT ![b] = r]

LEMMA BuildTyped ==
    ASSUME BundleTypeOK, NEW b \in Builders
    PROVE  builds[b] \in BuildRows
BY SMT DEF BundleTypeOK, BuildRows

LEMMA BuildRecord ==
    ASSUME NEW r \in BuildRows
    PROVE  r = [pc |-> r.pc, does |-> r.does, from |-> r.from, records |-> r.records,
                stage |-> r.stage, moved |-> r.moved]
BY SMT DEF BuildRows

LEMMA NoBuildFields ==
    DOMAIN NoBuild = {"pc", "does", "from", "records", "stage", "moved"}
BY SMT DEF NoBuild

LEMMA QuitsRow ==
    ASSUME NEW b \in Builders, Quits(b)
    PROVE  Became(b, NoBuild)
BY DEF Quits, Became

LEMMA MovesToPc ==
    ASSUME BundleTypeOK, NEW b \in Builders, NEW pc,
           Moves(b, [pc |-> pc])
    PROVE  Became(b, [pc |-> pc, does |-> builds[b].does, from |-> builds[b].from,
                      records |-> builds[b].records, stage |-> builds[b].stage,
                      moved |-> builds[b].moved])
<1>1. [f \in DOMAIN NoBuild |->
          IF f \in DOMAIN [pc |-> pc]
          THEN [pc |-> pc][f] ELSE builds[b][f]] =
        [pc |-> pc, does |-> builds[b].does, from |-> builds[b].from,
                      records |-> builds[b].records, stage |-> builds[b].stage,
                      moved |-> builds[b].moved]
  BY NoBuildFields, BuildTyped, SMT DEF BuildRows
<1> QED
  BY <1>1, Zenon DEF Became, Moves

LEMMA MovesToStage ==
    ASSUME BundleTypeOK, NEW b \in Builders, NEW pc, NEW stage,
           Moves(b, [pc |-> pc, stage |-> stage])
    PROVE  Became(b, [pc |-> pc, does |-> builds[b].does, from |-> builds[b].from,
                      records |-> builds[b].records, stage |-> stage,
                      moved |-> builds[b].moved])
<1>1. [f \in DOMAIN NoBuild |->
          IF f \in DOMAIN [pc |-> pc, stage |-> stage]
          THEN [pc |-> pc, stage |-> stage][f] ELSE builds[b][f]] =
        [pc |-> pc, does |-> builds[b].does, from |-> builds[b].from,
                      records |-> builds[b].records, stage |-> stage,
                      moved |-> builds[b].moved]
  BY NoBuildFields, BuildTyped, SMT DEF BuildRows
<1> QED
  BY <1>1, Zenon DEF Became, Moves

LEMMA MovesAside ==
    ASSUME BundleTypeOK, NEW b \in Builders, NEW pc, NEW aside,
           Moves(b, [pc |-> pc, moved |-> aside])
    PROVE  Became(b, [pc |-> pc, does |-> builds[b].does, from |-> builds[b].from,
                      records |-> builds[b].records, stage |-> builds[b].stage,
                      moved |-> aside])
<1>1. [f \in DOMAIN NoBuild |->
          IF f \in DOMAIN [pc |-> pc, moved |-> aside]
          THEN [pc |-> pc, moved |-> aside][f] ELSE builds[b][f]] =
        [pc |-> pc, does |-> builds[b].does, from |-> builds[b].from,
                      records |-> builds[b].records, stage |-> builds[b].stage,
                      moved |-> aside]
  BY NoBuildFields, BuildTyped, SMT DEF BuildRows
<1> QED
  BY <1>1, Zenon DEF Became, Moves

LEMMA MovesToRecords ==
    ASSUME BundleTypeOK, NEW b \in Builders, NEW pc, NEW records, NEW stage,
           Moves(b, [pc |-> pc, records |-> records, stage |-> stage])
    PROVE  Became(b, [pc |-> pc, does |-> builds[b].does, from |-> builds[b].from,
                      records |-> records, stage |-> stage,
                      moved |-> builds[b].moved])
<1>1. [f \in DOMAIN NoBuild |->
          IF f \in DOMAIN [pc |-> pc, records |-> records, stage |-> stage]
          THEN [pc |-> pc, records |-> records, stage |-> stage][f] ELSE builds[b][f]] =
        [pc |-> pc, does |-> builds[b].does, from |-> builds[b].from,
                      records |-> records, stage |-> stage,
                      moved |-> builds[b].moved]
  BY NoBuildFields, BuildTyped, SMT DEF BuildRows
<1> QED
  BY <1>1, Zenon DEF Became, Moves

LEMMA MovesBegun ==
    ASSUME BundleTypeOK, NEW b \in Builders, NEW does, NEW from, NEW records, NEW pc,
           Moves(b, [does |-> does, from |-> from, records |-> records, pc |-> pc])
    PROVE  Became(b, [pc |-> pc, does |-> does, from |-> from,
                      records |-> records, stage |-> builds[b].stage,
                      moved |-> builds[b].moved])
<1>1. [f \in DOMAIN NoBuild |->
          IF f \in DOMAIN [does |-> does, from |-> from, records |-> records, pc |-> pc]
          THEN [does |-> does, from |-> from, records |-> records, pc |-> pc][f]
          ELSE builds[b][f]] =
        [pc |-> pc, does |-> does, from |-> from,
                      records |-> records, stage |-> builds[b].stage,
                      moved |-> builds[b].moved]
  BY NoBuildFields, BuildTyped, SMT DEF BuildRows
<1> QED
  BY <1>1, Zenon DEF Became, Moves

ModelRows ==
    [model : Versions \cup {0}, blobs : SUBSET Versions, receipt : Versions \cup {0}]
NamesOnlyWhole(store) == {store.model, store.receipt} \ {0} \subseteq store.blobs

\* A step of one program that leaves the outputs alone.
LEMMA QuietStep ==
    ASSUME BundleInv, NEW b \in Builders, NEW r \in BuildRows, Became(b, r),
           builds[b].pc # "place",
           UNCHANGED <<outputs, backups, deaths, published, swapped, pulled>>,
           programs' \in 0..MaxPrograms,
           zip' \in Tree, ~ swapped => AbsentOrWhole(zip'),
           models' \in ModelRows, models.blobs \subseteq models'.blobs,
           NamesOnlyWhole(models'),
           ProgramOK(r), ~ swapped => CopyOK(r),
           r.does = "install" /\ r.pc \in {"model", "receipt"} =>
               r.records.blobs \subseteq models'.blobs
    PROVE  BundleInv'
<1>1. /\ \A c \in Builders \ {b} : builds'[c] = builds[c]
      /\ builds'[b] = r /\ builds' \in [Builders -> BuildRows]
  BY SMT DEF Became, BundleInv, BundleTypeOK, BuildRows
<1>2. BundleTypeOK'
  BY <1>1, Zenon DEF BundleInv, BundleTypeOK, BuildRows, ModelRows
<1>3. PublishedIsWhole'
  BY Zenon DEF BundleInv, PublishedIsWhole, AbsentOrWhole
<1>4. InstalledIsComplete'
  BY DEF InstalledIsComplete, NamesOnlyWhole
<1>5. KeptInv'
  BY <1>1, SMT DEF BundleInv, KeptInv, OutputOf
<1>6. \A c \in Builders : ProgramOK(builds'[c])
  BY <1>1, SMT DEF BundleInv
<1>7. \A c \in Builders : ~ swapped' => CopyOK(builds'[c])
  BY <1>1, SMT DEF BundleInv
<1>8. \A c \in Builders : ~ swapped' => CopyOK(builds[c])'
  BY <1>7, SMT DEF CopyOK
<1>9. \A c \in Builders : InstallOK(builds[c])'
  BY <1>1, SMT DEF BundleInv, InstallOK
<1> QED
  BY <1>2, <1>3, <1>4, <1>5, <1>6, <1>8, <1>9 DEF BundleInv

LEMMA QuitIsOK ==
    /\ NoBuild \in BuildRows /\ ProgramOK(NoBuild) /\ CopyOK(NoBuild)
    /\ NoBuild.does # "install"
<1>1. NoBuild \in BuildRows
  BY SMT DEF NoBuild, BuildRows, BuildPcs, Programs, Outputs, Tree, Files, Absent, NoFiles
<1> QED
  BY <1>1, SMT DEF NoBuild, ProgramOK, CopyOK, Copies

\* A step of one program that puts a tree in the place of an output.
LEMMA SwapStep ==
    ASSUME BundleInv, NEW b \in Builders, NEW r \in BuildRows, Became(b, r),
           NEW o \in Outputs, NEW tree \in Tree, Becomes(o, tree),
           o = "bundle" => AbsentOrWhole(tree),
           ~ swapped => AbsentOrWhole(tree),
           UNCHANGED <<zip, models, pulled, backups, programs, deaths>>,
           ProgramOK(r), ~ Copies(r), ~ swapped => CopyOK(r), r.does # "install",
           KeptInv'
    PROVE  BundleInv'
<1>1. /\ \A c \in Builders \ {b} : builds'[c] = builds[c]
      /\ builds'[b] = r /\ builds' \in [Builders -> BuildRows]
  BY SMT DEF Became, BundleInv, BundleTypeOK, BuildRows
<1>2. /\ outputs'[o] = tree /\ outputs' \in [Outputs -> Tree]
      /\ \A p \in Outputs \ {o} : outputs'[p] = outputs[p]
  BY SMT DEF Becomes, BundleInv, BundleTypeOK
<1>3. /\ swapped' \in BOOLEAN /\ published' \subseteq Outputs
      /\ ~ swapped' => /\ ~ swapped
                       /\ \A c \in Builders : ~ (Copies(builds[c]) /\ builds[c].from = o)
  BY Zenon DEF Becomes, BundleInv, BundleTypeOK, Copies
<1>4. BundleTypeOK'
  BY <1>1, <1>2, <1>3, Zenon DEF BundleInv, BundleTypeOK, BuildRows
<1>5. PublishedIsWhole'
  BY <1>2, <1>3, Zenon DEF BundleInv, PublishedIsWhole, AbsentOrWhole, Outputs
<1>6. InstalledIsComplete'
  BY DEF BundleInv, InstalledIsComplete
<1>7. \A c \in Builders : ProgramOK(builds'[c])
  BY <1>1, SMT DEF BundleInv
<1>8. \A c \in Builders : ~ swapped' => CopyOK(builds[c])'
  <2> SUFFICES ASSUME NEW c \in Builders, ~ swapped'
               PROVE  CopyOK(builds[c])'
    OBVIOUS
  <2>1. ~ swapped /\ ~ (Copies(builds[c]) /\ builds[c].from = o)
    BY <1>3, Zenon
  <2>2. CASE c = b
    BY <1>1, <2>1, <2>2, Zenon DEF CopyOK
  <2>3. CASE c # b
    <3>1. builds'[c] = builds[c] /\ CopyOK(builds[c]) /\ builds[c].from \in Outputs
      BY <1>1, <2>1, <2>3, BuildTyped DEF BundleInv, BuildRows
    <3>2. Copies(builds[c]) => outputs'[builds[c].from] = outputs[builds[c].from]
      BY <1>2, <2>1, <3>1
    <3> QED
      BY <3>1, <3>2, Zenon DEF CopyOK
  <2> QED
    BY <2>2, <2>3
<1>9. \A c \in Builders : InstallOK(builds[c])'
  BY <1>1, SMT DEF BundleInv, InstallOK
<1> QED
  BY <1>3, <1>4, <1>5, <1>6, <1>7, <1>8, <1>9 DEF BundleInv

LEMMA TreeParts ==
    ASSUME NEW tree \in Tree
    PROVE  /\ tree.files \in Files /\ tree.seal \in Files
           /\ tree = [files |-> tree.files, seal |-> tree.seal]
BY SMT DEF Tree

LEMMA WholeTree ==
    ASSUME NEW tree \in Tree, Whole(tree)
    PROVE  /\ tree # Absent /\ tree = Sealed(tree.seal) /\ tree.files = tree.seal
           /\ Whole(Sealed(tree.seal)) /\ tree.seal.model \in tree.seal.blobs
BY SMT DEF Tree, Whole, Loads, Sealed, Absent, NoFiles, SameSize

LEMMA OutputTyped ==
    ASSUME BundleInv, NEW o \in Outputs
    PROVE  /\ outputs[o] \in Tree
           /\ ~ swapped => AbsentOrWhole(outputs[o])
           /\ o = "bundle" => AbsentOrWhole(outputs[o])
BY Zenon DEF BundleInv, BundleTypeOK, PublishedIsWhole, AbsentOrWhole, Outputs

LEMMA BundleInvInit == BundleInit => BundleInv
<1> SUFFICES ASSUME BundleInit
             PROVE  BundleInv
  OBVIOUS
<1>1. PICK v \in Versions, e \in Runtimes :
         LET old == Sealed([model |-> v, engine |-> e, blobs |-> {v}])
         IN  /\ pulled = [model |-> v, blobs |-> {v}]
             /\ \E tree \in {Absent, old} : outputs = [o \in Outputs |-> tree]
             /\ models \in {NoModels, [model |-> v, blobs |-> {v}, receipt |-> v]}
  BY BundleAssumption DEF BundleInit
<1> DEFINE old == Sealed([model |-> v, engine |-> e, blobs |-> {v}])
<1>2. old \in Tree /\ Whole(old) /\ Absent \in Tree
  BY <1>1, BundleAssumption, SMT
  DEF Tree, Files, Sealed, Whole, Loads, SameSize, Absent, NoFiles
<1> HIDE DEF old
<1>3. PICK tree \in {Absent, old} : outputs = [o \in Outputs |-> tree]
  BY <1>1 DEF old
<1>4. /\ \A o \in Outputs : outputs[o] = tree
      /\ outputs \in [Outputs -> Tree] /\ AbsentOrWhole(tree)
  BY <1>2, <1>3, Zenon DEF AbsentOrWhole
<1>5. /\ builds \in [Builders -> BuildRows]
      /\ \A b \in Builders : builds[b] = NoBuild
  BY QuitIsOK, SMT DEF BundleInit
<1>6. pulled \in [model : Versions, blobs : SUBSET Versions]
  BY <1>1, SMT
<1>7. models \in ModelRows /\ NamesOnlyWhole(models)
  BY <1>1, SMT DEF NoModels, ModelRows, NamesOnlyWhole
<1>8. /\ zip = Absent /\ backups = {} /\ programs = 0 /\ deaths = 0 /\ swapped = FALSE
      /\ published = {o \in Outputs : outputs[o] # Absent}
  BY DEF BundleInit
<1>9. programs \in 0..MaxPrograms /\ deaths \in 0..MaxDeaths
  BY <1>8, BundleAssumption, SMT
<1>10. BundleTypeOK
  BY <1>2, <1>4, <1>5, <1>6, <1>7, <1>8, <1>9, Zenon
  DEF BundleTypeOK, BuildRows, ModelRows
<1>11. PublishedIsWhole
  BY <1>4, <1>8, Zenon DEF PublishedIsWhole, AbsentOrWhole, Outputs
<1>12. InstalledIsComplete
  BY <1>7 DEF InstalledIsComplete, NamesOnlyWhole
<1>13. KeptInv
  BY <1>8, Zenon DEF KeptInv
<1>14. \A b \in Builders :
          ProgramOK(builds[b]) /\ CopyOK(builds[b]) /\ InstallOK(builds[b])
  BY <1>5, QuitIsOK DEF InstallOK
<1> QED
  BY <1>10, <1>11, <1>12, <1>13, <1>14 DEF BundleInv

\* What a step leaves alone that only fills a row: then the row is all there is
\* to look at.
LEMMA ProgramStep ==
    ASSUME BundleInv, NEW b \in Builders, NEW r \in BuildRows, Became(b, r),
           builds[b].pc # "place", UNCHANGED <<readOnly, unpublished>>,
           ProgramOK(r), ~ swapped => CopyOK(r), r.does # "install"
    PROVE  BundleInv'
<1>1. /\ zip \in Tree /\ programs \in 0..MaxPrograms /\ models \in ModelRows
      /\ NamesOnlyWhole(models)
  BY DEF BundleInv, BundleTypeOK, ModelRows, InstalledIsComplete, NamesOnlyWhole
<1>2. ~ swapped => AbsentOrWhole(zip)
  BY Zenon DEF BundleInv, PublishedIsWhole, AbsentOrWhole
<1> QED
  BY <1>1, <1>2, QuietStep, Zenon DEF readOnly, unpublished

LEMMA QuitStep ==
    ASSUME BundleInv, NEW b \in Builders, Quits(b), builds[b].pc # "place",
           UNCHANGED <<readOnly, unpublished>>
    PROVE  BundleInv'
BY QuitIsOK, QuitsRow, ProgramStep, Zenon

LEMMA StartsKeeps ==
    ASSUME BundleInv, NEW b \in Builders, NEW does \in Programs, NEW from \in Outputs,
           NEW records \in Files, NEW pc \in {"read", "seal", "blobs"},
           Starts(b, does, from, records, pc),
           does = "install" => pc = "blobs" /\ records.model \in records.blobs,
           ~ swapped /\ does \in {"pack", "zip"} =>
               outputs[from] = Sealed(records) /\ Whole(Sealed(records)),
           does = "pack" => pc = "seal"
    PROVE  BundleInv'
<1> DEFINE r == [pc |-> pc, does |-> does, from |-> from, records |-> records,
                 stage |-> builds[b].stage, moved |-> builds[b].moved]
<1>1. /\ builds[b] \in BuildRows /\ builds[b].pc = "idle" /\ ProgramOK(builds[b])
  BY BuildTyped DEF Starts, BundleInv
<1>2. builds[b].moved = Absent
  BY <1>1 DEF ProgramOK
<1>3. Became(b, r)
  BY MovesBegun DEF Starts, BundleInv
<1>4. r \in BuildRows
  BY <1>1, SMT DEF BuildRows, BuildPcs
<1>5. ProgramOK(r)
  BY <1>2, SMT DEF ProgramOK
<1>6. ~ swapped => CopyOK(r)
  BY SMT DEF CopyOK, Copies
<1>7. r.pc \notin {"model", "receipt"}
  BY SMT
<1>8. programs' \in 0..MaxPrograms
  BY BundleAssumption, SMT DEF Starts, BundleInv, BundleTypeOK
<1>9. /\ zip \in Tree /\ models \in ModelRows /\ NamesOnlyWhole(models)
      /\ ~ swapped => AbsentOrWhole(zip)
  BY Zenon DEF BundleInv, BundleTypeOK, ModelRows, InstalledIsComplete, NamesOnlyWhole,
  PublishedIsWhole, AbsentOrWhole
<1>10. UNCHANGED <<pulled, outputs, zip, backups, models, deaths, published, swapped>>
  BY DEF Starts
<1> HIDE DEF r
<1> QED
  BY <1>1, <1>3, <1>4, <1>5, <1>6, <1>7, <1>8, <1>9, <1>10, QuietStep, Zenon

LEMMA StartingKeeps ==
    ASSUME BundleInv, NEW b \in Builders,
           \/ StartAssembly(b) \/ StartPackage(b) \/ StartZip(b)
           \/ \E from \in Outputs : StartInstall(b, from)
    PROVE  BundleInv'
<1>1. CASE StartAssembly(b)
  <2>1. NoFiles \in Files /\ "bundle" \in Outputs /\ "assemble" \in Programs
    BY DEF NoFiles, Files, Outputs, Programs
  <2> QED
    BY <1>1, <2>1, StartsKeeps, Zenon DEF StartAssembly
<1>2. CASE StartPackage(b)
  <2>1. /\ "bundle" \in Outputs /\ "pack" \in Programs
        /\ outputs["bundle"] \in Tree /\ Whole(outputs["bundle"])
    BY <1>2, OutputTyped DEF StartPackage, Outputs, Programs
  <2>2. /\ outputs["bundle"].seal \in Files
        /\ outputs["bundle"] = Sealed(outputs["bundle"].seal)
        /\ Whole(Sealed(outputs["bundle"].seal))
    BY <2>1, TreeParts, WholeTree
  <2> QED
    BY <1>2, <2>1, <2>2, StartsKeeps, Zenon DEF StartPackage
<1>3. CASE StartZip(b)
  <2>1. /\ "package" \in Outputs /\ "zip" \in Programs /\ outputs["package"] \in Tree
        /\ ~ swapped => Whole(outputs["package"])
    BY <1>3, OutputTyped DEF StartZip, Outputs, Programs, Verified, AbsentOrWhole
  <2>2. /\ outputs["package"].files \in Files
        /\ ~ swapped => /\ outputs["package"] = Sealed(outputs["package"].files)
                        /\ Whole(Sealed(outputs["package"].files))
    BY <2>1, TreeParts, WholeTree
  <2> QED
    BY <1>3, <2>1, <2>2, StartsKeeps, Zenon DEF StartZip
<1>4. ASSUME NEW from \in Outputs, StartInstall(b, from)
      PROVE  BundleInv'
  <2>1. "install" \in Programs /\ outputs[from] \in Tree /\ Whole(outputs[from])
    BY <1>4, OutputTyped DEF StartInstall, Programs
  <2>2. /\ outputs[from].seal \in Files
        /\ outputs[from].seal.model \in outputs[from].seal.blobs
    BY <2>1, TreeParts, WholeTree
  <2> QED
    BY <1>4, <2>1, <2>2, StartsKeeps, Zenon DEF StartInstall
<1> QED
  BY <1>1, <1>2, <1>3, <1>4

\* The row of b, with another phase and stage.
Refilled(b, pc, stage) ==
    [pc |-> pc, does |-> builds[b].does, from |-> builds[b].from,
     records |-> builds[b].records, stage |-> stage,
     moved |-> builds[b].moved]

\* A stage is filled: nothing is ready to be put in place yet.
LEMMA FillStep ==
    ASSUME BundleInv, NEW b \in Builders,
           NEW pc \in {"blobs", "model", "engine", "check"}, NEW stage \in Tree,
           Moves(b, [pc |-> pc, stage |-> stage]),
           builds[b].pc \notin {"place", "clean"}, builds[b].does # "install",
           UNCHANGED <<readOnly, unpublished>>,
           ~ swapped => CopyOK(Refilled(b, pc, stage))
    PROVE  BundleInv'
<1>1. builds[b] \in BuildRows /\ ProgramOK(builds[b]) /\ Became(b, Refilled(b, pc, stage))
  BY BuildTyped, MovesToStage DEF BundleInv, Refilled
<1>2. Refilled(b, pc, stage) \in BuildRows
  BY <1>1, SMT DEF BuildRows, BuildPcs, Refilled
<1>3. ProgramOK(Refilled(b, pc, stage)) /\ Refilled(b, pc, stage).does # "install"
  BY <1>1, SMT DEF ProgramOK, Refilled
<1> QED
  BY <1>1, <1>2, <1>3, ProgramStep, Zenon

LEMMA StagedTyped ==
    ASSUME BundleTypeOK, NEW b \in Builders
    PROVE  /\ builds[b].stage \in Tree /\ builds[b].records \in Files
           /\ builds[b].from \in Outputs
           /\ Staged(b) \in Files /\ builds[b].stage.seal \in Files
           /\ \A files \in Files :
                 [builds[b].stage EXCEPT !.files = files]
                     = [files |-> files, seal |-> builds[b].stage.seal]
           /\ \A files \in Files :
                 [files |-> files, seal |-> builds[b].stage.seal] \in Tree
BY BuildTyped, SMT DEF BuildRows, Tree, Staged

LEMMA AssemblyKeeps ==
    ASSUME BundleInv, NEW b \in Builders,
           ReadManifest(b) \/ CopyManifest(b) \/ CopyModelBlobs(b) \/ SealStage(b)
    PROVE  BundleInv'
<1>1. /\ builds[b] \in BuildRows /\ builds[b].does = "assemble"
      /\ builds[b].pc \in {"read", "model", "blobs", "check"}
      /\ ProgramOK(builds[b]) /\ BundleTypeOK
      /\ UNCHANGED <<readOnly, unpublished>>
  BY BuildTyped, SMT
  DEF ReadManifest, CopyManifest, CopyModelBlobs, SealStage, At, BundleInv
<1>2. builds[b].moved = Absent
  BY <1>1, SMT DEF ProgramOK
<1>3. pulled.model \in Versions /\ pulled.blobs \in SUBSET Versions
  BY <1>1, SMT DEF BundleTypeOK
<1>4. CASE ReadManifest(b)
  <2>1. PICK e \in Runtimes :
           Moves(b, [pc |-> "model",
                     records |-> [NoFiles EXCEPT !.blobs = {pulled.model}],
                     stage |-> [Absent EXCEPT !.files.engine = e]])
    BY <1>4 DEF ReadManifest
  <2> DEFINE records == [NoFiles EXCEPT !.blobs = {pulled.model}]
             stage == [Absent EXCEPT !.files.engine = e]
             r == [pc |-> "model", does |-> builds[b].does, from |-> builds[b].from,
                   records |-> records, stage |-> stage,
                   moved |-> builds[b].moved]
  <2>2. records \in Files /\ stage \in Tree
    BY <1>3, SMT DEF NoFiles, Absent, Files, Tree
  <2>3. Became(b, r)
    BY <1>1, <2>1, MovesToRecords
  <2> HIDE DEF records, stage
  <2>4. r \in BuildRows /\ ProgramOK(r) /\ CopyOK(r) /\ r.does # "install"
    BY <1>1, <1>2, <2>2, SMT DEF BuildRows, BuildPcs, ProgramOK, CopyOK, Copies
  <2> HIDE DEF r
  <2> QED
    BY <1>1, <2>3, <2>4, ProgramStep, Zenon
<1>5. ASSUME NEW files \in Files, NEW pc \in {"blobs", "check"}, Stages(b, files, pc)
      PROVE  BundleInv'
  <2> DEFINE stage == [files |-> files, seal |-> builds[b].stage.seal]
  <2>1. stage \in Tree /\ Moves(b, [pc |-> pc, stage |-> stage])
    BY <1>1, <1>5, StagedTyped DEF Stages
  <2>2. CopyOK(Refilled(b, pc, stage))
    BY <1>1, SMT DEF CopyOK, Copies, Refilled
  <2> HIDE DEF stage
  <2> QED
    BY <1>1, <2>1, <2>2, FillStep, Zenon
<1>6. CASE CopyManifest(b)
  <2>1. [Staged(b) EXCEPT !.model = pulled.model] \in Files
    BY <1>1, <1>3, StagedTyped, SMT DEF Files
  <2> QED
    BY <1>6, <2>1, <1>5 DEF CopyManifest
<1>7. CASE CopyModelBlobs(b)
  <2>1. CASE builds[b].records.blobs \subseteq pulled.blobs
    <3>1. [Staged(b) EXCEPT !.blobs = builds[b].records.blobs] \in Files
      BY <1>1, <1>3, <2>1, StagedTyped, SMT DEF Files
    <3> QED
      BY <1>5, <1>7, <2>1, <3>1 DEF CopyModelBlobs
  <2>2. CASE ~ (builds[b].records.blobs \subseteq pulled.blobs)
    BY <1>1, <1>7, <2>2, QuitStep DEF CopyModelBlobs
  <2> QED
    BY <2>1, <2>2
<1>8. CASE SealStage(b)
  <2>1. CASE Whole(Sealed(Staged(b)))
    <3> DEFINE stage == Sealed(Staged(b))
               r == Refilled(b, "aside", stage)
    <3>1. stage \in Tree /\ Whole(stage)
      BY <1>1, <2>1, StagedTyped, SMT DEF Tree, Sealed
    <3>2. Became(b, r)
      BY <1>1, <1>8, <2>1, MovesToStage DEF SealStage, Refilled
    <3> HIDE DEF stage
    <3>3. r \in BuildRows /\ ProgramOK(r) /\ CopyOK(r) /\ r.does # "install"
      BY <1>1, <1>2, <3>1, SMT
      DEF Refilled, BuildRows, BuildPcs, ProgramOK, CopyOK, Copies, Whole
    <3> HIDE DEF r
    <3> QED
      BY <1>1, <3>2, <3>3, ProgramStep, Zenon
  <2>2. CASE ~ Whole(Sealed(Staged(b)))
    BY <1>1, <1>8, <2>2, QuitStep DEF SealStage
  <2> QED
    BY <2>1, <2>2
<1> QED
  BY <1>4, <1>6, <1>7, <1>8

LEMMA CopySealKeeps ==
    ASSUME BundleInv, NEW b \in Builders, CopySeal(b)
    PROVE  BundleInv'
<1>1. /\ builds[b].does = "pack" /\ builds[b].pc = "seal"
      /\ builds[b].from \in Outputs /\ BundleTypeOK
      /\ ~ swapped => CopyOK(builds[b])
      /\ UNCHANGED <<readOnly, unpublished>>
  BY StagedTyped DEF CopySeal, At, BundleInv
<1> DEFINE stage == outputs[builds[b].from]
<1>2. stage \in Tree
  BY <1>1, OutputTyped
<1>3. CASE Source(b) = NoFiles
  BY <1>1, <1>3, QuitStep, SMT DEF CopySeal
<1>4. CASE Source(b) # NoFiles
  <2>1. Moves(b, [pc |-> "blobs", stage |-> stage])
    BY <1>4 DEF CopySeal
  <2>2. ~ swapped => CopyOK(Refilled(b, "blobs", stage))
    BY <1>1, SMT DEF CopyOK, Copies, Refilled, Sealed
  <2> HIDE DEF stage
  <2> QED
    BY <1>1, <1>2, <2>1, <2>2, FillStep, SMT
<1> QED
  BY <1>3, <1>4

LEMMA CopyingKeeps ==
    ASSUME BundleInv, NEW b \in Builders, CopyBlobs(b) \/ CopyModel(b) \/ CopyEngine(b)
    PROVE  BundleInv'
<1>1. /\ builds[b].does \in {"pack", "zip"}
      /\ builds[b].pc \in {"blobs", "model", "engine"}
      /\ builds[b].from \in Outputs /\ builds[b].records \in Files
      /\ outputs[builds[b].from] \in Tree /\ Source(b) \in Files
      /\ Staged(b) \in Files /\ BundleTypeOK
      /\ UNCHANGED <<readOnly, unpublished>>
  BY StagedTyped, OutputTyped, TreeParts, SMT
  DEF CopyBlobs, CopyModel, CopyEngine, At, BundleInv, Source
<1>2. /\ ~ swapped => CopyOK(builds[b])
      /\ ~ swapped => /\ Source(b) = builds[b].records
                      /\ Whole(Sealed(builds[b].records))
  BY <1>1, SMT DEF BundleInv, CopyOK, Copies, Source, Sealed
<1>3. ASSUME NEW files \in Files, NEW pc \in {"model", "engine", "check"},
             Stages(b, files, pc),
             ~ swapped =>
                /\ files.blobs = builds[b].records.blobs
                /\ pc \in {"engine", "check"} => files.model = builds[b].records.model
                /\ pc = "check" => files.engine = builds[b].records.engine
      PROVE  BundleInv'
  <2> DEFINE stage == [files |-> files, seal |-> builds[b].stage.seal]
  <2>1. stage \in Tree /\ Moves(b, [pc |-> pc, stage |-> stage])
    BY <1>1, <1>3, StagedTyped DEF Stages
  <2>2. ~ swapped => CopyOK(Refilled(b, pc, stage))
    BY <1>1, <1>2, <1>3, SMT DEF CopyOK, Copies, Refilled
  <2> HIDE DEF stage
  <2> QED
    BY <1>1, <2>1, <2>2, FillStep, SMT
<1>4. CASE CopyBlobs(b)
  <2>1. CASE builds[b].records.blobs \subseteq Source(b).blobs
    <3> DEFINE files == [NoFiles EXCEPT !.blobs = builds[b].records.blobs]
    <3>1. files \in Files /\ files.blobs = builds[b].records.blobs
      BY <1>1, SMT DEF Files, NoFiles
    <3>2. Stages(b, files, "model")
      BY <1>4, <2>1 DEF CopyBlobs
    <3> HIDE DEF files
    <3> QED
      BY <1>3, <3>1, <3>2, SMT
  <2>2. CASE ~ (builds[b].records.blobs \subseteq Source(b).blobs)
    BY <1>1, <1>4, <2>2, QuitStep, SMT DEF CopyBlobs
  <2> QED
    BY <2>1, <2>2
<1>5. CASE CopyModel(b)
  <2>1. CASE Source(b) = NoFiles
    BY <1>1, <1>5, <2>1, QuitStep, SMT DEF CopyModel
  <2>2. CASE Source(b) # NoFiles
    <3> DEFINE files == [Staged(b) EXCEPT !.model = Source(b).model]
    <3>1. /\ files \in Files /\ files.blobs = Staged(b).blobs
          /\ files.model = Source(b).model
      BY <1>1, SMT DEF Files
    <3>2. Stages(b, files, "engine") /\ builds[b].pc = "model"
      BY <1>5, <2>2 DEF CopyModel, At
    <3> HIDE DEF files
    <3> QED
      BY <1>1, <1>2, <1>3, <3>1, <3>2, SMT DEF CopyOK, Staged
  <2> QED
    BY <2>1, <2>2
<1>6. CASE CopyEngine(b)
  <2>1. CASE Source(b) = NoFiles
    BY <1>1, <1>6, <2>1, QuitStep, SMT DEF CopyEngine
  <2>2. CASE Source(b) # NoFiles
    <3> DEFINE files == [Staged(b) EXCEPT !.engine = Source(b).engine]
    <3>1. /\ files \in Files /\ files.blobs = Staged(b).blobs
          /\ files.model = Staged(b).model /\ files.engine = Source(b).engine
      BY <1>1, SMT DEF Files
    <3>2. Stages(b, files, "check") /\ builds[b].pc = "engine"
      BY <1>6, <2>2 DEF CopyEngine, At
    <3> HIDE DEF files
    <3> QED
      BY <1>1, <1>2, <1>3, <3>1, <3>2, SMT DEF CopyOK, Staged
  <2> QED
    BY <2>1, <2>2
<1> QED
  BY <1>4, <1>5, <1>6

\* A stage that has been checked has all that was recorded, and no more.
LEMMA CheckedStage ==
    ASSUME BundleInv, NEW b \in Builders, builds[b].does \in {"pack", "zip"},
           builds[b].pc = "check", ~ swapped
    PROVE  /\ Staged(b) = builds[b].records /\ Whole(Sealed(builds[b].records))
           /\ builds[b].does = "pack" => Whole(builds[b].stage)
<1>1. /\ CopyOK(builds[b]) /\ builds[b].records \in Files /\ Staged(b) \in Files
      /\ builds[b].stage \in Tree
  BY StagedTyped DEF BundleInv
<1>2. Staged(b) = builds[b].records
  BY <1>1, SMT DEF CopyOK, Staged, Files
<1>3. Whole(Sealed(builds[b].records))
  BY <1>1, SMT DEF CopyOK
<1>4. ASSUME builds[b].does = "pack"
      PROVE  Whole(builds[b].stage)
  <2>1. builds[b].stage.seal = builds[b].records
    BY <1>1, <1>4, SMT DEF CopyOK
  <2>2. builds[b].stage = Sealed(builds[b].records)
    BY <1>1, <1>2, <2>1, TreeParts DEF Sealed, Staged
  <2> QED
    BY <1>3, <2>2
<1> QED
  BY <1>2, <1>3, <1>4

LEMMA WritePackageManifestKeeps ==
    ASSUME BundleInv, NEW b \in Builders, WritePackageManifest(b)
    PROVE  BundleInv'
<1>1. /\ builds[b].does = "pack" /\ builds[b].pc = "check"
      /\ builds[b] \in BuildRows /\ ProgramOK(builds[b])
      /\ UNCHANGED <<readOnly, unpublished>>
  BY BuildTyped DEF WritePackageManifest, At, BundleInv
<1>2. CASE Loads(builds[b].stage)
  <2> DEFINE r == Refilled(b, "aside", builds[b].stage)
  <2>1. Became(b, r)
    BY <1>2, MovesToPc DEF WritePackageManifest, BundleInv, Refilled
  <2>2. r \in BuildRows
    BY <1>1, SMT DEF Refilled, BuildRows, BuildPcs
  <2>3. ProgramOK(r) /\ r.does # "install"
    BY <1>1, <1>2, SMT DEF Refilled, ProgramOK
  <2>4. ~ swapped => CopyOK(r)
    BY <1>1, CheckedStage, SMT DEF Refilled, CopyOK, Copies
  <2> HIDE DEF r
  <2> QED
    BY <1>1, <2>1, <2>2, <2>3, <2>4, ProgramStep, SMT
<1>3. CASE ~ Loads(builds[b].stage)
  BY <1>1, <1>3, QuitStep, SMT DEF WritePackageManifest
<1> QED
  BY <1>2, <1>3

LEMMA PublishZipKeeps ==
    ASSUME BundleInv, NEW b \in Builders, PublishZip(b)
    PROVE  BundleInv'
<1>1. /\ builds[b].does = "zip" /\ builds[b].pc = "check" /\ BundleTypeOK
      /\ UNCHANGED <<readOnly, models>> /\ Became(b, NoBuild)
      /\ zip' = [files |-> Staged(b), seal |-> builds[b].records]
  BY QuitsRow DEF PublishZip, At, BundleInv
<1>2. zip' \in Tree
  BY <1>1, StagedTyped DEF Tree
<1>3. ~ swapped => AbsentOrWhole(zip')
  <2>1. ~ swapped => /\ zip' = Sealed(builds[b].records)
                     /\ Whole(Sealed(builds[b].records))
    BY <1>1, CheckedStage, Zenon DEF Sealed
  <2> QED
    BY <2>1, Zenon DEF AbsentOrWhole
<1>4. /\ programs' \in 0..MaxPrograms /\ models' \in ModelRows /\ NamesOnlyWhole(models')
      /\ models.blobs \subseteq models'.blobs
  BY <1>1
  DEF BundleInv, BundleTypeOK, ModelRows, InstalledIsComplete, NamesOnlyWhole, readOnly
<1>5. UNCHANGED <<outputs, backups, deaths, published, swapped, pulled>>
  BY <1>1 DEF readOnly
<1> QED
  BY <1>1, <1>2, <1>3, <1>4, <1>5, QuitIsOK, QuietStep, SMT

LEMMA MoveAsideKeeps ==
    ASSUME BundleInv, NEW b \in Builders, MoveAside(b)
    PROVE  BundleInv'
<1> DEFINE o == OutputOf(b)
           r == [pc |-> "place", does |-> builds[b].does, from |-> builds[b].from,
                 records |-> builds[b].records, stage |-> builds[b].stage,
                 moved |-> outputs[o]]
<1>1. /\ builds[b].does \in {"assemble", "pack"} /\ builds[b].pc = "aside"
      /\ builds[b] \in BuildRows /\ ProgramOK(builds[b]) /\ builds[b].moved = Absent
      /\ ~ swapped => CopyOK(builds[b])
      /\ UNCHANGED <<zip, models, pulled, backups, programs, deaths>>
  BY BuildTyped, SMT DEF MoveAside, At, BundleInv, ProgramOK, unpublished
<1>2. /\ o \in Outputs /\ (o = "bundle" <=> builds[b].does = "assemble")
      /\ outputs[o] \in Tree /\ Absent \in Tree
  BY <1>1, OutputTyped, SMT
  DEF OutputOf, Outputs, Tree, Files, Absent, NoFiles
<1>3. /\ o = "bundle" => AbsentOrWhole(outputs[o])
      /\ ~ swapped => AbsentOrWhole(outputs[o])
  BY <1>2, OutputTyped
<1>4. Becomes(o, Absent) /\ Became(b, r)
  BY MovesAside DEF MoveAside, BundleInv
<1>5. r \in BuildRows /\ ~ Copies(r) /\ r.does # "install"
  BY <1>1, <1>2, SMT DEF BuildRows, BuildPcs, Copies
<1>6. ProgramOK(r)
  BY <1>1, <1>2, <1>3, SMT DEF ProgramOK
<1>7. ~ swapped => CopyOK(r)
  BY <1>1, <1>3, SMT DEF CopyOK, Copies
<1>8. KeptInv'
  <2> SUFFICES ASSUME NEW p \in published
               PROVE  \/ outputs'[p] # Absent
                      \/ \E k \in backups : k.of = p
                      \/ \E c \in Builders : /\ builds'[c].pc = "place"
                                             /\ builds'[c].moved # Absent
                                             /\ OutputOf(c)' = p
    BY <1>1, <1>4 DEF KeptInv, Becomes
  <2>1. /\ p \in Outputs
        /\ \A c \in Builders \ {b} : builds'[c] = builds[c] /\ OutputOf(c)' = OutputOf(c)
        /\ builds'[b] = r /\ OutputOf(b)' = o
        /\ p # o => outputs'[p] = outputs[p]
    BY <1>4, SMT DEF Became, BundleInv, BundleTypeOK, OutputOf, Becomes
  <2>2. \/ outputs[p] # Absent
        \/ \E k \in backups : k.of = p
        \/ \E c \in Builders : /\ builds[c].pc = "place" /\ builds[c].moved # Absent
                               /\ OutputOf(c) = p
    BY DEF BundleInv, KeptInv
  <2>3. CASE \E c \in Builders : /\ builds[c].pc = "place" /\ builds[c].moved # Absent
                                 /\ OutputOf(c) = p
    BY <1>1, <2>1, <2>3
  <2>4. CASE outputs[p] # Absent
    <3>1. r.pc = "place" /\ r.moved = outputs[o]
      OBVIOUS
    <3> HIDE DEF r
    <3> QED
      BY <2>1, <2>4, <3>1
  <2> QED
    BY <2>2, <2>3, <2>4
<1> HIDE DEF r
<1> QED
  BY <1>1, <1>2, <1>4, <1>5, <1>6, <1>7, <1>8, SwapStep, SMT DEF AbsentOrWhole

LEMMA PutInPlaceKeeps ==
    ASSUME BundleInv, NEW b \in Builders, PutInPlace(b)
    PROVE  BundleInv'
<1> DEFINE o == OutputOf(b)
           r == [pc |-> "clean", does |-> builds[b].does, from |-> builds[b].from,
                 records |-> builds[b].records, stage |-> builds[b].stage,
                 moved |-> builds[b].moved]
<1>1. /\ builds[b].does \in {"assemble", "pack"} /\ builds[b].pc = "place"
      /\ builds[b] \in BuildRows /\ ProgramOK(builds[b])
      /\ ~ swapped => CopyOK(builds[b])
      /\ outputs[o] = Absent
      /\ UNCHANGED <<zip, models, pulled, backups, programs, deaths>>
  BY BuildTyped, SMT DEF PutInPlace, At, BundleInv, unpublished
<1>2. /\ o \in Outputs /\ (o = "bundle" <=> builds[b].does = "assemble")
      /\ builds[b].stage \in Tree
  BY <1>1, SMT DEF OutputOf, Outputs, BuildRows
<1>3. /\ o = "bundle" => Whole(builds[b].stage)
      /\ ~ swapped => Whole(builds[b].stage)
      /\ builds[b].stage # Absent
  BY <1>1, <1>2, SMT DEF ProgramOK, CopyOK, Loads, Absent, NoFiles
<1>4. Becomes(o, builds[b].stage) /\ Became(b, r)
  BY MovesToPc DEF PutInPlace, BundleInv
<1>5. r \in BuildRows /\ ~ Copies(r) /\ r.does # "install"
  BY <1>1, <1>2, SMT DEF BuildRows, BuildPcs, Copies
<1>6. ProgramOK(r) /\ (~ swapped => CopyOK(r))
  BY <1>1, SMT DEF ProgramOK, CopyOK, Copies
<1>7. KeptInv'
  <2> SUFFICES ASSUME NEW p \in published \cup {o}
               PROVE  \/ outputs'[p] # Absent
                      \/ \E k \in backups : k.of = p
                      \/ \E c \in Builders : /\ builds'[c].pc = "place"
                                             /\ builds'[c].moved # Absent
                                             /\ OutputOf(c)' = p
    BY <1>1, <1>3, <1>4 DEF KeptInv, Becomes
  <2>1. /\ \A c \in Builders \ {b} : builds'[c] = builds[c] /\ OutputOf(c)' = OutputOf(c)
        /\ outputs'[o] # Absent /\ (p # o => p \in published /\ outputs'[p] = outputs[p])
    BY <1>2, <1>3, <1>4, SMT DEF Became, BundleInv, BundleTypeOK, OutputOf, Becomes
  <2>2. CASE p # o
    BY <2>1, <2>2, SMT DEF BundleInv, KeptInv
  <2> QED
    BY <2>1, <2>2
<1> HIDE DEF r
<1> QED
  BY <1>1, <1>2, <1>3, <1>4, <1>5, <1>6, <1>7, SwapStep, SMT DEF AbsentOrWhole

LEMMA QuitLeavingBackup ==
    ASSUME BundleInv, NEW b \in Builders, LeavesBackup(b), Quits(b),
           UNCHANGED <<pulled, outputs, unpublished, programs, published, swapped>>,
           deaths' \in 0..MaxDeaths
    PROVE  BundleInv'
<1>1. /\ \A c \in Builders \ {b} : builds'[c] = builds[c]
      /\ builds'[b] = NoBuild /\ builds' \in [Builders -> BuildRows]
  BY QuitsRow, QuitIsOK, SMT DEF Became, BundleInv, BundleTypeOK, BuildRows
<1>2. builds[b].does \in Programs /\ builds[b].moved \in Tree /\ OutputOf(b) \in Outputs
  BY BuildTyped, SMT DEF BundleInv, BuildRows, OutputOf, Outputs
<1>3. \A k \in backups' : k.of \in Outputs /\ k.tree \in Tree
  BY <1>2 DEF LeavesBackup, BundleInv, BundleTypeOK
<1>4. BundleTypeOK'
  BY <1>1, <1>3, Zenon DEF BundleInv, BundleTypeOK, BuildRows, unpublished
<1>5. PublishedIsWhole'
  BY Zenon DEF BundleInv, PublishedIsWhole, unpublished
<1>6. InstalledIsComplete'
  BY DEF BundleInv, InstalledIsComplete, unpublished
<1>7. KeptInv'
  <2> SUFFICES ASSUME NEW p \in published
               PROVE  \/ outputs[p] # Absent
                      \/ \E k \in backups' : k.of = p
                      \/ \E c \in Builders : /\ builds'[c].pc = "place"
                                             /\ builds'[c].moved # Absent
                                             /\ OutputOf(c)' = p
    BY DEF KeptInv
  <2>1. \A c \in Builders \ {b} : OutputOf(c)' = OutputOf(c)
    BY <1>1 DEF OutputOf
  <2>2. CASE builds[b].moved # Absent /\ OutputOf(b) = p
    <3> DEFINE k == [of |-> p, tree |-> builds[b].moved]
    <3>1. k \in backups' /\ k.of = p
      BY <2>2 DEF LeavesBackup
    <3> QED
      BY <3>1
  <2>3. CASE ~ (builds[b].moved # Absent /\ OutputOf(b) = p)
    <3>1. backups \subseteq backups'
      BY DEF LeavesBackup
    <3> QED
      BY <1>1, <2>1, <2>3, <3>1 DEF BundleInv, KeptInv
  <2> QED
    BY <2>2, <2>3
<1>8. \A c \in Builders : ProgramOK(builds'[c])
  BY <1>1, QuitIsOK DEF BundleInv
<1>9. \A c \in Builders : ~ swapped' => CopyOK(builds[c])'
  BY <1>1, QuitIsOK, SMT DEF BundleInv, CopyOK
<1>10. \A c \in Builders : InstallOK(builds[c])'
  BY <1>1, QuitIsOK, SMT DEF BundleInv, InstallOK, unpublished
<1> QED
  BY <1>4, <1>5, <1>6, <1>7, <1>8, <1>9, <1>10 DEF BundleInv

LEMMA PlaceFailsKeeps ==
    ASSUME BundleInv, NEW b \in Builders, PlaceFails(b)
    PROVE  BundleInv'
<1> DEFINE o == OutputOf(b)
<1>1. /\ builds[b].does \in {"assemble", "pack"} /\ builds[b].pc = "place"
      /\ builds[b] \in BuildRows /\ ProgramOK(builds[b])
      /\ ~ swapped => CopyOK(builds[b])
      /\ Quits(b) /\ Became(b, NoBuild)
      /\ UNCHANGED <<zip, models, pulled, programs, deaths>>
  BY BuildTyped, QuitsRow, SMT DEF PlaceFails, At, BundleInv, unpublished
<1>2. CASE outputs[o] = Absent
  <2>1. /\ o \in Outputs /\ (o = "bundle" <=> builds[b].does = "assemble")
        /\ builds[b].moved \in Tree
    BY <1>1, SMT DEF OutputOf, Outputs, BuildRows
  <2>2. /\ o = "bundle" => AbsentOrWhole(builds[b].moved)
        /\ ~ swapped => AbsentOrWhole(builds[b].moved)
    BY <1>1, <2>1, SMT DEF ProgramOK, CopyOK
  <2>3. Becomes(o, builds[b].moved) /\ UNCHANGED backups
    BY <1>2 DEF PlaceFails
  <2>4. KeptInv'
    <3> SUFFICES ASSUME NEW p \in published', outputs'[p] = Absent
                 PROVE  \/ \E k \in backups : k.of = p
                        \/ \E c \in Builders : /\ builds'[c].pc = "place"
                                               /\ builds'[c].moved # Absent
                                               /\ OutputOf(c)' = p
      BY <2>3 DEF KeptInv
    <3>1. /\ \A c \in Builders \ {b} :
                builds'[c] = builds[c] /\ OutputOf(c)' = OutputOf(c)
          /\ outputs'[o] = builds[b].moved
          /\ p # o => outputs'[p] = outputs[p]
      BY <1>1, <2>1, <2>3, SMT DEF Became, BundleInv, BundleTypeOK, OutputOf, Becomes
    <3>2. p \in published /\ outputs[p] = Absent /\ (p = o => builds[b].moved = Absent)
      BY <1>2, <2>3, <3>1 DEF Becomes
    <3> QED
      BY <3>1, <3>2 DEF BundleInv, KeptInv
  <2>5. ~ Copies(NoBuild)
    BY DEF Copies, NoBuild
  <2> QED
    BY <1>1, <2>1, <2>2, <2>3, <2>4, <2>5, QuitIsOK, SwapStep, Zenon
<1>3. CASE outputs[o] # Absent
  <2>1. LeavesBackup(b) /\ UNCHANGED <<outputs, published, swapped>>
    BY <1>3 DEF PlaceFails
  <2>2. deaths' \in 0..MaxDeaths
    BY <1>1 DEF BundleInv, BundleTypeOK
  <2> QED
    BY <1>1, <2>1, <2>2, QuitLeavingBackup, Zenon DEF unpublished
<1> QED
  BY <1>2, <1>3

LEMMA KillProgramKeeps ==
    ASSUME BundleInv, NEW b \in Builders, KillProgram(b)
    PROVE  BundleInv'
<1>1. deaths' \in 0..MaxDeaths
  BY BundleAssumption, SMT DEF KillProgram, BundleInv, BundleTypeOK
<1> QED
  BY <1>1, QuitLeavingBackup, Zenon DEF KillProgram

LEMMA RemoveBackupKeeps ==
    ASSUME BundleInv, NEW b \in Builders, RemoveBackup(b)
    PROVE  BundleInv'
BY QuitStep, SMT DEF RemoveBackup, At

LEMMA InstallKeeps ==
    ASSUME BundleInv, NEW b \in Builders,
           InstallBlobs(b) \/ InstallManifest(b) \/ WriteReceipt(b)
    PROVE  BundleInv'
<1>1. /\ builds[b].does = "install" /\ builds[b].pc \in {"blobs", "model", "receipt"}
      /\ builds[b] \in BuildRows /\ builds[b].records \in Files
      /\ ProgramOK(builds[b]) /\ InstallOK(builds[b]) /\ BundleTypeOK
      /\ UNCHANGED <<readOnly, zip>>
  BY BuildTyped, StagedTyped, SMT
  DEF InstallBlobs, InstallManifest, WriteReceipt, At, BundleInv
<1>2. /\ builds[b].moved = Absent
      /\ builds[b].records.model \in builds[b].records.blobs
      /\ builds[b].pc \in {"model", "receipt"} =>
            builds[b].records.blobs \subseteq models.blobs
  BY <1>1, SMT DEF ProgramOK, InstallOK
<1>3. /\ models \in ModelRows /\ NamesOnlyWhole(models)
      /\ zip' \in Tree /\ programs' \in 0..MaxPrograms
      /\ UNCHANGED <<outputs, backups, deaths, published, swapped, pulled>>
  BY <1>1
  DEF BundleInv, BundleTypeOK, ModelRows, InstalledIsComplete, NamesOnlyWhole, readOnly
<1>4. ~ swapped => AbsentOrWhole(zip')
  BY <1>1, Zenon DEF BundleInv, PublishedIsWhole, AbsentOrWhole
<1>5. ASSUME Quits(b), models' \in ModelRows, models.blobs \subseteq models'.blobs,
             NamesOnlyWhole(models')
      PROVE  BundleInv'
  BY <1>1, <1>3, <1>4, <1>5, QuitIsOK, QuitsRow, QuietStep, SMT
<1>6. ASSUME NEW pc \in {"model", "receipt"}, Moves(b, [pc |-> pc]),
             models' \in ModelRows, models.blobs \subseteq models'.blobs,
             NamesOnlyWhole(models'), builds[b].records.blobs \subseteq models.blobs
      PROVE  BundleInv'
  <2> DEFINE r == Refilled(b, pc, builds[b].stage)
  <2>1. Became(b, r)
    BY <1>1, <1>6, MovesToPc DEF Refilled
  <2>2. r \in BuildRows /\ ProgramOK(r) /\ CopyOK(r)
    BY <1>1, <1>2, SMT DEF Refilled, BuildRows, BuildPcs, ProgramOK, CopyOK, Copies
  <2>3. r.records.blobs \subseteq models'.blobs
    BY <1>6 DEF Refilled
  <2> HIDE DEF r
  <2> QED
    BY <1>1, <1>3, <1>4, <1>6, <2>1, <2>2, <2>3, QuietStep, SMT
<1>7. CASE InstallBlobs(b)
  <2> DEFINE missing == builds[b].records.blobs \ models.blobs
  <2>1. CASE missing = {} /\ Moves(b, [pc |-> "model"]) /\ UNCHANGED models
    BY <1>3, <1>6, <2>1, SMT
  <2>2. ASSUME NEW v \in missing,
               models' = [models EXCEPT !.blobs = @ \cup {v}] /\ UNCHANGED builds
        PROVE  BundleInv'
    <3>1. /\ models' \in ModelRows /\ models.blobs \subseteq models'.blobs
          /\ NamesOnlyWhole(models')
      BY <1>1, <1>3, <2>2, SMT DEF ModelRows, NamesOnlyWhole, Files
    <3>2. Became(b, builds[b])
      BY <1>1, <2>2, SMT DEF Became, BundleTypeOK
    <3>3. ~ swapped => CopyOK(builds[b])
      BY DEF BundleInv
    <3>4. builds[b].pc # "place" 
      BY <1>1
    <3>5. builds[b].pc \in {"model", "receipt"} =>
             builds[b].records.blobs \subseteq models'.blobs
      BY <1>2, <3>1
    <3> QED
      BY <1>1, <1>3, <1>4, <3>1, <3>2, <3>3, <3>4, <3>5, QuietStep, Zenon
  <2>3. CASE Quits(b) /\ UNCHANGED models
    BY <1>3, <1>5, <2>3
  <2> QED
    BY <1>7, <2>1, <2>2, <2>3 DEF InstallBlobs
<1>8. CASE InstallManifest(b)
  <2> DEFINE wanted == builds[b].records.model
  <2>1. builds[b].pc = "model" /\ builds[b].records.blobs \subseteq models.blobs
    BY <1>2, <1>8 DEF InstallManifest, At
  <2>2. CASE Moves(b, [pc |-> "receipt"]) /\ UNCHANGED models
    BY <1>3, <1>6, <2>1, <2>2, SMT
  <2>3. CASE Moves(b, [pc |-> "receipt"]) /\ models' = [models EXCEPT !.model = wanted]
    <3>1. /\ models' \in ModelRows /\ models.blobs \subseteq models'.blobs
          /\ NamesOnlyWhole(models')
      BY <1>1, <1>2, <1>3, <2>1, <2>3, SMT DEF ModelRows, NamesOnlyWhole, Files
    <3> QED
      BY <1>6, <2>1, <2>3, <3>1, SMT
  <2>4. CASE Quits(b) /\ UNCHANGED models
    BY <1>3, <1>5, <2>4
  <2> QED
    BY <1>8, <2>2, <2>3, <2>4 DEF InstallManifest
<1>9. CASE WriteReceipt(b)
  <2>1. /\ builds[b].records.blobs \subseteq models.blobs /\ Quits(b)
        /\ models' = [models EXCEPT !.receipt = builds[b].records.model]
    BY <1>2, <1>9 DEF WriteReceipt, At
  <2>2. /\ models' \in ModelRows /\ models.blobs \subseteq models'.blobs
        /\ NamesOnlyWhole(models')
    BY <1>1, <1>2, <1>3, <2>1, SMT DEF ModelRows, NamesOnlyWhole, Files
  <2> QED
    BY <1>5, <2>1, <2>2
<1> QED
  BY <1>7, <1>8, <1>9

LEMMA OnlyPulled ==
    ASSUME BundleInv, pulled' \in [model : Versions, blobs : SUBSET Versions],
           UNCHANGED <<outputs, zip, backups, models, builds, programs, deaths,
                       published, swapped>>
    PROVE  BundleInv'
<1>1. BundleTypeOK'
  BY Zenon DEF BundleInv, BundleTypeOK
<1>2. PublishedIsWhole' /\ InstalledIsComplete'
  BY Zenon DEF BundleInv, PublishedIsWhole, InstalledIsComplete
<1>3. KeptInv'
  BY SMT DEF BundleInv, KeptInv, OutputOf
<1>4. \A b \in Builders : ProgramOK(builds'[b])
  BY DEF BundleInv
<1>5. \A b \in Builders : ~ swapped' => CopyOK(builds[b])'
  BY SMT DEF BundleInv, CopyOK
<1>6. \A b \in Builders : InstallOK(builds[b])'
  BY SMT DEF BundleInv, InstallOK
<1> QED
  BY <1>1, <1>2, <1>3, <1>4, <1>5, <1>6 DEF BundleInv

LEMMA PullKeeps ==
    ASSUME BundleInv, NEW v \in Versions, Pull(v)
    PROVE  BundleInv'
<1>1. PICK kept \in {{}, pulled.blobs} :
         pulled' = [model |-> v, blobs |-> kept \cup {v}]
  BY DEF Pull
<1>2. pulled' \in [model : Versions, blobs : SUBSET Versions]
  BY <1>1, SMT DEF BundleInv, BundleTypeOK
<1>3. UNCHANGED <<outputs, zip, backups, models, builds, programs, deaths, published,
                  swapped>>
  BY DEF Pull
<1> QED
  BY <1>2, <1>3, OnlyPulled

LEMMA BundleInvStep == BundleInv /\ [BundleNext]_bundleVars => BundleInv'
<1> SUFFICES ASSUME BundleInv, [BundleNext]_bundleVars
             PROVE  BundleInv'
  OBVIOUS
<1>1. CASE UNCHANGED bundleVars
  <2>1. pulled' \in [model : Versions, blobs : SUBSET Versions]
    BY <1>1 DEF bundleVars, BundleInv, BundleTypeOK
  <2> QED
    BY <1>1, <2>1, OnlyPulled DEF bundleVars
<1> QED
  BY <1>1, PullKeeps, StartingKeeps, AssemblyKeeps, CopySealKeeps, CopyingKeeps,
     WritePackageManifestKeeps, PublishZipKeeps, MoveAsideKeeps, PutInPlaceKeeps,
     PlaceFailsKeeps, RemoveBackupKeeps, InstallKeeps, KillProgramKeeps
  DEF BundleNext

\* Whatever is pulled, assembled, packaged, zipped and installed at once, and
\* wherever a program dies: a bundle that is there is whole, so are the package
\* and the archive unless their source was swapped while they were copied; what
\* was published is there or moved aside; an installed model has all its blobs.
THEOREM BundlesAreSound == BundleSpec => []BundleSound
<1>1. BundleInv => BundleSound
  BY DEF BundleInv, BundleSound, KeptInv, PublishedIsKept
<1>2. BundleInit => BundleInv
  BY BundleInvInit
<1>3. BundleInv /\ [BundleNext]_bundleVars => BundleInv'
  BY BundleInvStep
<1> QED
  BY <1>1, <1>2, <1>3, PTL DEF BundleSpec

-----------------------------------------------------------------------------
(***************************************************************************)
(* The memory.                                                             *)
(***************************************************************************)
\* Every label is a revision that has served, and a vector is labelled by its
\* own revision as long as no pull fell where no check can see it.
Served == past \cup {serving}
SoundRow(row) ==
    row \in LessonRow =>
       /\ row.label \in Served \cup {Nothing}
       /\ ~moved /\ Usable(row) /\ row.label # Nothing => row.vector = row.label

\* A call that embeds rows anew is bound to what it set out with.  While the
\* revision that serves has not served before, a refresh for another one has
\* selected no row that it labelled.
Refreshing == {"lessons", "turns"}
SelectedBefore(tool, row) ==
    row # NoRow => /\ row.label \in Served \cup {Nothing}
                   /\ serving \notin past /\ tool.target # serving
                      => row.label # serving
BoundCall(tool) ==
    /\ tool.pc \in {"make", "store"} => tool.bound \in Served
    /\ tool.pc = "store" => tool.vector \in {tool.bound, Nothing}
    /\ tool.kind \in Refreshing =>
          /\ tool.target \in Served
          /\ ~moved /\ tool.pc = "bind" => tool.target = serving
          /\ ~moved /\ tool.pc \in {"make", "store"} => tool.bound = tool.target
    /\ \A i \in Entries : SelectedBefore(tool, tool.left[i])

VectorsInv ==
    /\ \A i \in Entries : SoundRow(entries[i])
    /\ \A j \in Tools : BoundCall(tools[j])

\* What was learnt and is not private has a lesson that no plan of deletions
\* names; ids that were never used are in no plan.
Used == {l \in Lessons : entries[l] # NoRow}
Deletes(tool, l) == tool.pc = "delete" /\ l \in tool.plan
Remains(m) ==
    \E l \in There(Lessons) : /\ Meaning(entries[l].text) = m
                              /\ \A j \in Tools : ~Deletes(tools[j], l)
KnowledgeInv ==
    /\ \A j \in Tools, l \in Lessons : Deletes(tools[j], l) => l \in Used
    /\ ~crossed => \A j, k \in Tools :
          tools[j].pc = "delete" /\ tools[k].pc = "delete" => j = k
    /\ ~crossed /\ ~moved => \A m \in learnt :
          (\E t \in Private : Meaning(t) = m) \/ Remains(m)

\* A repair has read every lesson that is there, and takes none for an orphan.
ReadsAll(tool) ==
    /\ tool.pc = "fts" => There(Lessons) \subseteq tool.plan
    /\ tool.pc = "heal" => tool.orphans \cap There(Lessons) = {}
MirrorInv ==
    /\ fts \subseteq Used
    /\ \A j \in Tools : tools[j].pc = "heal" => tools[j].orphans \subseteq Used
    /\ ~misread => /\ There(NewLessons) \subseteq fts
                   /\ \A j \in Tools : ReadsAll(tools[j])

MemoryInv == MemoryTypeOK /\ VectorsInv /\ KnowledgeInv /\ MirrorInv

\* A row is no id that was never used, nor one that was deleted.
LEMMA RowsAreRows ==
    /\ NoRow \notin LessonRow /\ Deleted \notin LessonRow
    /\ Deleted # NoRow
    /\ \A row \in LessonRow \cup {NoRow, Deleted} :
          row \in LessonRow <=> row \notin {NoRow, Deleted}
<1>1. NoRow.vector = "none" /\ Deleted.vector = "gone"
  BY DEF NoRow, Deleted
<1>2. \A row \in LessonRow : row.vector \in Revisions \cup {Nothing, Damaged}
  BY DEF LessonRow
<1>3. QED BY <1>1, <1>2, MemoryAssumption

LEMMA IdleToolFacts ==
    /\ IdleTool \in Tool /\ IdleTool.pc = "idle" /\ IdleTool.kind = "learn"
    /\ \A i \in Entries : IdleTool.left[i] = NoRow
<1>1. (CHOOSE t \in Texts : TRUE) \in Texts /\ (CHOOSE r \in Revisions : TRUE) \in Revisions
  BY MemoryAssumption
<1>2. NoPlan \in [Entries -> LessonRow \cup {NoRow}]
  BY DEF NoPlan
<1>3. QED BY <1>1, <1>2 DEF IdleTool, Tool, ToolPcs, Kinds, NoPlan

LEMMA ToTool ==
    ASSUME MemoryTypeOK, NEW j \in Tools, NEW tool \in Tool, To(j, tool)
    PROVE  /\ tools' \in [Tools -> Tool] /\ tools'[j] = tool
           /\ \A k \in Tools : k # j => tools'[k] = tools[k]
BY DEF MemoryTypeOK, To

\* Steps that leave the model alone.
LEMMA VectorsKept ==
    ASSUME MemoryTypeOK, VectorsInv, UNCHANGED <<model, moved>>,
           NEW j \in Tools, NEW tool \in Tool, To(j, tool), BoundCall(tool),
           \A i \in Entries : entries'[i] = entries[i] \/ SoundRow(entries'[i])
    PROVE  VectorsInv'
<1>1. UNCHANGED <<serving, past, moved>>
  BY DEF model
<1>2. ASSUME NEW i \in Entries PROVE SoundRow(entries[i])'
  BY <1>1, <1>2 DEF VectorsInv, SoundRow, Served, Usable
<1>3. ASSUME NEW k \in Tools PROVE BoundCall(tools[k])'
  <2>1. BoundCall(tools'[k])
    BY <1>3, ToTool DEF VectorsInv
  <2>2. QED BY <1>1, <2>1 DEF BoundCall, SelectedBefore, Served
<1>4. QED BY <1>2, <1>3 DEF VectorsInv

\* Steps that delete nothing and learn nothing.
LEMMA KnowledgeStays ==
    ASSUME MemoryTypeOK, KnowledgeInv, UNCHANGED <<crossed, moved, learnt>>,
           NEW j \in Tools, NEW tool \in Tool, To(j, tool), tool.pc # "delete",
           \A l \in Lessons : /\ l \in Used => l \in Used'
                              /\ l \in There(Lessons) =>
                                    /\ l \in There(Lessons)'
                                    /\ entries'[l].text = entries[l].text
    PROVE  KnowledgeInv'
<1>1. ASSUME NEW k \in Tools, NEW l, Deletes(tools'[k], l) PROVE Deletes(tools[k], l)
  BY <1>1, ToTool DEF Deletes
<1>2. \A k \in Tools : tools'[k].pc = "delete" => tools[k].pc = "delete"
  BY ToTool
<1>3. ASSUME NEW m, Remains(m) PROVE Remains(m)'
  <2>1. PICK l \in There(Lessons) : /\ Meaning(entries[l].text) = m
                                    /\ \A k \in Tools : ~Deletes(tools[k], l)
    BY <1>3 DEF Remains
  <2>2. l \in Lessons /\ l \in There(Lessons)' /\ Meaning(entries'[l].text) = m
    BY <2>1 DEF There, Meaning
  <2>3. QED BY <2>1, <2>2, <1>1 DEF Remains
<1>4. QED BY <1>1, <1>2, <1>3 DEF KnowledgeInv, Deletes

\* Steps that neither repair nor add or delete a lesson.
LEMMA MirrorStays ==
    ASSUME MemoryTypeOK, MirrorInv, UNCHANGED <<fts, misread>>,
           NEW j \in Tools, NEW tool \in Tool, To(j, tool), tool.pc \notin {"fts", "heal"},
           Used' = Used, There(Lessons)' = There(Lessons)
    PROVE  MirrorInv'
<1>1. \A k \in Tools : tools'[k].pc \in {"fts", "heal"} => tools'[k] = tools[k]
  BY ToTool
<1>2. /\ There(NewLessons) = There(Lessons) \cap NewLessons
      /\ There(NewLessons)' = There(Lessons)' \cap NewLessons
  BY DEF There, Lessons
<1>3. \A k \in Tools : ReadsAll(tools[k]) => ReadsAll(tools[k])'
  BY <1>1 DEF ReadsAll
<1>4. QED BY <1>1, <1>2, <1>3 DEF MirrorInv

\* The calls that read, ask the endpoint or plan: a call's own step, with rows,
\* mirror, lessons learnt and model untouched.
LEMMA OwnStep ==
    ASSUME MemoryInv, NEW j \in Tools, NEW tool \in Tool, To(j, tool), BoundCall(tool),
           UNCHANGED <<entries, fts, model, learnt, crossed, moved, misread>>,
           started' \in 0..MaxCalls,
           tool.pc # "delete", tool.pc \notin {"fts", "heal"}
    PROVE  MemoryInv'
<1>1. MemoryTypeOK'
  BY ToTool DEF MemoryInv, MemoryTypeOK, model
<1>2. VectorsInv'
  BY VectorsKept DEF MemoryInv
<1>3. Used' = Used /\ There(Lessons)' = There(Lessons)
  BY DEF Used, There
<1>4. KnowledgeInv'
  BY <1>3, KnowledgeStays DEF MemoryInv
<1>5. MirrorInv'
  BY <1>3, MirrorStays DEF MemoryInv
<1>6. QED BY <1>1, <1>2, <1>4, <1>5 DEF MemoryInv

LEMMA IdleIsBound == BoundCall(IdleTool)
BY IdleToolFacts DEF BoundCall, SelectedBefore, Refreshing

LEMMA EndsKeeps ==
    ASSUME MemoryInv, NEW j \in Tools, Ends(j),
           UNCHANGED <<entries, fts, model, started, learnt, crossed, moved, misread>>
    PROVE  MemoryInv'
BY OwnStep, IdleToolFacts, IdleIsBound DEF Ends, MemoryInv, MemoryTypeOK

LEMMA CallKeeps ==
    ASSUME MemoryInv, NEW j \in Tools, NEW kind \in Kinds, NEW text \in Texts,
           Call(j, kind, text)
    PROVE  MemoryInv'
<1> DEFINE known == kind = "merge" /\ \E l \in There(Lessons) : entries[l].text = text
           target == IF kind \in {"lessons", "turns"} THEN serving ELSE IdleTool.target
           pc == CASE kind \in {"learn", "merge", "turn"} -> "bind"
                       [] kind = "heal" -> "ids"
                       [] OTHER -> "plan"
           tool == [IdleTool EXCEPT !.kind = kind, !.text = text, !.target = target,
                                    !.known = known, !.pc = pc]
<1>1. To(j, tool) /\ started' = started + 1 /\ started < MaxCalls
      /\ UNCHANGED <<entries, fts, model, learnt, crossed, moved, misread>>
  BY DEF Call
<1>2. target \in Revisions /\ known \in BOOLEAN /\ pc \in {"bind", "ids", "plan"}
      /\ (kind \in Refreshing => pc = "plan" /\ target = serving)
  BY IdleToolFacts DEF MemoryInv, MemoryTypeOK, Refreshing, Tool
<1> HIDE DEF known, target, pc
<1>3. /\ tool \in Tool /\ tool.pc = pc /\ tool.kind = kind /\ tool.target = target
      /\ tool.left = IdleTool.left
  BY <1>2, IdleToolFacts DEF Tool, ToolPcs
<1> HIDE DEF tool
<1>4. BoundCall(tool)
  BY <1>2, <1>3, IdleToolFacts DEF BoundCall, SelectedBefore, Served
<1>5. QED BY <1>1, <1>2, <1>3, <1>4, OwnStep, MemoryAssumption DEF MemoryInv, MemoryTypeOK

LEMMA BindRevisionKeeps ==
    ASSUME MemoryInv, NEW j \in Tools, BindRevision(j) PROVE MemoryInv'
<1> DEFINE tool == [tools[j] EXCEPT !.pc = "make", !.bound = serving]
<1>1. /\ tool \in Tool /\ tool.pc = "make" /\ tool.bound = serving
      /\ tool.kind = tools[j].kind /\ tool.target = tools[j].target
      /\ tool.left = tools[j].left
  BY DEF MemoryInv, MemoryTypeOK, Tool, ToolPcs
<1>2. BoundCall(tool)
  BY <1>1 DEF MemoryInv, VectorsInv, BoundCall, SelectedBefore, Served, BindRevision
<1>3. QED BY <1>1, <1>2, OwnStep DEF BindRevision, MemoryInv, MemoryTypeOK

LEMMA MakeVectorKeeps ==
    ASSUME MemoryInv, NEW j \in Tools, MakeVector(j) PROVE MemoryInv'
<1>1. PICK v \in {serving, Nothing} :
        To(j, [tools[j] EXCEPT !.pc = "store",
                   !.vector = IF serving = tools[j].bound THEN v ELSE Nothing])
  BY DEF MakeVector
<1> DEFINE made == IF serving = tools[j].bound THEN v ELSE Nothing
           tool == [tools[j] EXCEPT !.pc = "store", !.vector = made]
<1>2. made \in {tools[j].bound, Nothing} /\ made \in Revisions \cup {Nothing}
  BY DEF MemoryInv, MemoryTypeOK
<1> HIDE DEF made
<1>3. /\ tool \in Tool /\ tool.pc = "store" /\ tool.bound = tools[j].bound
      /\ tool.vector = made /\ tool.kind = tools[j].kind
      /\ tool.target = tools[j].target /\ tool.left = tools[j].left
  BY <1>2 DEF MemoryInv, MemoryTypeOK, Tool, ToolPcs
<1>4. BoundCall(tool)
  BY <1>2, <1>3 DEF MemoryInv, VectorsInv, BoundCall, SelectedBefore, Served, MakeVector
<1>5. To(j, tool)
  BY <1>1 DEF made
<1>6. QED BY <1>3, <1>4, <1>5, OwnStep DEF MakeVector, MemoryInv, MemoryTypeOK

\* What a refresh selects is selected under the revision that serves.
LEMMA SelectKeeps ==
    ASSUME MemoryInv, NEW j \in Tools, NEW S \in SUBSET Entries,
           tools[j].pc = "plan", serving = tools[j].target,
           To(j, [tools[j] EXCEPT !.pc = "check", !.left = ToRefresh(S)]),
           \A i \in S : entries[i] \in LessonRow,
           UNCHANGED <<entries, fts, model, started, learnt, crossed, moved, misread>>
    PROVE  MemoryInv'
<1> DEFINE left == ToRefresh(S)
           tool == [tools[j] EXCEPT !.pc = "check", !.left = left]
<1>1. left = [i \in Entries |-> IF i \in S THEN entries[i] ELSE NoRow]
  BY DEF ToRefresh
<1>2. To(j, tool)
  OBVIOUS
<1> HIDE DEF left
<1>3. /\ left \in [Entries -> LessonRow \cup {NoRow}]
      /\ \A i \in Entries : left[i] # NoRow => i \in S /\ left[i] = entries[i]
  BY <1>1
<1>4. /\ tool \in Tool /\ tool.pc = "check" /\ tool.kind = tools[j].kind
      /\ tool.target = tools[j].target /\ tool.left = left
  BY <1>3 DEF MemoryInv, MemoryTypeOK, Tool, ToolPcs
<1> HIDE DEF tool
<1>5. ASSUME NEW i \in Entries PROVE SelectedBefore(tool, tool.left[i])
  BY <1>3, <1>4 DEF SelectedBefore, MemoryInv, VectorsInv, SoundRow
<1>6. BoundCall(tool)
  BY <1>4, <1>5 DEF BoundCall, Served
<1>7. QED BY <1>4, <1>2, <1>6, OwnStep DEF MemoryInv, MemoryTypeOK

LEMMA ThereAreRows ==
    ASSUME MemoryTypeOK, NEW S \in SUBSET Entries
    PROVE  There(S) = {i \in S : entries[i] \in LessonRow}
BY RowsAreRows DEF There, MemoryTypeOK

LEMMA SelectLessonsKeeps ==
    ASSUME MemoryInv, NEW j \in Tools, SelectLessons(j) PROVE MemoryInv'
<1>1. CASE serving # tools[j].target
  BY <1>1, EndsKeeps DEF SelectLessons
<1>2. CASE serving = tools[j].target
  <2> DEFINE S == {l \in There(Lessons) : NeedsRefresh(entries[l], tools[j].target)}
  <2>1. S \in SUBSET Entries /\ \A i \in S : entries[i] \in LessonRow
    BY ThereAreRows DEF Entries, MemoryInv
  <2>2. To(j, [tools[j] EXCEPT !.pc = "check", !.left = ToRefresh(S)])
    BY <1>2 DEF SelectLessons
  <2> HIDE DEF S
  <2>3. QED BY <1>2, <2>1, <2>2, SelectKeeps DEF SelectLessons
<1>3. QED BY <1>1, <1>2

LEMMA SelectTurnsKeeps ==
    ASSUME MemoryInv, NEW j \in Tools, SelectTurns(j) PROVE MemoryInv'
<1>1. CASE serving # tools[j].target
  BY <1>1, EndsKeeps DEF SelectTurns
<1>2. CASE serving = tools[j].target
  <2> DEFINE S == {i \in There(Turns) : TurnNeedsRefresh(entries[i], tools[j].target)}
  <2>1. S \in SUBSET Entries /\ \A i \in S : entries[i] \in LessonRow
    BY ThereAreRows DEF Entries, MemoryInv
  <2>2. To(j, [tools[j] EXCEPT !.pc = "check", !.left = ToRefresh(S)])
    BY <1>2 DEF SelectTurns
  <2> HIDE DEF S
  <2>3. QED BY <1>2, <2>1, <2>2, SelectKeeps DEF SelectTurns
<1>3. QED BY <1>1, <1>2

\* A refresh that goes on to its next row targets the revision that serves;
\* SelectTurns and SelectLessons start only refreshes.
LEMMA CheckRevisionKeeps ==
    ASSUME MemoryInv, NEW j \in Tools, CheckRevision(j) PROVE MemoryInv'
<1>1. CASE Selection(tools[j]) = {} \/ serving # tools[j].target
  BY <1>1, EndsKeeps DEF CheckRevision
<1>2. CASE Selection(tools[j]) # {} /\ serving = tools[j].target
  <2> DEFINE tool == [tools[j] EXCEPT !.pc = "bind"]
  <2>1. /\ tool \in Tool /\ tool.pc = "bind" /\ tool.kind = tools[j].kind
        /\ tool.target = tools[j].target /\ tool.left = tools[j].left
    BY DEF MemoryInv, MemoryTypeOK, Tool, ToolPcs
  <2>2. BoundCall(tool)
    BY <1>2, <2>1 DEF MemoryInv, VectorsInv, BoundCall, SelectedBefore, Served
  <2>3. QED BY <1>2, <2>1, <2>2, OwnStep DEF CheckRevision, MemoryInv, MemoryTypeOK
<1>3. QED BY <1>1, <1>2 DEF CheckRevision

LEMMA RefreshRowKeeps ==
    ASSUME MemoryInv, NEW j \in Tools, RefreshRow(j) PROVE MemoryInv'
<1>1. PICK i \in Selection(tools[j]) :
         /\ entries' = IF tools[j].vector # Nothing /\ i \in There(Entries)
                       /\ StillSelected(tools[j], i)
                    THEN [entries EXCEPT ![i] =
                            [text |-> entries[i].text, vector |-> tools[j].vector,
                             label |-> tools[j].target]]
                    ELSE entries
         /\ To(j, [tools[j] EXCEPT !.pc = "check", !.left[i] = NoRow])
  BY DEF RefreshRow
<1> DEFINE row == [text |-> entries[i].text, vector |-> tools[j].vector,
                   label |-> tools[j].target]
           left == [tools[j].left EXCEPT ![i] = NoRow]
           tool == [tools[j] EXCEPT !.pc = "check", !.left = left]
<1>2. MemoryTypeOK /\ i \in Entries /\ tools[j] \in Tool
      /\ tools[j].pc = "store" /\ tools[j].kind \in Refreshing
      /\ UNCHANGED <<fts, model, started, learnt, crossed, moved, misread>>
  BY <1>1 DEF MemoryInv, MemoryTypeOK, Selection, RefreshRow, Refreshing
<1>3. /\ left \in [Entries -> LessonRow \cup {NoRow}]
      /\ \A k \in Entries : left[k] = NoRow \/ left[k] = tools[j].left[k]
  BY <1>2 DEF Tool
<1>4. To(j, tool)
  BY <1>1
<1> HIDE DEF left
<1>5. /\ tool \in Tool /\ tool.pc = "check" /\ tool.kind = tools[j].kind
      /\ tool.target = tools[j].target /\ tool.left = left
  BY <1>2, <1>3 DEF Tool, ToolPcs
<1> HIDE DEF tool
<1>6. BoundCall(tools[j])
  BY DEF MemoryInv, VectorsInv
<1>7. BoundCall(tool)
  BY <1>3, <1>5, <1>6 DEF BoundCall, SelectedBefore
<1>8. entries' = entries \/ /\ entries' = [entries EXCEPT ![i] = row]
                            /\ entries[i] \in LessonRow /\ row \in LessonRow
                            /\ row.text = entries[i].text
                            /\ SoundRow(row)
  <2>1. CASE tools[j].vector # Nothing /\ i \in There(Entries) /\ StillSelected(tools[j], i)
    <3>1. entries[i] \in LessonRow
      BY <1>2, <2>1, ThereAreRows
    <3>2. row \in LessonRow /\ row.text = entries[i].text /\ row.vector = tools[j].vector
          /\ row.label = tools[j].target
      BY <1>2, <3>1 DEF LessonRow, Tool
    <3>3. row.label \in Served /\ (~moved => row.vector = row.label)
      BY <1>2, <1>6, <2>1, <3>2 DEF BoundCall
    <3>4. QED BY <1>1, <2>1, <3>1, <3>2, <3>3 DEF SoundRow
  <2>2. QED BY <1>1, <2>1
<1> HIDE DEF row
<1>9. MemoryTypeOK'
  BY <1>2, <1>4, <1>5, <1>8, ToTool DEF MemoryTypeOK, model
<1>10. VectorsInv'
  <2>1. \A k \in Entries : entries'[k] = entries[k] \/ SoundRow(entries'[k])
    BY <1>2, <1>8 DEF MemoryTypeOK
  <2>2. QED BY <1>2, <1>4, <1>5, <1>7, <2>1, VectorsKept DEF MemoryInv
<1>11. /\ Used' = Used /\ There(Lessons)' = There(Lessons)
       /\ \A l \in Lessons : entries'[l].text = entries[l].text
  BY <1>2, <1>8, RowsAreRows DEF Used, There, MemoryTypeOK, Entries
<1>12. KnowledgeInv'
  BY <1>2, <1>4, <1>5, <1>11, KnowledgeStays DEF MemoryInv
<1>13. MirrorInv'
  BY <1>2, <1>4, <1>5, <1>11, MirrorStays DEF MemoryInv
<1>14. QED BY <1>9, <1>10, <1>12, <1>13 DEF MemoryInv

\* What a call stores is labelled by the revision it was bound to.
LEMMA LabelledFacts ==
    ASSUME MemoryInv, NEW j \in Tools, tools[j].pc = "store"
    PROVE  /\ Labelled(tools[j]) \in LessonRow /\ SoundRow(Labelled(tools[j]))
           /\ Labelled(tools[j]).text = tools[j].text
<1>1. tools[j] \in Tool /\ BoundCall(tools[j])
  BY DEF MemoryInv, MemoryTypeOK, VectorsInv
<1>2. Labelled(tools[j]) \in LessonRow
  BY <1>1 DEF Labelled, LessonRow, Tool
<1>3. SoundRow(Labelled(tools[j]))
  BY <1>1 DEF BoundCall, SoundRow, Labelled, Usable
<1>4. QED BY <1>2, <1>3 DEF Labelled

\* An added lesson takes an id no plan and no mirror knows.
LEMMA InsertKeeps ==
    ASSUME MemoryInv, NEW j \in Tools, NEW row \in LessonRow, SoundRow(row),
           InsertLesson(row), Ends(j), UNCHANGED <<model, started, crossed, moved>>
    PROVE  MemoryInv'
<1>1. PICK l \in NewId : entries' = [entries EXCEPT ![l] = row] /\ fts' = fts \cup {l}
  BY DEF InsertLesson
<1>2. l \in NewLessons /\ l \in Lessons /\ l \in Entries /\ entries[l] = NoRow
  <2> DEFINE new == {k \in NewLessons : entries[k] = NoRow}
  <2>1. new # {} /\ l = CHOOSE k \in new : TRUE
    BY DEF NewId
  <2>2. l \in new
    BY <2>1
  <2>3. QED BY <2>2 DEF Lessons, Entries
<1>3. /\ entries'[l] = row /\ row \notin {NoRow, Deleted}
      /\ \A k \in Entries : k # l => entries'[k] = entries[k]
      /\ entries' \in [Entries -> LessonRow \cup {NoRow, Deleted}]
  BY <1>1, <1>2, RowsAreRows DEF MemoryInv, MemoryTypeOK
<1>4. /\ There(Lessons)' = There(Lessons) \cup {l} /\ l \notin There(Lessons)
      /\ There(NewLessons)' = There(NewLessons) \cup {l}
      /\ Used' = Used \cup {l} /\ l \notin Used
  BY <1>2, <1>3, RowsAreRows DEF There, Used, Lessons, Entries
<1>5. To(j, IdleTool) /\ IdleTool \in Tool /\ IdleTool.pc = "idle" /\ BoundCall(IdleTool)
  BY IdleToolFacts, IdleIsBound DEF Ends
<1>6. /\ tools' \in [Tools -> Tool] /\ tools'[j] = IdleTool
      /\ \A k \in Tools : k # j => tools'[k] = tools[k]
  BY <1>5, ToTool DEF MemoryInv
<1>7. MemoryTypeOK'
  BY <1>1, <1>2, <1>3, <1>6 DEF MemoryInv, MemoryTypeOK, model
<1>8. VectorsInv'
  <2>1. \A k \in Entries : entries'[k] = entries[k] \/ SoundRow(entries'[k])
    BY <1>3
  <2>2. QED BY <1>5, <2>1, VectorsKept DEF MemoryInv
<1>9. KnowledgeInv'
  <2>1. ASSUME NEW k \in Tools, NEW i, Deletes(tools'[k], i) PROVE Deletes(tools[k], i)
    BY <2>1, <1>5, <1>6 DEF Deletes
  <2>2. ASSUME NEW m, Remains(m) PROVE Remains(m)'
    <3>1. PICK k \in There(Lessons) : /\ Meaning(entries[k].text) = m
                                      /\ \A i \in Tools : ~Deletes(tools[i], k)
      BY <2>2 DEF Remains
    <3>2. k \in There(Lessons)' /\ entries'[k] = entries[k]
      BY <1>3, <1>4, <3>1 DEF There, Entries
    <3>3. QED BY <3>1, <3>2, <2>1 DEF Remains, Meaning
  <2>3. Remains(Meaning(row.text))'
    <3>1. \A k \in Tools : ~Deletes(tools'[k], l)
      BY <1>2, <1>4, <2>1 DEF MemoryInv, KnowledgeInv
    <3>2. QED BY <3>1, <1>3, <1>4 DEF Remains, Meaning
  <2>4. learnt' = learnt \cup {Meaning(row.text)}
    BY DEF InsertLesson
  <2>5. \A k \in Tools, i \in Lessons : Deletes(tools'[k], i) => i \in Used'
    BY <1>4, <2>1 DEF MemoryInv, KnowledgeInv
  <2>6. \A k \in Tools : tools'[k].pc = "delete" => tools[k].pc = "delete"
    BY <1>5, <1>6
  <2>7. QED BY <2>2, <2>3, <2>4, <2>5, <2>6 DEF MemoryInv, KnowledgeInv
<1>10. MirrorInv'
  <2>1. misread' = (misread \/ \E k \in Tools : tools[k].pc = "fts")
    BY DEF InsertLesson
  <2>2. fts' \subseteq Used'
    BY <1>1, <1>4 DEF MemoryInv, MirrorInv
  <2>3. \A k \in Tools : tools'[k].pc = "heal" => tools'[k].orphans \subseteq Used'
    BY <1>4, <1>5, <1>6 DEF MemoryInv, MirrorInv
  <2>4. ASSUME ~misread' PROVE There(NewLessons)' \subseteq fts'
    BY <1>1, <1>4, <2>1, <2>4 DEF MemoryInv, MirrorInv
  <2>5. ASSUME ~misread', NEW k \in Tools PROVE ReadsAll(tools[k])'
    <3>1. tools'[k] = IdleTool \/ (tools'[k] = tools[k] /\ tools[k].pc # "fts")
      BY <1>6, <2>1, <2>5
    <3>2. ASSUME tools'[k].pc = "heal" PROVE tools'[k].orphans \cap There(Lessons)' = {}
      <4>1. tools[k].orphans \subseteq Used /\ tools[k].orphans \cap There(Lessons) = {}
            /\ tools'[k] = tools[k]
        BY <1>5, <2>1, <2>5, <3>1, <3>2 DEF MemoryInv, MirrorInv, ReadsAll
      <4>2. QED BY <4>1, <1>4
    <3>3. QED BY <1>5, <3>1, <3>2 DEF ReadsAll
  <2>6. QED BY <2>2, <2>3, <2>4, <2>5 DEF MirrorInv
<1>11. QED BY <1>7, <1>8, <1>9, <1>10 DEF MemoryInv

LEMMA StoreLessonKeeps ==
    ASSUME MemoryInv, NEW j \in Tools, StoreLesson(j) PROVE MemoryInv'
<1> DEFINE row == Labelled(tools[j])
           known == IF tools[j].kind = "merge" THEN tools[j].known
                    ELSE ExactDuplicate(row.text)
<1>1. CASE known \/ NearDuplicate(row)
  BY <1>1, EndsKeeps DEF StoreLesson
<1>2. CASE ~(known \/ NearDuplicate(row))
  <2>1. InsertLesson(row) /\ Ends(j) /\ UNCHANGED <<model, started, crossed, moved>>
    BY <1>2 DEF StoreLesson
  <2>2. row \in LessonRow /\ SoundRow(row)
    BY LabelledFacts DEF StoreLesson
  <2>3. QED BY <2>1, <2>2, InsertKeeps
<1>3. QED BY <1>1, <1>2

LEMMA StoreTurnKeeps ==
    ASSUME MemoryInv, NEW j \in Tools, StoreTurn(j) PROVE MemoryInv'
<1>1. PICK i \in Turns : entries[i] = NoRow
                         /\ entries' = [entries EXCEPT ![i] = Labelled(tools[j])]
  BY DEF StoreTurn
<1>2. Labelled(tools[j]) \in LessonRow /\ SoundRow(Labelled(tools[j]))
  BY LabelledFacts DEF StoreTurn
<1>3. /\ i \in Entries /\ i \notin Lessons /\ Lessons \subseteq Entries
      /\ entries \in [Entries -> LessonRow \cup {NoRow, Deleted}]
  BY MemoryAssumption DEF Entries, MemoryInv, MemoryTypeOK
<1>4. /\ \A l \in Lessons : entries'[l] = entries[l]
      /\ \A k \in Entries : entries'[k] = entries[k] \/ SoundRow(entries'[k])
      /\ entries' \in [Entries -> LessonRow \cup {NoRow, Deleted}]
  BY <1>1, <1>2, <1>3
<1>5. Used' = Used /\ There(Lessons)' = There(Lessons)
  BY <1>4 DEF Used, There
<1>6. /\ To(j, IdleTool) /\ IdleTool \in Tool /\ IdleTool.pc = "idle" /\ BoundCall(IdleTool)
      /\ UNCHANGED <<fts, model, started, learnt, crossed, moved, misread>>
  BY IdleToolFacts, IdleIsBound DEF Ends, StoreTurn
<1>7. MemoryTypeOK'
  BY <1>4, <1>6, ToTool DEF MemoryInv, MemoryTypeOK, model
<1>8. VectorsInv'
  BY <1>4, <1>6, VectorsKept DEF MemoryInv
<1>9. KnowledgeInv'
  BY <1>4, <1>5, <1>6, KnowledgeStays DEF MemoryInv
<1>10. MirrorInv'
  BY <1>5, <1>6, MirrorStays DEF MemoryInv
<1>11. QED BY <1>7, <1>8, <1>9, <1>10 DEF MemoryInv

\* Every plan of deletions spares a lesson of every meaning that is not private.
LEMMA NearPlanSpares ==
    ASSUME NEW l \in There(Lessons)
    PROVE  \E k \in There(Lessons) \ NearPlan :
              Meaning(entries[k].text) = Meaning(entries[l].text)
<1>1. CASE l \notin NearPlan
  BY <1>1
<1>2. CASE l \in NearPlan
  <2> DEFINE k == Keeper(Cluster(l))
  <2>1. Cluster(l) # {}
    BY <1>2 DEF NearPlan
  <2>2. \E o \in Cluster(l) : Old \in Cluster(l) => o = Old
    BY <2>1
  <2>3. k \in Cluster(l)
    BY <2>2 DEF Keeper
  <2>4. k \in There(Lessons) /\ Near(l, k)
    BY <2>3 DEF Cluster
  <2>5. Cluster(k) = Cluster(l)
    BY <2>4 DEF Cluster, Near, Comparable
  <2>6. k = Keeper(Cluster(k))
    BY <2>5
  <2>7. k \notin NearPlan
    BY <2>6 DEF NearPlan
  <2>8. QED BY <2>4, <2>7 DEF Near
<1>3. QED BY <1>1, <1>2

LEMMA PlansSpare ==
    ASSUME NEW kind \in Deleting, NEW plan \in Plans(kind)
    PROVE  /\ plan \subseteq There(Lessons)
           /\ \A l \in There(Lessons) :
                 \/ \E t \in Private : Meaning(t) = Meaning(entries[l].text)
                 \/ \E k \in There(Lessons) \ plan :
                       Meaning(entries[k].text) = Meaning(entries[l].text)
<1>1. CASE kind = "dedupe"
  <2>1. plan \in ExactPlans
    BY <1>1 DEF Plans
  <2>2. plan \subseteq There(Lessons)
    BY <2>1 DEF ExactPlans
  <2>3. ASSUME NEW l \in There(Lessons)
        PROVE  \E k \in There(Lessons) \ plan :
                  Meaning(entries[k].text) = Meaning(entries[l].text)
    <3>1. PICK k \in There(Lessons) :
            {o \in There(Lessons) \ plan : entries[o].text = entries[l].text} = {k}
      BY <2>1 DEF ExactPlans
    <3>2. k \in There(Lessons) \ plan /\ entries[k].text = entries[l].text
      BY <3>1
    <3>3. QED BY <3>2
  <2>4. QED BY <2>2, <2>3
<1>2. CASE kind = "prune"
  BY <1>2, NearPlanSpares DEF Plans, NearPlan
<1>3. CASE kind = "privacy"
  <2>1. plan = PrivatePlan
    BY <1>3 DEF Plans
  <2>2. QED BY <2>1 DEF PrivatePlan
<1>4. QED BY <1>1, <1>2, <1>3 DEF Deleting

LEMMA PlanDeletionsKeeps ==
    ASSUME MemoryInv, NEW j \in Tools, PlanDeletions(j) PROVE MemoryInv'
<1>1. PICK plan \in Plans(tools[j].kind) :
        To(j, [tools[j] EXCEPT !.pc = "delete", !.plan = plan])
  BY DEF PlanDeletions
<1> DEFINE tool == [tools[j] EXCEPT !.pc = "delete", !.plan = plan]
<1>2. /\ tools[j].pc = "plan" /\ tools[j].kind \in Deleting /\ tools[j] \in Tool
      /\ crossed' = (crossed \/ \E k \in Tools : tools[k].pc = "delete")
      /\ UNCHANGED <<entries, fts, model, started, learnt, moved, misread>>
  BY DEF PlanDeletions, MemoryInv, MemoryTypeOK
<1>3. plan \subseteq There(Lessons) /\ There(Lessons) \subseteq Lessons
  BY <1>2, PlansSpare DEF There
<1>4. /\ tool \in Tool /\ tool.pc = "delete" /\ tool.plan = plan
      /\ tool.kind = tools[j].kind
      /\ tool.left = tools[j].left /\ tool.target = tools[j].target
  BY <1>2, <1>3 DEF Tool, ToolPcs
<1>5. BoundCall(tool)
  BY <1>2, <1>4 DEF MemoryInv, VectorsInv, BoundCall, SelectedBefore, Deleting, Refreshing
<1>6. To(j, tool)
  BY <1>1
<1> HIDE DEF tool
<1>7. /\ tools' \in [Tools -> Tool] /\ tools'[j] = tool
      /\ \A k \in Tools : k # j => tools'[k] = tools[k]
  BY <1>4, <1>6, ToTool DEF MemoryInv
<1>8. Used' = Used /\ There(Lessons)' = There(Lessons)
  BY <1>2 DEF Used, There
<1>9. MemoryTypeOK'
  BY <1>2, <1>7 DEF MemoryInv, MemoryTypeOK, model
<1>10. VectorsInv'
  BY <1>2, <1>4, <1>5, <1>6, VectorsKept DEF MemoryInv
<1>11. MirrorInv'
  BY <1>2, <1>4, <1>6, <1>8, MirrorStays DEF MemoryInv
<1>12. KnowledgeInv'
  <2>1. ASSUME NEW k \in Tools, NEW l \in Lessons, Deletes(tools'[k], l) PROVE l \in Used'
    <3>1. CASE k = j
      BY <3>1, <2>1, <1>3, <1>4, <1>7, <1>8 DEF Deletes, There, Used
    <3>2. CASE k # j
      BY <3>2, <2>1, <1>7, <1>8 DEF MemoryInv, KnowledgeInv
    <3>3. QED BY <3>1, <3>2
  <2>2. ASSUME ~crossed' PROVE ~crossed /\ \A k \in Tools : tools'[k].pc = "delete" => k = j
    BY <2>2, <1>2, <1>7
  <2>3. ASSUME ~crossed', ~moved', NEW m \in learnt', ~ \E t \in Private : Meaning(t) = m
        PROVE  Remains(m)'
    <3>1. Remains(m)
      BY <2>2, <2>3, <1>2 DEF MemoryInv, KnowledgeInv
    <3>2. PICK l \in There(Lessons) : Meaning(entries[l].text) = m
      BY <3>1 DEF Remains
    <3>3. PICK k \in There(Lessons) \ plan : Meaning(entries[k].text) = m
      BY <3>2, <2>3, <1>2, PlansSpare
    <3>4. \A i \in Tools : ~Deletes(tools'[i], k)
      BY <2>2, <2>3, <3>3, <1>4, <1>7 DEF Deletes
    <3>5. Meaning(entries'[k].text) = m /\ k \in There(Lessons)'
      BY <3>3, <1>2, <1>8
    <3>6. QED BY <3>4, <3>5 DEF Remains
  <2>4. QED BY <2>1, <2>2, <2>3 DEF KnowledgeInv
<1>13. QED BY <1>9, <1>10, <1>11, <1>12 DEF MemoryInv

LEMMA DeleteLessonKeeps ==
    ASSUME MemoryInv, NEW j \in Tools, DeleteLesson(j) PROVE MemoryInv'
<1>1. CASE tools[j].plan = {}
  BY <1>1, EndsKeeps DEF DeleteLesson
<1>2. CASE tools[j].plan # {}
  <2>1. PICK l \in tools[j].plan :
              /\ entries' = [entries EXCEPT ![l] = Deleted]
              /\ fts' = fts \ {l}
              /\ To(j, [tools[j] EXCEPT !.plan = @ \ {l}])
    BY <1>2 DEF DeleteLesson
  <2> DEFINE tool == [tools[j] EXCEPT !.plan = @ \ {l}]
  <2>2. /\ tools[j].pc = "delete" /\ tools[j] \in Tool /\ l \in Lessons /\ l \in Entries
        /\ entries \in [Entries -> LessonRow \cup {NoRow, Deleted}]
        /\ UNCHANGED <<model, started, learnt, crossed, moved, misread>>
    BY <2>1 DEF DeleteLesson, MemoryInv, MemoryTypeOK, Tool, Entries
  <2>3. /\ tool \in Tool /\ tool.pc = "delete" /\ tool.plan = tools[j].plan \ {l}
        /\ tool.kind = tools[j].kind
        /\ tool.left = tools[j].left /\ tool.target = tools[j].target
    BY <2>2 DEF Tool
  <2>4. BoundCall(tool)
    BY <2>2, <2>3 DEF MemoryInv, VectorsInv, BoundCall, SelectedBefore
  <2>5. To(j, tool)
    BY <2>1
  <2> HIDE DEF tool
  <2>6. /\ tools' \in [Tools -> Tool] /\ tools'[j] = tool
        /\ \A k \in Tools : k # j => tools'[k] = tools[k]
    BY <2>3, <2>5, ToTool DEF MemoryInv
  <2>7. /\ entries' \in [Entries -> LessonRow \cup {NoRow, Deleted}]
        /\ entries'[l] = Deleted /\ Deleted # NoRow
        /\ \A i \in Entries : i # l => entries'[i] = entries[i]
    BY <2>1, <2>2, RowsAreRows
  <2>8. l \in Used
    BY <2>1, <2>2 DEF MemoryInv, KnowledgeInv, Deletes
  <2>9. /\ There(Lessons)' = There(Lessons) \ {l} /\ Used' = Used
        /\ There(NewLessons)' = There(NewLessons) \ {l}
    BY <2>2, <2>7, <2>8 DEF There, Used, Lessons, Entries
  <2>10. MemoryTypeOK'
    BY <2>1, <2>2, <2>6, <2>7 DEF MemoryInv, MemoryTypeOK, model
  <2>11. VectorsInv'
    <3>1. \A i \in Entries : entries'[i] = entries[i] \/ SoundRow(entries'[i])
      BY <2>7, RowsAreRows DEF SoundRow
    <3>2. QED BY <3>1, <2>2, <2>3, <2>4, <2>5, VectorsKept DEF MemoryInv
  <2>12. KnowledgeInv'
    <3>1. ASSUME NEW k \in Tools, NEW i, Deletes(tools'[k], i) PROVE Deletes(tools[k], i)
      BY <3>1, <2>2, <2>3, <2>6 DEF Deletes
    <3>2. \A k \in Tools : tools'[k].pc = "delete" => tools[k].pc = "delete"
      BY <2>2, <2>6
    <3>3. ASSUME NEW m, Remains(m) PROVE Remains(m)'
      <4>1. PICK i \in There(Lessons) : /\ Meaning(entries[i].text) = m
                                        /\ \A k \in Tools : ~Deletes(tools[k], i)
        BY <3>3 DEF Remains
      <4>2. i # l /\ i \in Entries
        BY <4>1, <2>1, <2>2 DEF Deletes, There, Entries
      <4>3. i \in There(Lessons)' /\ Meaning(entries'[i].text) = m
        BY <4>1, <4>2, <2>7, <2>9
      <4>4. QED BY <4>1, <4>3, <3>1 DEF Remains
    <3>4. QED BY <3>1, <3>2, <3>3, <2>2, <2>9 DEF MemoryInv, KnowledgeInv
  <2>13. MirrorInv'
    <3>1. \A k \in Tools : tools'[k].pc \in {"fts", "heal"} => tools'[k] = tools[k]
      BY <2>3, <2>6
    <3>2. \A k \in Tools : ReadsAll(tools[k]) => ReadsAll(tools[k])'
      BY <3>1, <2>9 DEF ReadsAll
    <3>3. QED BY <3>1, <3>2, <2>1, <2>2, <2>9 DEF MemoryInv, MirrorInv
  <2>14. QED BY <2>10, <2>11, <2>12, <2>13 DEF MemoryInv
<1>3. QED BY <1>1, <1>2

\* The steps of a repair: a call of the heal kind, which is bound to nothing.
LEMMA HealStep ==
    ASSUME MemoryInv, NEW j \in Tools, NEW tool \in Tool, To(j, tool),
           tool.pc \in {"fts", "heal"}, tool.kind = tools[j].kind,
           tool.target = tools[j].target, tool.left = tools[j].left,
           UNCHANGED <<entries, fts, model, started, learnt, crossed, moved, misread>>,
           tool.pc = "heal" => tool.orphans \subseteq Used, ReadsAll(tool) \/ misread
    PROVE  MemoryInv'
<1>1. BoundCall(tool)
  BY DEF MemoryInv, VectorsInv, BoundCall, SelectedBefore
<1>2. /\ tools' \in [Tools -> Tool] /\ tools'[j] = tool
      /\ \A k \in Tools : k # j => tools'[k] = tools[k]
  BY ToTool DEF MemoryInv
<1>3. /\ Used' = Used /\ There(Lessons)' = There(Lessons)
      /\ There(NewLessons)' = There(NewLessons)
  BY DEF Used, There
<1>4. MemoryTypeOK'
  BY <1>2 DEF MemoryInv, MemoryTypeOK, model
<1>5. VectorsInv'
  BY <1>1, VectorsKept DEF MemoryInv
<1>6. KnowledgeInv'
  BY <1>3, KnowledgeStays DEF MemoryInv
<1>7. MirrorInv'
  <2>1. \A k \in Tools : k # j /\ ReadsAll(tools[k]) => ReadsAll(tools[k])'
    BY <1>2, <1>3 DEF ReadsAll
  <2>2. ReadsAll(tool) => ReadsAll(tools[j])'
    BY <1>2, <1>3 DEF ReadsAll
  <2>3. QED BY <1>2, <1>3, <2>1, <2>2 DEF MemoryInv, MirrorInv
<1>8. QED BY <1>4, <1>5, <1>6, <1>7 DEF MemoryInv

LEMMA ReadIdsKeeps ==
    ASSUME MemoryInv, NEW j \in Tools, ReadIds(j) PROVE MemoryInv'
<1> DEFINE tool == [tools[j] EXCEPT !.pc = "fts", !.plan = There(Lessons)]
<1>1. /\ tool \in Tool /\ tool.pc = "fts" /\ tool.plan = There(Lessons)
      /\ tool.kind = tools[j].kind /\ tool.target = tools[j].target
      /\ tool.left = tools[j].left
  BY DEF MemoryInv, MemoryTypeOK, Tool, ToolPcs, There
<1>2. ReadsAll(tool)
  BY <1>1 DEF ReadsAll
<1>3. QED BY <1>1, <1>2, HealStep DEF ReadIds

LEMMA CheckMirrorKeeps ==
    ASSUME MemoryInv, NEW j \in Tools, CheckMirror(j) PROVE MemoryInv'
<1> DEFINE plan == There(Lessons) \ fts
           orphans == fts \ tools[j].plan
           bad == {l \in There(Lessons) : entries[l].vector = Damaged}
           tool == [tools[j] EXCEPT !.pc = "heal", !.plan = plan, !.orphans = orphans,
                                    !.bad = bad]
<1>1. plan \subseteq Lessons /\ orphans \subseteq Lessons /\ bad \subseteq Lessons
  BY DEF MemoryInv, MemoryTypeOK, There
<1>2. To(j, tool) /\ tools[j].pc = "fts"
      /\ UNCHANGED <<entries, fts, model, started, learnt, crossed, moved, misread>>
  BY DEF CheckMirror
<1>3. orphans \subseteq Used /\ (misread \/ orphans \cap There(Lessons) = {})
  BY <1>2 DEF MemoryInv, MirrorInv, ReadsAll
<1> HIDE DEF plan, orphans, bad
<1>4. /\ tool \in Tool /\ tool.pc = "heal" /\ tool.orphans = orphans
      /\ tool.kind = tools[j].kind /\ tool.target = tools[j].target
      /\ tool.left = tools[j].left
  BY <1>1 DEF MemoryInv, MemoryTypeOK, Tool, ToolPcs
<1>5. ReadsAll(tool) \/ misread
  BY <1>3, <1>4 DEF ReadsAll
<1>6. QED BY <1>2, <1>3, <1>4, <1>5, HealStep

LEMMA RepairKeeps ==
    ASSUME MemoryInv, NEW j \in Tools, Repair(j) PROVE MemoryInv'
<1>1. /\ tools[j].pc = "heal" /\ tools[j] \in Tool
      /\ entries \in [Entries -> LessonRow \cup {NoRow, Deleted}]
      /\ Lessons \subseteq Entries
      /\ fts' = (fts \ tools[j].orphans) \cup (tools[j].plan \cap There(Lessons))
      /\ UNCHANGED <<model, started, learnt, crossed, moved, misread>>
  BY DEF Repair, MemoryInv, MemoryTypeOK, Entries
<1>2. /\ To(j, IdleTool) /\ IdleTool \in Tool /\ IdleTool.pc = "idle" /\ BoundCall(IdleTool)
  BY IdleToolFacts, IdleIsBound DEF Repair, Ends
<1>3. ASSUME NEW i \in Entries
      PROVE  \/ entries'[i] = entries[i]
             \/ /\ entries[i] \in LessonRow /\ entries'[i] \in LessonRow
                /\ entries'[i].text = entries[i].text /\ SoundRow(entries'[i])
  <2>1. CASE i \in tools[j].bad \cap There(Lessons)
    <3>1. entries[i] \in LessonRow
      BY <2>1, ThereAreRows DEF MemoryInv, Entries
    <3>2. entries'[i] = [entries[i] EXCEPT !.vector = Nothing, !.label = Nothing]
      BY <2>1 DEF Repair
    <3>3. /\ entries'[i] \in LessonRow /\ entries'[i].text = entries[i].text
          /\ entries'[i].label = Nothing
      BY <3>1, <3>2 DEF LessonRow
    <3>4. QED BY <3>1, <3>3 DEF SoundRow
  <2>2. CASE i \notin tools[j].bad \cap There(Lessons)
    BY <2>2 DEF Repair
  <2>3. QED BY <2>1, <2>2
<1>4. entries' \in [Entries -> LessonRow \cup {NoRow, Deleted}]
  <2>1. entries' = [i \in Entries |-> entries'[i]]
    BY DEF Repair
  <2>2. QED BY <1>1, <1>3, <2>1
<1>5. /\ Used' = Used /\ There(Lessons)' = There(Lessons)
      /\ There(NewLessons)' = There(NewLessons)
  BY <1>1, <1>3, RowsAreRows DEF Used, There, Lessons, Entries
<1>6. /\ tools' \in [Tools -> Tool] /\ tools'[j] = IdleTool
      /\ \A k \in Tools : k # j => tools'[k] = tools[k]
  BY <1>2, ToTool DEF MemoryInv
<1>7. There(Lessons) \subseteq Used /\ There(NewLessons) \subseteq There(Lessons)
      /\ Used \subseteq Lessons
  BY DEF There, Used, Lessons
<1>8. MemoryTypeOK'
  BY <1>1, <1>4, <1>6, <1>7 DEF MemoryInv, MemoryTypeOK, model
<1>9. VectorsInv'
  <2>1. \A i \in Entries : entries'[i] = entries[i] \/ SoundRow(entries'[i])
    BY <1>3
  <2>2. QED BY <1>1, <1>2, <2>1, VectorsKept DEF MemoryInv
<1>10. KnowledgeInv'
  <2>1. \A l \in Lessons : entries'[l].text = entries[l].text
    BY <1>1, <1>3
  <2>2. QED BY <1>1, <1>2, <1>5, <2>1, KnowledgeStays DEF MemoryInv
<1>11. MirrorInv'
  <2>1. \A k \in Tools : tools'[k].pc \in {"fts", "heal"} => tools'[k] = tools[k]
    BY <1>2, <1>6
  <2>2. \A k \in Tools : ReadsAll(tools[k]) => ReadsAll(tools[k])'
    BY <1>5, <2>1 DEF ReadsAll
  <2>3. ASSUME ~misread PROVE There(NewLessons)' \subseteq fts'
    <3>1. ReadsAll(tools[j]) /\ There(NewLessons) \subseteq fts
      BY <2>3 DEF MemoryInv, MirrorInv
    <3>2. QED BY <3>1, <1>1, <1>5, <1>7 DEF ReadsAll
  <2>4. QED BY <1>1, <1>5, <1>7, <2>1, <2>2, <2>3 DEF MemoryInv, MirrorInv
<1>12. QED BY <1>8, <1>9, <1>10, <1>11 DEF MemoryInv

\* The model pulled anew: a revision no label names yet, unless it comes back.
LEMMA RetagKeeps ==
    ASSUME MemoryInv, NEW r \in Revisions, Retag(r) PROVE MemoryInv'
<1>1. /\ serving' = r /\ past' = past \cup {serving} /\ retags' = retags + 1
      /\ retags < MaxRetags
      /\ moved' = (moved \/ \E j \in Tools : /\ tools[j].pc = "bind"
                                            /\ tools[j].kind \in {"lessons", "turns"})
      /\ UNCHANGED <<entries, fts, tools, started, learnt, crossed, misread>>
  BY DEF Retag
<1>2. MemoryTypeOK'
  BY <1>1, MemoryAssumption DEF MemoryInv, MemoryTypeOK
<1>3. Served' = Served \cup {r} /\ (serving' \notin past' => serving' \notin Served)
  BY <1>1 DEF Served
<1>4. VectorsInv'
  <2>1. ASSUME NEW i \in Entries PROVE SoundRow(entries[i])'
    BY <1>1, <1>3 DEF MemoryInv, VectorsInv, SoundRow, Usable
  <2>2. ASSUME NEW j \in Tools PROVE BoundCall(tools[j])'
    <3>1. BoundCall(tools[j])
      BY DEF MemoryInv, VectorsInv
    <3>2. ASSUME NEW i \in Entries PROVE SelectedBefore(tools[j], tools[j].left[i])'
      <4>1. SelectedBefore(tools[j], tools[j].left[i])
        BY <3>1 DEF BoundCall
      <4>2. Nothing \notin Revisions
        BY MemoryAssumption
      <4>3. QED BY <4>1, <4>2, <1>1, <1>3 DEF SelectedBefore
    <3>3. QED BY <3>1, <3>2, <1>1, <1>3 DEF BoundCall, Refreshing
  <2>3. QED BY <2>1, <2>2 DEF VectorsInv
<1>5. KnowledgeInv'
  BY <1>1 DEF MemoryInv, KnowledgeInv, Remains, There, Used, Deletes, Meaning
<1>6. MirrorInv'
  BY <1>1 DEF MemoryInv, MirrorInv, ReadsAll, There, Used
<1>7. QED BY <1>2, <1>4, <1>5, <1>6 DEF MemoryInv

LEMMA MemoryInitInv == MemoryInit => MemoryInv
<1> SUFFICES ASSUME MemoryInit PROVE MemoryInv
  OBVIOUS
<1> DEFINE healthy == [text |-> Original, vector |-> serving, label |-> serving]
<1>1. PICK row \in {healthy, [healthy EXCEPT !.label = Nothing],
                    [healthy EXCEPT !.vector = Nothing, !.label = Nothing],
                    [healthy EXCEPT !.vector = Damaged]}
                   \cup {[healthy EXCEPT !.text = t] : t \in Private} :
        /\ entries = [i \in Entries |-> IF i = Old THEN row ELSE NoRow]
        /\ learnt = {Meaning(row.text)}
        /\ fts \in IF row = healthy THEN {{}, {Old}} ELSE {{Old}}
  BY DEF MemoryInit
<1>2. /\ serving \in Revisions /\ retags = 0 /\ past = {} /\ started = 0
      /\ tools = [j \in Tools |-> IdleTool] /\ ~crossed /\ ~moved /\ ~misread
  BY MemoryAssumption DEF MemoryInit
<1>3. /\ row.label \in {serving, Nothing} /\ row.vector \in {serving, Nothing, Damaged}
      /\ Usable(row) => row.vector = serving
      /\ row.text \in Texts
      /\ row = [text |-> row.text, vector |-> row.vector, label |-> row.label]
  <2>1. CASE row \in {[healthy EXCEPT !.text = t] : t \in Private}
    BY <2>1, MemoryAssumption
  <2>2. CASE row = healthy
    BY <2>2, MemoryAssumption
  <2>3. CASE row = [healthy EXCEPT !.label = Nothing]
    BY <2>3, MemoryAssumption
  <2>4. CASE row = [healthy EXCEPT !.vector = Nothing, !.label = Nothing]
    <3>1. row = [text |-> Original, vector |-> Nothing, label |-> Nothing]
      BY <2>4
    <3>2. QED BY <3>1, MemoryAssumption DEF Usable
  <2>5. CASE row = [healthy EXCEPT !.vector = Damaged]
    BY <2>5, MemoryAssumption DEF Usable
  <2>6. QED BY <2>1, <2>2, <2>3, <2>4, <2>5, <1>1
<1> HIDE DEF healthy
<1>4. row \in LessonRow /\ row \notin {NoRow, Deleted}
  <2>1. row \in LessonRow
    BY <1>2, <1>3, MemoryAssumption DEF LessonRow
  <2>2. QED BY <2>1, RowsAreRows
<1>5. Old \in Lessons /\ Old \in Entries /\ Old \notin NewLessons /\ fts \subseteq {Old}
  BY <1>1, MemoryAssumption DEF Lessons, Entries
<1>6. SoundRow(row)
  BY <1>2, <1>3 DEF SoundRow, Served
<1>7. \A i \in Entries : entries[i] = IF i = Old THEN row ELSE NoRow
  BY <1>1
<1>8. There(Lessons) = {Old} /\ There(NewLessons) = {} /\ Used = {Old}
  BY <1>4, <1>5, <1>7 DEF There, Used, Lessons, Entries
<1>9. \A j \in Tools : tools[j] = IdleTool
  BY <1>2
<1>10. MemoryTypeOK
  BY <1>1, <1>2, <1>4, <1>5, IdleToolFacts, MemoryAssumption DEF MemoryTypeOK
<1>11. VectorsInv
  BY <1>6, <1>7, <1>9, IdleIsBound, RowsAreRows DEF VectorsInv, SoundRow
<1>12. KnowledgeInv
  <2>1. \A j \in Tools : tools[j].pc # "delete" /\ \A l \in Lessons : ~Deletes(tools[j], l)
    BY <1>9, IdleToolFacts DEF Deletes
  <2>2. entries[Old] = row
    BY <1>5, <1>7
  <2>3. Remains(Meaning(row.text))
    BY <1>5, <1>8, <2>1, <2>2 DEF Remains
  <2>4. learnt = {Meaning(row.text)}
    BY <1>1
  <2>5. QED BY <2>1, <2>3, <2>4 DEF KnowledgeInv
<1>13. MirrorInv
  BY <1>2, <1>5, <1>8, <1>9, IdleToolFacts DEF MirrorInv, ReadsAll
<1>14. QED BY <1>10, <1>11, <1>12, <1>13 DEF MemoryInv

LEMMA MemoryNextInv == MemoryInv /\ [MemoryNext]_memoryVars => MemoryInv'
<1>1. ASSUME MemoryInv, MemoryNext PROVE MemoryInv'
  <2>1. CASE \E r \in Revisions : Retag(r)
    BY <1>1, <2>1, RetagKeeps
  <2>2. ASSUME NEW j \in Tools, StartWriting(j) \/ StartMaintenance(j) PROVE MemoryInv'
    <3>1. (CHOOSE t \in Texts : TRUE) \in Texts
      BY MemoryAssumption
    <3>2. \E kind \in Kinds, text \in Texts : Call(j, kind, text)
      BY <2>2, <3>1 DEF StartWriting, StartMaintenance, Kinds
    <3>3. QED BY <1>1, <3>2, CallKeeps
  <2>3. ASSUME NEW j \in Tools,
               \/ BindRevision(j) \/ MakeVector(j) \/ StoreLesson(j) \/ StoreTurn(j)
               \/ SelectLessons(j) \/ SelectTurns(j) \/ CheckRevision(j) \/ RefreshRow(j)
               \/ PlanDeletions(j) \/ DeleteLesson(j)
               \/ ReadIds(j) \/ CheckMirror(j) \/ Repair(j)
        PROVE  MemoryInv'
    BY <1>1, <2>3, BindRevisionKeeps, MakeVectorKeeps, StoreLessonKeeps, StoreTurnKeeps,
       SelectLessonsKeeps, SelectTurnsKeeps, CheckRevisionKeeps, RefreshRowKeeps,
       PlanDeletionsKeeps, DeleteLessonKeeps, ReadIdsKeeps, CheckMirrorKeeps, RepairKeeps
  <2>4. QED BY <1>1, <2>1, <2>2, <2>3 DEF MemoryNext
<1>2. ASSUME MemoryInv, UNCHANGED memoryVars PROVE MemoryInv'
  <2>1. UNCHANGED <<entries, fts, serving, retags, past, tools, started, learnt, crossed,
                    moved, misread>>
    BY <1>2 DEF memoryVars, model
  <2>2. MemoryTypeOK' /\ VectorsInv'
    BY <1>2, <2>1 DEF MemoryInv, MemoryTypeOK, VectorsInv, SoundRow, BoundCall,
                      SelectedBefore, Served, Usable
  <2>3. KnowledgeInv' /\ MirrorInv'
    BY <1>2, <2>1 DEF MemoryInv, KnowledgeInv, MirrorInv, Remains, ReadsAll, There, Used,
                      Deletes, Meaning
  <2>4. QED BY <2>2, <2>3 DEF MemoryInv
<1>3. QED BY <1>1, <1>2

LEMMA MemoryInvIsSound == MemoryInv => MemoryTypeOK /\ MemorySound
<1> SUFFICES ASSUME MemoryInv PROVE MemorySound
  BY DEF MemoryInv
<1>1. KnowledgeKept
  BY DEF MemoryInv, KnowledgeInv, KnowledgeKept, Remains
<1>2. SpacesDoNotMix
  <2>1. \A S \in {Lessons, Turns} :
           \A i \in There(S) : entries[i] \in LessonRow /\ i \in Entries
    BY ThereAreRows DEF Entries, MemoryInv
  <2>2. QED BY <2>1, MemoryAssumption DEF MemoryInv, VectorsInv, SoundRow, SpacesDoNotMix,
                                          Comparable, ComparableTurn
<1>3. SearchFindsLessons
  BY DEF MemoryInv, MirrorInv, SearchFindsLessons
<1>4. QED BY <1>1, <1>2, <1>3 DEF MemorySound

\* Who overwrites a row that the serving revision embedded: nobody but a
\* deletion, a repair or a refresh for that revision.
LEMMA FreshRow ==
    ASSUME MemoryInv, MemoryNext, NEW i \in Entries,
           entries[i].label = serving, Usable(entries[i]), entries'[i] # Deleted,
           serving \notin past
    PROVE  entries'[i].label \in {serving, Nothing}
<1>1. entries[i] # NoRow
  BY MemoryAssumption DEF NoRow, MemoryInv, MemoryTypeOK
<1>2. CASE UNCHANGED entries
  BY <1>2
<1>3. ASSUME NEW j \in Tools, StoreLesson(j) \/ StoreTurn(j) PROVE entries'[i] = entries[i]
  <2>1. \/ UNCHANGED entries
        \/ \E l \in Entries : /\ entries[l] = NoRow
                              /\ \A k \in Entries : k # l => entries'[k] = entries[k]
    <3>1. ASSUME NEW row, InsertLesson(row)
          PROVE  \E l \in Entries : /\ entries[l] = NoRow
                                    /\ \A k \in Entries : k # l => entries'[k] = entries[k]
      <4>1. PICK l \in NewId : entries' = [entries EXCEPT ![l] = row]
        BY <3>1 DEF InsertLesson
      <4> DEFINE new == {k \in NewLessons : entries[k] = NoRow}
      <4>2. new # {} /\ l = CHOOSE k \in new : TRUE
        BY <4>1 DEF NewId
      <4>3. l \in new
        BY <4>2
      <4>4. QED BY <4>1, <4>3 DEF Lessons, Entries, MemoryInv, MemoryTypeOK
    <3>2. QED BY <1>3, <3>1 DEF StoreLesson, StoreTurn, Entries, MemoryInv, MemoryTypeOK
  <2>2. QED BY <1>1, <2>1 DEF MemoryInv, MemoryTypeOK
<1>4. ASSUME NEW j \in Tools, RefreshRow(j) PROVE entries'[i].label \in {serving, Nothing}
  <2>1. PICK k \in Selection(tools[j]) :
         entries' = IF tools[j].vector # Nothing /\ k \in There(Entries)
                       /\ StillSelected(tools[j], k)
                    THEN [entries EXCEPT ![k] =
                            [text |-> entries[k].text, vector |-> tools[j].vector,
                             label |-> tools[j].target]]
                    ELSE entries
    BY <1>4 DEF RefreshRow
  <2>2. CASE entries'[i] = entries[i]
    BY <2>2
  <2>3. CASE entries'[i] # entries[i]
    <3>1. /\ k = i /\ entries'[i].label = tools[j].target
          /\ entries[i] = tools[j].left[i] /\ tools[j].left[i] # NoRow
      BY <2>1, <2>3 DEF MemoryInv, MemoryTypeOK, StillSelected, Selection
    <3>2. SelectedBefore(tools[j], tools[j].left[i])
      BY DEF MemoryInv, VectorsInv, BoundCall
    <3>3. tools[j].target = serving
      BY <3>1, <3>2 DEF SelectedBefore
    <3>4. QED BY <3>1, <3>3
  <2>4. QED BY <2>2, <2>3
<1>5. ASSUME NEW j \in Tools, DeleteLesson(j) PROVE entries'[i].label \in {serving, Nothing}
  BY <1>5 DEF DeleteLesson, MemoryInv, MemoryTypeOK
<1>6. ASSUME NEW j \in Tools, Repair(j) PROVE entries'[i].label \in {serving, Nothing}
  <2>1. \/ entries'[i] = entries[i]
        \/ entries'[i] = [entries[i] EXCEPT !.vector = Nothing, !.label = Nothing]
    BY <1>6 DEF Repair
  <2>2. entries[i] \in LessonRow
    BY <1>1, RowsAreRows, MemoryAssumption DEF MemoryInv, MemoryTypeOK, Deleted, NoRow
  <2>3. QED BY <2>1, <2>2 DEF LessonRow
<1>7. QED
  BY <1>2, <1>3, <1>4, <1>5, <1>6
     DEF MemoryNext, Retag, StartWriting, StartMaintenance, Call, BindRevision, MakeVector,
         SelectLessons, SelectTurns, CheckRevision, PlanDeletions, ReadIds, CheckMirror

\* Maintenance loses no lesson, compares no vectors of different models, and embeds
\* nothing anew that the model of now embedded, for every number of lessons, turns,
\* calls, revisions and pulls.
THEOREM MemoryStaysKept == MemorySpec => MemoryKept
<1>1. MemoryInv /\ [MemoryNext]_memoryVars
      => [\A i \in Entries :
            /\ entries[i].label = serving /\ Usable(entries[i])
            /\ entries'[i] # Deleted /\ serving \notin past
            => entries'[i].label \in {serving, Nothing}]_memoryVars
  BY FreshRow
<1>2. QED
  BY MemoryInitInv, MemoryNextInv, MemoryInvIsSound, <1>1, PTL
     DEF MemorySpec, MemoryKept, FreshStays

-----------------------------------------------------------------------------
(***************************************************************************)
(* The work in the background side by side: a behaviour of all of it is    *)
(* one of each part, whose steps are the part's own or leave it alone.     *)
(***************************************************************************)
LEMMA PartsStart ==
    BackgroundInit => TimedInit /\ Autopilot!HistoryInit /\ MemoryInit /\ BundleInit
BY DEF BackgroundInit

LEMMA PartsStep ==
    [BackgroundNext]_backgroundVars =>
       /\ [TimedNext]_timedVars /\ [Autopilot!HistoryNext]_controlVars
       /\ [MemoryNext]_memoryVars /\ [BundleNext]_bundleVars
<1>1. ASSUME BackgroundNext
      PROVE  /\ [TimedNext]_timedVars /\ [Autopilot!HistoryNext]_controlVars
             /\ [MemoryNext]_memoryVars /\ [BundleNext]_bundleVars
  BY <1>1 DEF BackgroundNext, OthersUnchanged
<1>2. QED BY <1>1 DEF backgroundVars

LEMMA FleetPart == BackgroundSpec => TimedSpec
BY PartsStart, PartsStep, PTL DEF BackgroundSpec, TimedSpec

LEMMA MemoryPart == BackgroundSpec => MemorySpec
BY PartsStart, PartsStep, PTL DEF BackgroundSpec, MemorySpec

LEMMA BundlePart == BackgroundSpec => BundleSpec
BY PartsStart, PartsStep, PTL DEF BackgroundSpec, BundleSpec

\* The plan of the instance and its markers are what the autopilot assumes of them.
LEMMA AutopilotFits == Autopilot!StoreAssumption /\ Autopilot!ControllerAssumption
<1>1. Autopilot!StoreAssumption
  BY BackgroundAssumption DEF Autopilot!StoreAssumption
<1>2. <<"implement">> \in Seq(Autopilot!Kinds)
  BY DEF Autopilot!Kinds
<1>3. Autopilot!ControllerAssumption
  BY BackgroundAssumption, <1>2 DEF Autopilot!ControllerAssumption
<1>4. QED BY <1>1, <1>3

\* The two controllers of one run never execute it at once, and at most one task
\* starts after a pause was asked for: the invariant of AutopilotProofs, for the
\* controllers that work beside the other parts.
LEMMA AutopilotPart == BackgroundSpec => []ControlIsExclusive
<1>1. Autopilot!HistoryInit => Autopilot!HistoryInv
  BY AutopilotFits, Autopilot!InitHistoryInv
<1>2. Autopilot!HistoryInv /\ [Autopilot!HistoryNext]_controlVars => Autopilot!HistoryInv'
  BY AutopilotFits, Autopilot!NextHistoryInv DEF controlVars, Autopilot!hvars
<1>3. Autopilot!HistoryInv => ControlIsExclusive
  BY AutopilotFits, Autopilot!HistoryIsExclusive DEF ControlIsExclusive
<1>4. QED BY <1>1, <1>2, <1>3, PartsStart, PartsStep, PTL DEF BackgroundSpec

LEMMA TimedIsOrchestrator == TimedSpec => Spec
<1>1. TimedInit => Init
  BY DEF TimedInit
<1>2. [TimedNext]_timedVars => [Next]_vars
  BY DEF TimedNext, timedVars, vars
<1>3. QED BY <1>1, <1>2, PTL DEF TimedSpec, Spec

\* All that is done in the background at once: a run has one controller and its
\* pauses take effect, work that was beaten for is never interrupted under its
\* process, recoveries are linked and ends are final, no lesson is lost and no
\* vectors mix, and what is published of a bundle is whole; as long as the
\* heartbeats come in time and one of them falls into the age at which rows are stale.
THEOREM BackgroundStaysSound ==
    ASSUME Punctual, HeartbeatEvery <= StaleAfter
    PROVE  BackgroundSpec => /\ []ControlIsExclusive /\ []RecoveryLinked /\ []BundleSound
                             /\ CoveredWorkKept /\ FinishedIsFinal /\ MemoryKept
<1>1. TimedSpec => CoveredWorkKept
  BY FleetKeepsCoveredWork
<1>2. QED
  BY <1>1, AutopilotPart, FleetPart, MemoryPart, BundlePart, TimedIsOrchestrator,
     OrchestratorRecoveryLinked, OrchestratorFinishedIsFinal, BundlesAreSound,
     MemoryStaysKept, PTL
=============================================================================
