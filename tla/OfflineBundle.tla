--------------------------- MODULE OfflineBundle ---------------------------
(***************************************************************************)
(* From the models of the machine that builds a release to those of the    *)
(* machine that runs without network: a sealed engine bundle is assembled  *)
(* (scripts/assemble_engine_bundle.py), packaged with the system and       *)
(* zipped (scripts/package_local_system.py), and its models are installed  *)
(* at the first start (bootstrap_engine.py, engine_bundle.py).  Any of     *)
(* these programs may run at the same time, and may die.                   *)
(***************************************************************************)
EXTENDS Naturals, FiniteSets

CONSTANTS
    Builders,       \* processes that run these programs
    Versions,       \* of the model, whose manifest keeps its path
    Longer,         \* those whose manifest is longer than that of the others
    Runtimes,       \* of the engine's own files, all of one size
    MaxPrograms,    \* bound: how many programs are run
    MaxDeaths       \* bound: how many of them die

ASSUME BundleAssumption ==
    /\ Versions \subseteq Nat \ {0}
    /\ Runtimes \subseteq Nat \ {0} /\ Runtimes # {}
    /\ Longer \subseteq Versions /\ MaxPrograms \in Nat /\ MaxDeaths \in Nat

VARIABLES
    pulled,         \* the builder's model store: its model and its blobs
    outputs,        \* the engine bundle and the package with its copy of it
    zip,            \* the published archive, and what its manifest says of it
    backups,        \* outputs that were moved aside by a program that is gone
    models,         \* the installed model store
    builds,         \* what each process does
    programs, deaths,
    published,      \* history: which outputs were ever there
    swapped         \* history: an output changed under a process that reads it

bundleVars == <<pulled, outputs, zip, backups, models, builds, programs, deaths,
                published, swapped>>

\* What files there are: the model's manifest, the engine, and the blobs, whose
\* names are their hashes.  0 is none.
Files == [model : Versions \cup {0}, engine : Runtimes \cup {0}, blobs : SUBSET Versions]
NoFiles == [model |-> 0, engine |-> 0, blobs |-> {}]
Tree == [files : Files, seal : Files]
Absent == [files |-> NoFiles, seal |-> NoFiles]
Sealed(files) == [files |-> files, seal |-> files]

\* load_engine_bundle, with the hashes of the files and without: every model
\* that is named has its blobs among the files that are sealed.
SameSize(v, w) == (v \in Longer) <=> (w \in Longer)
Loads(tree) ==
    /\ tree.files.engine # 0
    /\ SameSize(tree.files.model, tree.seal.model)
    /\ tree.files.blobs = tree.seal.blobs
    /\ tree.files.model \in tree.seal.blobs
Whole(tree) == Loads(tree) /\ tree.files = tree.seal

Outputs == {"bundle", "package"}
Programs == {"assemble", "pack", "zip", "install"}
BuildPcs == {"idle", "read", "seal", "blobs", "model", "engine", "check", "aside",
             "place", "clean", "receipt"}
NoBuild == [pc |-> "idle", does |-> "zip", from |-> "bundle", records |-> NoFiles,
            stage |-> Absent, moved |-> Absent]
NoModels == [model |-> 0, blobs |-> {}, receipt |-> 0]

\* Nothing was built, or an earlier version was, and perhaps installed.
BundleInit ==
    /\ \E v \in Versions :
          LET old == Sealed([model |-> v, engine |-> CHOOSE e \in Runtimes : TRUE,
                             blobs |-> {v}]) IN
            /\ pulled = [model |-> v, blobs |-> {v}]
            /\ \E tree \in {Absent, old} : outputs = [o \in Outputs |-> tree]
            /\ models \in {NoModels, [model |-> v, blobs |-> {v}, receipt |-> v]}
    /\ zip = Absent
    /\ backups = {}
    /\ builds = [b \in Builders |-> NoBuild]
    /\ programs = 0 /\ deaths = 0
    /\ published = {o \in Outputs : outputs[o] # Absent}
    /\ swapped = FALSE

Moves(b, fields) ==
    builds' = [builds EXCEPT ![b] = [f \in DOMAIN NoBuild |->
                 IF f \in DOMAIN fields THEN fields[f] ELSE @[f]]]
Quits(b) == builds' = [builds EXCEPT ![b] = NoBuild]
At(b, does, pc) == builds[b].does \in does /\ builds[b].pc = pc
Source(b) == outputs[builds[b].from].files

unpublished == <<zip, models>>
readOnly == <<pulled, outputs, backups, programs, deaths, published, swapped>>

\* The model is pulled anew on the builder's machine; old blobs may stay.
Pull(v) ==
    /\ v > pulled.model
    /\ \E kept \in {{}, pulled.blobs} : pulled' = [model |-> v, blobs |-> kept \cup {v}]
    /\ UNCHANGED <<outputs, zip, backups, models, builds, programs, deaths,
                   published, swapped>>

(***************************************************************************)
(* Programs start.  Two read a bundle, and only one that loads with its    *)
(* hashes; the archive is made from files that agree with their manifest.  *)
(***************************************************************************)
Starts(b, does, from, records, pc) ==
    /\ builds[b].pc = "idle" /\ b = CHOOSE c \in Builders : builds[c].pc = "idle"
    /\ programs < MaxPrograms
    /\ programs' = programs + 1
    /\ Moves(b, [does |-> does, from |-> from, records |-> records, pc |-> pc])
    /\ UNCHANGED <<pulled, outputs, zip, backups, models, deaths, published, swapped>>

StartAssembly(b) == Starts(b, "assemble", "bundle", NoFiles, "read")
StartPackage(b) ==
    /\ Whole(outputs["bundle"])
    /\ Starts(b, "pack", "bundle", outputs["bundle"].seal, "seal")
Verified(tree) == tree # Absent
StartZip(b) ==
    /\ Verified(outputs["package"])
    /\ Starts(b, "zip", "package", outputs["package"].files, "blobs")
StartInstall(b, from) ==
    /\ Whole(outputs[from])
    /\ Starts(b, "install", from, outputs[from].seal, "blobs")

(***************************************************************************)
(* A stage is filled file by file from what is there by then; a file that  *)
(* is gone ends the program, and the stage with it.                        *)
(***************************************************************************)
Stages(b, files, pc) ==
    Moves(b, [pc |-> pc, stage |-> [builds[b].stage EXCEPT !.files = files]])
Staged(b) == builds[b].stage.files

\* _copy_model: the manifest is read, copied, and the blobs that were read in
\* it are copied.
ReadManifest(b) ==
    /\ At(b, {"assemble"}, "read")
    /\ \E e \in Runtimes :
         Moves(b, [pc |-> "model", records |-> [NoFiles EXCEPT !.blobs = {pulled.model}],
                stage |-> [Absent EXCEPT !.files.engine = e]])
    /\ UNCHANGED <<readOnly, unpublished>>
CopyManifest(b) ==
    /\ At(b, {"assemble"}, "model")
    /\ Stages(b, [Staged(b) EXCEPT !.model = pulled.model], "blobs")
    /\ UNCHANGED <<readOnly, unpublished>>
CopyModelBlobs(b) ==
    /\ At(b, {"assemble"}, "blobs")
    /\ IF builds[b].records.blobs \subseteq pulled.blobs
       THEN Stages(b, [Staged(b) EXCEPT !.blobs = builds[b].records.blobs], "check")
       ELSE Quits(b)
    /\ UNCHANGED <<readOnly, unpublished>>

\* The assembly seals what it has and loads it.
SealStage(b) ==
    /\ At(b, {"assemble"}, "check")
    /\ IF Whole(Sealed(Staged(b)))
       THEN Moves(b, [pc |-> "aside", stage |-> Sealed(Staged(b))])
       ELSE Quits(b)
    /\ UNCHANGED <<readOnly, unpublished>>

\* _copy_engine_bundle copies the seal and then the files that were sealed when
\* it was loaded; zip_payload writes the manifest it verified and then those
\* files.
CopySeal(b) ==
    /\ At(b, {"pack"}, "seal")
    /\ IF Source(b) = NoFiles THEN Quits(b)
       ELSE Moves(b, [pc |-> "blobs", stage |-> outputs[builds[b].from]])
    /\ UNCHANGED <<readOnly, unpublished>>
CopyBlobs(b) ==
    /\ At(b, {"pack", "zip"}, "blobs")
    /\ IF builds[b].records.blobs \subseteq Source(b).blobs
       THEN Stages(b, [NoFiles EXCEPT !.blobs = builds[b].records.blobs], "model")
       ELSE Quits(b)
    /\ UNCHANGED <<readOnly, unpublished>>
CopyModel(b) ==
    /\ At(b, {"pack", "zip"}, "model")
    /\ IF Source(b) = NoFiles THEN Quits(b)
       ELSE Stages(b, [Staged(b) EXCEPT !.model = Source(b).model], "engine")
    /\ UNCHANGED <<readOnly, unpublished>>
CopyEngine(b) ==
    /\ At(b, {"pack", "zip"}, "engine")
    /\ IF Source(b) = NoFiles THEN Quits(b)
       ELSE Stages(b, [Staged(b) EXCEPT !.engine = Source(b).engine], "check")
    /\ UNCHANGED <<readOnly, unpublished>>

\* The package's manifest is written from a bundle that loads, without hashes.
WritePackageManifest(b) ==
    /\ At(b, {"pack"}, "check")
    /\ IF Loads(builds[b].stage) THEN Moves(b, [pc |-> "aside"]) ELSE Quits(b)
    /\ UNCHANGED <<readOnly, unpublished>>
PublishZip(b) ==
    /\ At(b, {"zip"}, "check")
    /\ zip' = [files |-> Staged(b), seal |-> builds[b].records]
    /\ Quits(b)
    /\ UNCHANGED <<readOnly, models>>

(***************************************************************************)
(* The stage is swapped for the output.                                    *)
(***************************************************************************)
OutputOf(b) == IF builds[b].does = "assemble" THEN "bundle" ELSE "package"

Becomes(output, tree) ==
    /\ outputs' = [outputs EXCEPT ![output] = tree]
    /\ published' = IF tree = Absent THEN published ELSE published \cup {output}
    /\ swapped' = (swapped \/ \E c \in Builders :
                     /\ builds[c].pc \in {"seal", "blobs", "model", "engine"}
                     /\ builds[c].does \in {"pack", "zip"} /\ builds[c].from = output)
\* What b has moved aside stays there when b is gone.
LeavesBackup(b) ==
    backups' = backups \cup {k \in {[of |-> OutputOf(b), tree |-> builds[b].moved]} :
                               k.tree # Absent}

MoveAside(b) ==
    /\ At(b, {"assemble", "pack"}, "aside")
    /\ Becomes(OutputOf(b), Absent)
    /\ Moves(b, [pc |-> "place", moved |-> outputs[OutputOf(b)]])
    /\ UNCHANGED <<pulled, unpublished, backups, programs, deaths>>

PutInPlace(b) ==
    /\ At(b, {"assemble", "pack"}, "place")
    /\ outputs[OutputOf(b)] = Absent
    /\ Becomes(OutputOf(b), builds[b].stage)
    /\ Moves(b, [pc |-> "clean"])
    /\ UNCHANGED <<pulled, unpublished, backups, programs, deaths>>

\* A plausible bug: what was moved aside goes with the stage.
PlaceFailsCleanly(b) ==
    /\ At(b, {"assemble", "pack"}, "place")
    /\ Quits(b)
    /\ UNCHANGED <<readOnly, unpublished>>

\* The rename fails, as it does where another output is by now: what was moved
\* aside comes back if nothing is there.
PlaceFails(b) ==
    /\ At(b, {"assemble", "pack"}, "place")
    /\ IF outputs[OutputOf(b)] = Absent
       THEN Becomes(OutputOf(b), builds[b].moved) /\ UNCHANGED backups
       ELSE LeavesBackup(b) /\ UNCHANGED <<outputs, published, swapped>>
    /\ Quits(b)
    /\ UNCHANGED <<pulled, unpublished, programs, deaths>>

RemoveBackup(b) ==
    /\ At(b, {"assemble", "pack"}, "clean")
    /\ Quits(b)
    /\ UNCHANGED <<readOnly, unpublished>>

(***************************************************************************)
(* install_model_store: the files in the order in which they were sealed,  *)
(* blobs before manifests; each is verified beside its place and renamed   *)
(* into it.                                                                *)
(***************************************************************************)
InstallBlobs(b) ==
    /\ At(b, {"install"}, "blobs")
    /\ LET missing == builds[b].records.blobs \ models.blobs IN
         \/ missing = {} /\ Moves(b, [pc |-> "model"]) /\ UNCHANGED models
         \/ \E v \in missing : IF v \in Source(b).blobs
              THEN models' = [models EXCEPT !.blobs = @ \cup {v}] /\ UNCHANGED builds
              ELSE Quits(b) /\ UNCHANGED models
    /\ UNCHANGED <<readOnly, zip>>

\* A manifest of another size that is already there is refused.
InstallManifest(b) ==
    /\ At(b, {"install"}, "model")
    /\ LET wanted == builds[b].records.model IN
         IF models.model = wanted
         THEN Moves(b, [pc |-> "receipt"]) /\ UNCHANGED models
         ELSE IF /\ models.model = 0 \/ SameSize(models.model, wanted)
                 /\ Source(b).model = wanted
              THEN Moves(b, [pc |-> "receipt"]) /\ models' = [models EXCEPT !.model = wanted]
              ELSE Quits(b) /\ UNCHANGED models
    /\ UNCHANGED <<readOnly, zip>>

WriteReceipt(b) ==
    /\ At(b, {"install"}, "receipt")
    /\ models' = [models EXCEPT !.receipt = builds[b].records.model]
    /\ Quits(b)
    /\ UNCHANGED <<readOnly, zip>>

\* A program is killed; its stage is left behind, unused.
KillProgram(b) ==
    /\ builds[b].pc # "idle"
    /\ deaths < MaxDeaths
    /\ deaths' = deaths + 1
    /\ LeavesBackup(b)
    /\ Quits(b)
    /\ UNCHANGED <<pulled, outputs, unpublished, programs, published, swapped>>

BundleNext ==
    \/ \E v \in Versions : Pull(v)
    \/ \E b \in Builders :
         \/ StartAssembly(b) \/ StartPackage(b) \/ StartZip(b)
         \/ \E from \in Outputs : StartInstall(b, from)
         \/ ReadManifest(b) \/ CopyManifest(b) \/ CopyModelBlobs(b) \/ SealStage(b)
         \/ CopySeal(b) \/ CopyBlobs(b) \/ CopyModel(b) \/ CopyEngine(b)
         \/ WritePackageManifest(b) \/ PublishZip(b)
         \/ MoveAside(b) \/ PutInPlace(b) \/ PlaceFails(b) \/ RemoveBackup(b)
         \/ InstallBlobs(b) \/ InstallManifest(b) \/ WriteReceipt(b)
         \/ KillProgram(b)

BundleSpec == BundleInit /\ [][BundleNext]_bundleVars
-----------------------------------------------------------------------------
\* Trees, backups and processes are well formed.
BundleTypeOK ==
    /\ pulled \in [model : Versions, blobs : SUBSET Versions]
    /\ outputs \in [Outputs -> Tree] /\ zip \in Tree
    /\ \A k \in backups : k.of \in Outputs /\ k.tree \in Tree
    /\ models \in [model : Versions \cup {0}, blobs : SUBSET Versions,
                   receipt : Versions \cup {0}]
    /\ builds \in [Builders -> [pc : BuildPcs, does : Programs, from : Outputs,
                     records : Files, stage : Tree, moved : Tree]]
    /\ programs \in 0..MaxPrograms /\ deaths \in 0..MaxDeaths
    /\ published \subseteq Outputs /\ swapped \in BOOLEAN

\* Whatever is pulled, assembled or packaged meanwhile, a bundle that is there
\* is one assembly and has the blobs of its model; so are the package and the
\* archive, unless what they were copied from was swapped while it was read.
PublishedIsWhole ==
    /\ outputs["bundle"] = Absent \/ Whole(outputs["bundle"])
    /\ swapped \/ outputs["package"] = Absent \/ Whole(outputs["package"])
    /\ swapped \/ zip = Absent \/ Whole(zip)

\* A replacement that fails or dies loses nothing: an output that was there is
\* there, or a copy of it was moved aside.
PublishedIsKept ==
    \A o \in published :
        \/ outputs[o] # Absent \/ \E k \in backups : k.of = o
        \/ \E b \in Builders : builds[b].moved # Absent /\ OutputOf(b) = o

\* The manifest in the installed store, by which the model is started, and the
\* receipt come after the blobs: at no moment, after no crash, does either name
\* a model of which a part is missing.
InstalledIsComplete == {models.model, models.receipt} \ {0} \subseteq models.blobs

BundleSound ==
    BundleTypeOK /\ PublishedIsWhole /\ PublishedIsKept /\ InstalledIsComplete
=============================================================================
