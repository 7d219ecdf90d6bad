---------------------------- MODULE TrainingRuns ----------------------------
(***************************************************************************)
(* Training runs (start_training of adaptive_training.py, qlora_train.py). *)
(* A command holds the lifecycle lock, prepares a run directory and starts *)
(* a child, which consumes a one-use authorization and writes an adapter.  *)
(* The lock dies with the command, the child does not; what the next       *)
(* command knows of it is the claim file that the child has written.       *)
(***************************************************************************)
EXTENDS Naturals, FiniteSets

CONSTANTS
    Trainers,    \* processes that run training commands
    NoTrainer,
    RunDirs,     \* run directories, named by their run id
    NoDir,
    MaxLaunches  \* bound on authorizations issued

ASSUME TrainingAssumption ==
    /\ NoTrainer \notin Trainers /\ NoDir \notin RunDirs
    /\ MaxLaunches \in Nat

VARIABLES
    training,    \* the state file
    lifecycle,   \* the trainer that holds the lifecycle locks
    dirs,        \* the run directories
    child,       \* the process of each launch
    trainer,     \* what each trainer does
    early,       \* history: children orphaned before they wrote their claim
    torn         \* history: directories whose files a death left half-written

trainingVars == <<training, lifecycle, dirs, child, trainer, early, torn>>

Launches == 1..MaxLaunches

\* training-plan.json, with its hash: the launch it authorizes, 0 for none.
Plan == [launch : 0..MaxLaunches, consumed : BOOLEAN]

Issued(l) == [launch |-> l, consumed |-> FALSE]

Spent(l) == [launch |-> l, consumed |-> TRUE]

TrainingState ==
    [status : {"none", "running", "interrupted", "failed",
               "failed_validation", "trained"},
     dir : RunDirs \cup {NoDir}, launch : 0..MaxLaunches, plan : Plan]

\* pid is 0 while .launch-claimed is absent or empty; a child is named by its
\* launch.  weights and manifest name the child that wrote them last.
RunDir ==
    [used : BOOLEAN, plan : Plan, claim : BOOLEAN, pid : 0..MaxLaunches,
     weights : 0..MaxLaunches, manifest : 0..MaxLaunches]

NewDir ==
    [used |-> FALSE, plan |-> Issued(0), claim |-> FALSE, pid |-> 0,
     weights |-> 0, manifest |-> 0]

AlivePcs == {"start", "claim", "check", "consume", "train", "save"}

Child ==
    [pc : AlivePcs \cup {"none", "done", "failed"}, dir : RunDirs \cup {NoDir}]

Trainer ==
    [pc : {"idle", "prepare", "planned", "recorded", "waiting", "ended",
           "interrupted"},
     dir : RunDirs \cup {NoDir}, launch : 0..MaxLaunches]

Resting == [pc |-> "idle", dir |-> NoDir, launch |-> 0]

TrainingInit ==
    /\ training = [status |-> "none", dir |-> NoDir, launch |-> 0,
                   plan |-> Issued(0)]
    /\ lifecycle = NoTrainer
    /\ dirs = [d \in RunDirs |-> NewDir]
    /\ child = [l \in Launches |-> [pc |-> "none", dir |-> NoDir]]
    /\ trainer = [t \in Trainers |-> Resting]
    /\ early = {} /\ torn = {}

Lives(l) == child[l].pc \in AlivePcs

Rest(t) == trainer' = [trainer EXCEPT ![t] = Resting] /\ lifecycle' = NoTrainer

TrainerTo(t, pc) == trainer' = [trainer EXCEPT ![t].pc = pc]

-----------------------------------------------------------------------------
\* The command.

\* Mutation: a dead owner's lock is enough.
OrphanIgnored == FALSE

\* _recorded_training_child_alive: the run the state file names has a child
\* alive that has written its claim.  (That a dead child's id may be in use
\* again only adds refusals, which change nothing.)
OrphanSeen ==
    /\ training.dir # NoDir
    /\ LET d == dirs[training.dir]
       IN  d.claim /\ d.pid # 0 /\ Lives(d.pid)

\* _deployment_lock, for a command that goes on to prepare directory d.
Acquire(t, d) ==
    /\ lifecycle = NoTrainer /\ ~ OrphanSeen
    /\ lifecycle' = t
    /\ trainer' = [trainer EXCEPT ![t] =
                      [pc |-> "prepare", dir |-> d, launch |-> 0]]

NewTrainingRun(t, d) ==
    /\ ~ dirs[d].used /\ Acquire(t, d)
    /\ dirs' = [dirs EXCEPT ![d].used = TRUE]
    /\ UNCHANGED <<training, child, early, torn>>

\* The plan must be the recorded one, and the claim of the last child, if
\* it is still there, readable and that of a process that is gone.
ResumeTrainingRun(t, d) ==
    /\ training.status \in {"interrupted", "failed"} /\ training.dir = d
    /\ dirs[d].plan = training.plan
    /\ dirs[d].claim => dirs[d].pid # 0 /\ ~ Lives(dirs[d].pid)
    /\ Acquire(t, d)
    /\ dirs' = [dirs EXCEPT ![d].claim = FALSE, ![d].pid = 0]
    /\ UNCHANGED <<training, child, early, torn>>

\* prelaunch_failure removes the directory of a new run.
PrelaunchFails(t, d) ==
    /\ trainer[t].pc = "prepare" /\ training.dir # d
    /\ dirs' = [dirs EXCEPT ![d] = NewDir]
    /\ Rest(t)
    /\ UNCHANGED <<training, child, early, torn>>

\* The manifest with a fresh launch token.
WritePlan(t, d) ==
    /\ trainer[t].pc = "prepare"
    /\ \E l \in Launches :
          /\ \A e \in RunDirs : dirs[e].plan.launch < l
          /\ l = 1 \/ \E e \in RunDirs : dirs[e].plan.launch = l - 1
          /\ dirs' = [dirs EXCEPT ![d].plan = Issued(l)]
          /\ trainer' = [trainer EXCEPT ![t].pc = "planned", ![t].launch = l]
    /\ UNCHANGED <<training, lifecycle, child, early, torn>>

WriteRunning(t, d) ==
    /\ trainer[t].pc = "planned"
    /\ training' = [status |-> "running", dir |-> d,
                    launch |-> trainer[t].launch,
                    plan |-> Issued(trainer[t].launch)]
    /\ TrainerTo(t, "recorded")
    /\ UNCHANGED <<lifecycle, dirs, child, early, torn>>

SpawnChild(t, d) ==
    /\ trainer[t].pc = "recorded"
    /\ child' = [child EXCEPT ![trainer[t].launch] =
                    [pc |-> "start", dir |-> d]]
    /\ TrainerTo(t, "waiting")
    /\ UNCHANGED <<training, lifecycle, dirs, early, torn>>

SpawnFails(t) ==
    /\ trainer[t].pc = "recorded"
    /\ training' = [training EXCEPT !.status = "failed"]
    /\ Rest(t)
    /\ UNCHANGED <<dirs, child, early, torn>>

\* The child has returned; its claim is removed.
AwaitChild(t, d) ==
    /\ trainer[t].pc = "waiting" /\ ~ Lives(trainer[t].launch)
    /\ dirs' = [dirs EXCEPT ![d].claim = FALSE, ![d].pid = 0]
    /\ TrainerTo(t, "ended")
    /\ UNCHANGED <<training, lifecycle, child, early, torn>>

\* KeyboardInterrupt: subprocess.run kills the child; the claim stays.
Interrupt(t, d) ==
    /\ trainer[t].pc = "waiting" /\ Lives(trainer[t].launch)
    /\ child' = [child EXCEPT ![trainer[t].launch].pc = "failed"]
    /\ torn' = IF child[trainer[t].launch].pc = "claim"
               THEN torn \cup {d} ELSE torn
    /\ TrainerTo(t, "interrupted")
    /\ UNCHANGED <<training, lifecycle, dirs, early>>

\* Of a child that succeeded the adapter is validated.
Outcomes(t, d) ==
    IF trainer[t].pc = "interrupted" THEN {"interrupted"}
    ELSE IF child[trainer[t].launch].pc # "done" THEN {"failed"}
    ELSE {"failed_validation"} \cup
            IF dirs[d].manifest # 0 /\ dirs[d].weights = dirs[d].manifest
            THEN {"trained"} ELSE {}

\* Mutation: the recorded hash is the one taken before the launch.
RecordUnhashed(t, d) ==
    /\ trainer[t].pc \in {"ended", "interrupted"}
    /\ \E s \in Outcomes(t, d) : training' = [training EXCEPT !.status = s]
    /\ Rest(t)
    /\ UNCHANGED <<dirs, child, early, torn>>

\* The state is written with the hash the plan has now.
RecordEnd(t, d) ==
    /\ trainer[t].pc \in {"ended", "interrupted"}
    /\ \E s \in Outcomes(t, d) :
          training' = [training EXCEPT !.status = s, !.plan = dirs[d].plan]
    /\ Rest(t)
    /\ UNCHANGED <<dirs, child, early, torn>>

\* The process dies, or a file cannot be written: its lock is free.
TrainerDies(t, d) ==
    /\ trainer[t].pc # "idle"
    /\ Rest(t)
    /\ early' = IF /\ trainer[t].pc = "waiting" /\ Lives(trainer[t].launch)
                   /\ dirs[d].pid # trainer[t].launch
                THEN early \cup {trainer[t].launch} ELSE early
    /\ torn' = IF trainer[t].pc = "planned" THEN torn \cup {d} ELSE torn
    /\ UNCHANGED <<training, dirs, child>>

-----------------------------------------------------------------------------
\* The child (authorize_launch and main of qlora_train.py).

ChildTo(l, pc) == child' = [child EXCEPT ![l].pc = pc]

\* The claim file is created exclusively.
CreateClaim(l, d) ==
    /\ child[l].pc = "start"
    /\ IF dirs[d].claim THEN ChildTo(l, "failed") /\ UNCHANGED dirs
       ELSE /\ ChildTo(l, "claim")
            /\ dirs' = [dirs EXCEPT ![d].claim = TRUE]

WriteClaim(l, d) ==
    /\ child[l].pc = "claim"
    /\ dirs' = [dirs EXCEPT ![d].pid = l]
    /\ ChildTo(l, "check")

\* The token, whether it was consumed, its age and the data set.
CheckManifest(l, d) ==
    /\ child[l].pc = "check" /\ UNCHANGED dirs
    /\ ChildTo(l, IF dirs[d].plan = Issued(l) THEN "consume" ELSE "failed")

ConsumeLaunch(l, d) ==
    /\ child[l].pc = "consume"
    /\ dirs' = [dirs EXCEPT ![d].plan = Spent(l)]
    /\ ChildTo(l, "train")

SaveWeights(l, d) ==
    /\ child[l].pc = "train"
    /\ dirs' = [dirs EXCEPT ![d].weights = l]
    /\ ChildTo(l, "save")

WriteManifest(l, d) ==
    /\ child[l].pc = "save"
    /\ dirs' = [dirs EXCEPT ![d].manifest = l]
    /\ ChildTo(l, "done")

\* An expired authorization, an error of the training, memory, or a kill.
ChildFails(l) == Lives(l) /\ ChildTo(l, "failed") /\ UNCHANGED dirs

ChildStep(l) ==
    /\ \/ \E d \in RunDirs :
             /\ child[l].dir = d
             /\ \/ CreateClaim(l, d) \/ WriteClaim(l, d) \/ CheckManifest(l, d)
                \/ ConsumeLaunch(l, d) \/ SaveWeights(l, d)
                \/ WriteManifest(l, d)
       \/ ChildFails(l)
    /\ UNCHANGED <<training, lifecycle, trainer, early, torn>>

TrainerStep(t) ==
    \/ \E d \in RunDirs :
          /\ trainer[t].dir = d
          /\ \/ PrelaunchFails(t, d) \/ WritePlan(t, d) \/ WriteRunning(t, d)
             \/ SpawnChild(t, d) \/ AwaitChild(t, d) \/ Interrupt(t, d)
             \/ RecordEnd(t, d) \/ TrainerDies(t, d)
    \/ SpawnFails(t)

TrainingNext ==
    \/ \E t \in Trainers :
          \/ TrainerStep(t)
          \/ trainer[t].pc = "idle" /\ \E d \in RunDirs :
                NewTrainingRun(t, d) \/ ResumeTrainingRun(t, d)
    \/ \E l \in Launches : ChildStep(l)

TrainingSpec == TrainingInit /\ [][TrainingNext]_trainingVars

-----------------------------------------------------------------------------
\* Properties.

\* The files and the processes keep their domains.
TrainingTypeOK ==
    /\ training \in TrainingState /\ lifecycle \in Trainers \cup {NoTrainer}
    /\ dirs \in [RunDirs -> RunDir] /\ child \in [Launches -> Child]
    /\ trainer \in [Trainers -> Trainer]
    /\ early \subseteq Launches /\ torn \subseteq RunDirs

\* "an orphaned training child is still running" (_deployment_lock): two
\* children never run at once, though a command may die and another start.
\* The one exception is a child whose command died before it wrote its claim.
OneTrainer ==
    \A l, m \in Launches \ early : Lives(l) /\ Lives(m) => l = m

\* A run is recorded as trained only with the whole adapter of its last
\* launch, and no child is left that could write it once more.
TrainedIsGrounded ==
    training.status = "trained" =>
        LET d == dirs[training.dir]
        IN  /\ d.weights = training.launch /\ d.manifest = training.launch
            /\ d.plan = Spent(training.launch) /\ training.plan = d.plan
            /\ \A l \in Launches : child[l].dir = training.dir => ~ Lives(l)

\* "checkpoints were preserved for resume": a run recorded as failed or
\* interrupted has the plan and the claim a resume asks for, unless a death
\* between two writes of its files left them torn.
ResumeAccepted ==
    training.status \in {"failed", "interrupted"} /\ training.dir \notin torn =>
        LET d == dirs[training.dir]
        IN  \/ \E t \in Trainers :
                  trainer[t].pc = "planned" /\ trainer[t].dir = training.dir
            \/ d.plan = training.plan /\ (d.claim => d.pid # 0 /\ ~ Lives(d.pid))

\* The state file tells the truth about the run directory it names.
StateMatchesRun == TrainedIsGrounded /\ ResumeAccepted

\* No two children train at once, and what the state file says of a run is
\* what its directory holds.
TrainingHonest == OneTrainer /\ StateMatchesRun
=============================================================================
