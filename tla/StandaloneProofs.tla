-------------------------- MODULE StandaloneProofs --------------------------
(***************************************************************************)
(* Theorems of the other parts that stand alone: the runs of the adaptive  *)
(* training and the application's system screen, for any number of         *)
(* commands, directories, operations and late answers.  Each has its own   *)
(* specification and its own inductive invariant.                          *)
(***************************************************************************)
EXTENDS AppSystem, TrainingRuns, FiniteSetTheorems, SequenceTheorems, TLAPS

(***************************************************************************)
(* Training.  One command at a time; a directory belongs to the command    *)
(* that works in it or to the one child that is alive in it, and what its  *)
(* files hold follows from how far these are.                              *)
(***************************************************************************)

Working(t) == trainer[t].pc # "idle"

Waits(t, l) == trainer[t].pc = "waiting" /\ trainer[t].launch = l

\* One command works at a time, in a directory of its own.
CommandInv(t) ==
    /\ Working(t) <=> lifecycle = t
    /\ Working(t) => trainer[t].dir \in RunDirs /\ dirs[trainer[t].dir].used

\* Before the plan: a new directory is empty, an old one is being resumed.
PreparingInv(t) ==
    trainer[t].pc = "prepare" =>
        LET d == trainer[t].dir
        IN  /\ ~ dirs[d].claim /\ dirs[d].pid = 0
            /\ training.dir # d => dirs[d].plan.launch = 0

\* A launch is authorized once, and its child is not there yet.
PlannedInv(t) ==
    trainer[t].pc \in {"planned", "recorded"} =>
        LET d == trainer[t].dir
        IN  /\ ~ dirs[d].claim /\ dirs[d].pid = 0
            /\ trainer[t].launch \in Launches
            /\ dirs[d].plan = Issued(trainer[t].launch)
            /\ child[trainer[t].launch].pc = "none"

\* Nothing but its own command writes the state of a run.
RecordedInv(t) ==
    trainer[t].pc \in {"recorded", "waiting", "ended", "interrupted"} =>
        /\ training.status = "running" /\ training.dir = trainer[t].dir
        /\ training.launch = trainer[t].launch
        /\ training.plan = Issued(trainer[t].launch)

ResumingInv(t) ==
    trainer[t].pc \in {"prepare", "planned"} /\ training.dir = trainer[t].dir =>
        /\ training.status \in {"failed", "interrupted"}
        /\ trainer[t].pc = "prepare" => dirs[training.dir].plan = training.plan

\* From the launch on, the plan and the child are those of the launch.
LaunchedInv(t) ==
    trainer[t].pc \in {"waiting", "ended", "interrupted"} =>
        LET d == trainer[t].dir
            l == trainer[t].launch
        IN  /\ l \in Launches /\ child[l].pc # "none" /\ child[l].dir = d
            /\ dirs[d].plan.launch = l
            /\ trainer[t].pc = "ended" => ~ dirs[d].claim
            /\ trainer[t].pc = "interrupted" =>
                  d \in torn \/ (dirs[d].claim => dirs[d].pid # 0)

TrainerInv(t) ==
    /\ CommandInv(t) /\ PreparingInv(t) /\ PlannedInv(t) /\ RecordedInv(t)
    /\ ResumingInv(t) /\ LaunchedInv(t)

\* What a child has done shows in its directory while its launch is the last.
ChildFiles(l) ==
    LET d == dirs[child[l].dir]
        pc == child[l].pc
    IN  /\ pc = "start" => ~ d.claim /\ d.pid = 0
        /\ pc = "claim" => d.claim /\ d.pid = 0
        /\ pc \in AlivePcs \ {"start", "claim"} => d.claim /\ d.pid = l
        /\ pc \in AlivePcs => d.plan.launch = l
        /\ d.plan.launch = l /\ pc \in {"train", "save", "done"} => d.plan = Spent(l)
        /\ d.plan.launch = l /\ pc \in {"save", "done"} => d.weights = l
        /\ d.plan.launch = l /\ pc = "done" => d.manifest = l

\* A child alive has its directory to itself.  If its command is gone, nothing
\* will resume its run, and one that has written its claim stops all commands.
Alone(l) ==
    Lives(l) =>
        /\ \A t \in Trainers :
              Working(t) /\ trainer[t].dir = child[l].dir => Waits(t, l)
        /\ (~ \E t \in Trainers : Waits(t, l)) =>
              /\ training.dir = child[l].dir => training.status = "running"
              /\ l \notin early =>
                    /\ lifecycle = NoTrainer /\ training.dir = child[l].dir
                    /\ dirs[child[l].dir].claim /\ dirs[child[l].dir].pid = l

ChildInv(l) ==
    child[l].pc # "none" =>
        /\ child[l].dir \in RunDirs /\ dirs[child[l].dir].used
        /\ l <= dirs[child[l].dir].plan.launch
        /\ ChildFiles(l) /\ Alone(l)

DirInv(d) ==
    /\ ~ dirs[d].used => dirs[d] = NewDir
    /\ dirs[d].pid # 0 =>
          /\ dirs[d].claim
          /\ child[dirs[d].pid].pc # "none" /\ child[dirs[d].pid].dir = d
    /\ \A l, m \in Launches :
          Lives(l) /\ Lives(m) /\ child[l].dir = d /\ child[m].dir = d => l = m

StateInv ==
    /\ training.status = "none" <=> training.dir = NoDir
    /\ training.dir # NoDir => dirs[training.dir].used

TrainingInv ==
    /\ TrainingTypeOK /\ StateInv /\ StateMatchesRun
    /\ \A t \in Trainers : TrainerInv(t)
    /\ \A l \in Launches : ChildInv(l)
    /\ \A d \in RunDirs : DirInv(d)


LEMMA InvTypes ==
    ASSUME TrainingInv
    PROVE  /\ dirs \in [RunDirs -> RunDir] /\ child \in [Launches -> Child]
           /\ trainer \in [Trainers -> Trainer] /\ training \in TrainingState
           /\ early \subseteq Launches /\ torn \subseteq RunDirs
BY DEF TrainingInv, TrainingTypeOK

\* An idle trainer holds nothing.
LEMMA IdleInv ==
    ASSUME NEW s \in Trainers, trainer[s].pc = "idle", lifecycle # s
    PROVE  TrainerInv(s)
BY Zenon
DEF TrainerInv, CommandInv, PreparingInv, PlannedInv, RecordedInv, ResumingInv,
    LaunchedInv, Working

\* The one that works is alone.
LEMMA OneWorks ==
    ASSUME TrainingInv, NEW t \in Trainers, Working(t)
    PROVE  /\ lifecycle = t /\ trainer[t].dir \in RunDirs /\ dirs[trainer[t].dir].used
           /\ \A s \in Trainers : s # t => trainer[s].pc = "idle"
BY Zenon DEF TrainingInv, TrainerInv, CommandInv, Working

\* After its step only the trainer's own part is left to show.
LEMMA OthersIdle ==
    ASSUME TrainingInv, NEW t \in Trainers, Working(t), NEW row,
           trainer' = [trainer EXCEPT ![t] = row], lifecycle' = t, TrainerInv(t)'
    PROVE  \A s \in Trainers : TrainerInv(s)'
<1>1. \A s \in Trainers : s # t => trainer'[s].pc = "idle" /\ lifecycle' # s
  BY OneWorks, InvTypes, Zenon
<1>2. ASSUME NEW s \in Trainers, trainer'[s].pc = "idle", lifecycle' # s
      PROVE  TrainerInv(s)'
  BY <1>2, Zenon
  DEF TrainerInv, CommandInv, PreparingInv, PlannedInv, RecordedInv, ResumingInv,
      LaunchedInv, Working
<1> QED
  BY <1>1, <1>2, Zenon

\* Once the trainer rests, all do.
LEMMA AllRest ==
    ASSUME TrainingInv, NEW t \in Trainers, Working(t), Rest(t)
    PROVE  /\ trainer' \in [Trainers -> Trainer]
           /\ lifecycle' = NoTrainer
           /\ \A s \in Trainers : trainer'[s].pc = "idle" /\ TrainerInv(s)'
<1>1. Resting \in Trainer /\ Resting.pc = "idle"
  BY TrainingAssumption, SMT DEF Resting, Trainer
<1>2. trainer' = [trainer EXCEPT ![t] = Resting] /\ lifecycle' = NoTrainer
  BY DEF Rest
<1>3. \A s \in Trainers : trainer'[s].pc = "idle"
  BY <1>1, <1>2, OneWorks, InvTypes, Zenon
<1>4. \A s \in Trainers : lifecycle' # s
  BY <1>2, TrainingAssumption
<1>5. ASSUME NEW s \in Trainers, trainer'[s].pc = "idle", lifecycle' # s
      PROVE  TrainerInv(s)'
  BY <1>5, Zenon
  DEF TrainerInv, CommandInv, PreparingInv, PlannedInv, RecordedInv, ResumingInv,
      LaunchedInv, Working
<1>6. trainer' \in [Trainers -> Trainer]
  BY <1>1, <1>2, InvTypes
<1> QED
  BY <1>2, <1>3, <1>4, <1>5, <1>6, Zenon

\* A trainer that goes on keeps its directory and its launch.
LEMMA MovedTrainer ==
    ASSUME trainer \in [Trainers -> Trainer], NEW t \in Trainers,
           NEW pc \in {"recorded", "waiting", "ended", "interrupted"},
           trainer' = [trainer EXCEPT ![t].pc = pc]
    PROVE  /\ trainer' \in [Trainers -> Trainer]
           /\ trainer'[t].pc = pc /\ trainer'[t].dir = trainer[t].dir
           /\ trainer'[t].launch = trainer[t].launch
           /\ trainer' = [trainer EXCEPT ![t] = [trainer[t] EXCEPT !.pc = pc]]
           /\ \A s \in Trainers : s # t => trainer'[s] = trainer[s]
<1>1. trainer' = [trainer EXCEPT ![t] = [trainer[t] EXCEPT !.pc = pc]]
  BY Zenon
<1>2. ASSUME NEW old \in Trainer
      PROVE  LET r == [old EXCEPT !.pc = pc]
             IN  r \in Trainer /\ r.pc = pc /\ r.dir = old.dir /\ r.launch = old.launch
  BY Zenon DEF Trainer
<1> DEFINE row == [trainer[t] EXCEPT !.pc = pc]
<1>3. /\ row \in Trainer /\ row.pc = pc /\ row.dir = trainer[t].dir
      /\ row.launch = trainer[t].launch
  BY <1>2
<1> HIDE DEF row
<1>4. trainer' = [trainer EXCEPT ![t] = row]
  BY <1>1 DEF row
<1>5. trainer'[t] = row /\ \A s \in Trainers : s # t => trainer'[s] = trainer[s]
  BY <1>4, Zenon
<1> QED
  BY <1>1, <1>3, <1>4, <1>5



LEMMA PlanRows ==
    ASSUME NEW l \in Launches
    PROVE  /\ Issued(l) \in Plan /\ Spent(l) \in Plan
           /\ Issued(l).launch = l /\ ~ Issued(l).consumed
           /\ Spent(l).launch = l /\ Spent(l).consumed
           /\ l \in 0..MaxLaunches /\ l \in Nat /\ l > 0
<1>1. l \in 0..MaxLaunches /\ l \in Nat /\ l > 0
  BY TrainingAssumption, SMT DEF Launches
<1>2. Issued(l) \in Plan /\ Spent(l) \in Plan
  BY <1>1, Zenon DEF Issued, Spent, Plan
<1> QED
  BY <1>1, <1>2, Zenon DEF Issued, Spent

LEMMA NewDirRow ==
    /\ NewDir \in RunDir /\ NewDir.plan.launch = 0 /\ NewDir.pid = 0
    /\ ~ NewDir.used /\ ~ NewDir.claim
<1>1. 0 \in 0..MaxLaunches
  BY TrainingAssumption, SMT
<1>2. Issued(0) \in Plan /\ Issued(0).launch = 0
  BY <1>1, Zenon DEF Issued, Plan
<1> QED
  BY <1>1, <1>2, Zenon DEF NewDir, RunDir

\* Where the directories and the children are left alone, what is left to show
\* of them is who waits for a child.
LEMMA FilesKept ==
    ASSUME TrainingInv, UNCHANGED <<dirs, child>>,
           \A l \in Launches : child[l].pc # "none" => Alone(l)'
    PROVE  /\ \A l \in Launches : ChildInv(l)'
           /\ \A d \in RunDirs : DirInv(d)'
<1>1. ASSUME NEW d \in RunDirs
      PROVE  DirInv(d)'
  <2>1. DirInv(d)
    BY DEF TrainingInv
  <2> QED
    BY <2>1, Zenon DEF DirInv, Lives
<1>2. ASSUME NEW l \in Launches
      PROVE  ChildInv(l)'
  <2>1. ChildInv(l)
    BY DEF TrainingInv
  <2>2. ChildFiles(l) => ChildFiles(l)'
    BY Zenon DEF ChildFiles
  <2> QED
    BY <2>1, <2>2, Zenon DEF ChildInv
<1> QED
  BY <1>1, <1>2

\* A child that is alive while a command works elsewhere, or is past waiting,
\* is an early one in a run that nobody will resume.
LEMMA LeftAlone ==
    ASSUME TrainingInv, NEW l \in Launches, child[l].pc # "none", Lives(l),
           NEW t \in Trainers, Working(t), ~ Waits(t, l)
    PROVE  /\ child[l].dir # trainer[t].dir
           /\ training.dir = child[l].dir => training.status = "running"
           /\ l \in early
<1>1. ChildInv(l) /\ Alone(l)
  BY Zenon DEF TrainingInv, ChildInv
<1>2. \A s \in Trainers : ~ Waits(s, l)
  BY OneWorks, Zenon DEF Waits
<1>3. lifecycle = t /\ lifecycle # NoTrainer
  BY OneWorks, TrainingAssumption
<1> QED
  BY <1>1, <1>2, <1>3, Zenon DEF Alone

LEMMA WriteRunningKeeps ==
    ASSUME TrainingInv, NEW t \in Trainers, NEW d \in RunDirs, trainer[t].dir = d,
           WriteRunning(t, d)
    PROVE  TrainingInv'
<1> DEFINE l == trainer[t].launch
<1>1. /\ trainer[t].pc = "planned" /\ Working(t) /\ l \in Launches
      /\ ~ dirs[d].claim /\ dirs[d].pid = 0 /\ dirs[d].plan = Issued(l)
      /\ child[l].pc = "none" /\ dirs[d].used /\ lifecycle = t
  <2>1. trainer[t].pc = "planned" /\ Working(t)
    BY DEF WriteRunning, Working
  <2> QED
    BY <2>1, OneWorks, Zenon DEF TrainingInv, TrainerInv, PlannedInv
<1>2. /\ training' = [status |-> "running", dir |-> d, launch |-> l, plan |-> Issued(l)]
      /\ trainer' = [trainer EXCEPT ![t].pc = "recorded"]
      /\ UNCHANGED <<lifecycle, dirs, child, early, torn>>
  BY DEF WriteRunning, TrainerTo
<1>3. training' \in TrainingState
  BY <1>1, <1>2, PlanRows, SMT DEF TrainingState
<1>4. trainer' \in [Trainers -> Trainer] /\ trainer'[t] = [trainer[t] EXCEPT !.pc = "recorded"]
  BY <1>2, InvTypes, SMT DEF Trainer
<1>5. trainer'[t].pc = "recorded" /\ trainer'[t].dir = d /\ trainer'[t].launch = l
  BY <1>4, InvTypes, SMT DEF Trainer
<1>6. TrainerInv(t)'
  <2>1. CommandInv(t)'
    BY <1>1, <1>2, <1>5, Zenon DEF CommandInv, Working
  <2>2. PlannedInv(t)' /\ RecordedInv(t)'
    BY <1>1, <1>2, <1>5, Zenon DEF PlannedInv, RecordedInv
  <2>3. PreparingInv(t)' /\ ResumingInv(t)' /\ LaunchedInv(t)'
    BY <1>5, Zenon DEF PreparingInv, ResumingInv, LaunchedInv
  <2> QED
    BY <2>1, <2>2, <2>3 DEF TrainerInv
<1>7. \A s \in Trainers : TrainerInv(s)'
  BY <1>1, <1>2, <1>6, OthersIdle, Zenon
<1>8. ASSUME NEW m \in Launches, child[m].pc # "none"
      PROVE  Alone(m)'
  <2> SUFFICES ASSUME Lives(m) PROVE Alone(m)'
    BY <1>2, Zenon DEF Alone, Lives
  <2>1. ~ Waits(t, m)
    BY <1>1, Zenon DEF Waits
  <2>2. child[m].dir # d /\ m \in early
    BY <1>1, <1>8, <2>1, LeftAlone, Zenon
  <2>3. \A s \in Trainers : s # t => ~ Working(s)'
    BY <1>1, <1>2, OneWorks, InvTypes, Zenon DEF Working
  <2> QED
    BY <1>2, <1>5, <2>2, <2>3, Zenon DEF Alone
<1>9. StateInv' /\ StateMatchesRun'
  <2>1. training'.status = "running" /\ training'.dir = d
    BY <1>2
  <2> QED
    BY <1>1, <1>2, <2>1, TrainingAssumption
    DEF StateInv, StateMatchesRun, TrainedIsGrounded, ResumeAccepted
<1>10. TrainingTypeOK'
  BY <1>2, <1>3, <1>4 DEF TrainingInv, TrainingTypeOK
<1> QED
  BY <1>2, <1>7, <1>8, <1>9, <1>10, FilesKept DEF TrainingInv


\* What nobody waits for, nobody will wait for.
LEMMA AloneAtRest ==
    ASSUME TrainingInv, NEW t \in Trainers, Working(t), NEW l \in Launches,
           child[l].pc # "none", Lives(l), ~ Waits(t, l),
           \A s \in Trainers : trainer'[s].pc = "idle",
           UNCHANGED child, early \subseteq early',
           training'.dir = training.dir,
           training'.status = training.status \/ training.dir = trainer[t].dir
    PROVE  Alone(l)'
<1>1. /\ child[l].dir # trainer[t].dir /\ l \in early
      /\ training.dir = child[l].dir => training.status = "running"
  BY LeftAlone
<1>2. \A s \in Trainers : ~ Working(s)' /\ ~ Waits(s, l)'
  BY Zenon DEF Working, Waits
<1> QED
  BY <1>1, <1>2, Zenon DEF Alone

LEMMA SpawnFailsKeeps ==
    ASSUME TrainingInv, NEW t \in Trainers, SpawnFails(t)
    PROVE  TrainingInv'
<1> DEFINE d == trainer[t].dir
           l == trainer[t].launch
<1>1. /\ trainer[t].pc = "recorded" /\ Working(t) /\ l \in Launches /\ d \in RunDirs
      /\ ~ dirs[d].claim /\ dirs[d].plan = Issued(l) /\ dirs[d].used
      /\ training.status = "running" /\ training.dir = d /\ training.plan = Issued(l)
  <2>1. trainer[t].pc = "recorded" /\ Working(t)
    BY DEF SpawnFails, Working
  <2>2. PlannedInv(t) /\ RecordedInv(t)
    BY DEF TrainingInv, TrainerInv
  <2> QED
    BY <2>1, <2>2, OneWorks, Zenon DEF PlannedInv, RecordedInv
<1>2. /\ training' = [training EXCEPT !.status = "failed"] /\ Rest(t)
      /\ UNCHANGED <<dirs, child, early, torn>>
  BY DEF SpawnFails
<1>3. /\ training' \in TrainingState /\ training'.status = "failed"
      /\ training'.dir = d /\ training'.plan = Issued(l)
  BY <1>1, <1>2, InvTypes, SMT DEF TrainingState
<1>4. /\ trainer' \in [Trainers -> Trainer] /\ lifecycle' = NoTrainer
      /\ \A s \in Trainers : trainer'[s].pc = "idle" /\ TrainerInv(s)'
  BY <1>1, <1>2, AllRest
<1>5. ASSUME NEW m \in Launches, child[m].pc # "none"
      PROVE  Alone(m)'
  <2>1. ~ Waits(t, m)
    BY <1>1, Zenon DEF Waits
  <2>2. CASE Lives(m)
    BY <1>1, <1>2, <1>3, <1>4, <1>5, <2>1, <2>2, AloneAtRest, Zenon
  <2>3. CASE ~ Lives(m)
    BY <1>2, <2>3, Zenon DEF Alone, Lives
  <2> QED
    BY <2>2, <2>3
<1>6. StateInv' /\ StateMatchesRun'
  BY <1>1, <1>2, <1>3, TrainingAssumption, Zenon
  DEF StateInv, StateMatchesRun, TrainedIsGrounded, ResumeAccepted
<1>7. TrainingTypeOK'
  BY <1>2, <1>3, <1>4 DEF TrainingInv, TrainingTypeOK
<1> QED
  BY <1>2, <1>4, <1>5, <1>6, <1>7, FilesKept DEF TrainingInv

LEMMA TrainerDiesKeeps ==
    ASSUME TrainingInv, NEW t \in Trainers, NEW d \in RunDirs, trainer[t].dir = d,
           TrainerDies(t, d)
    PROVE  TrainingInv'
<1>1. Working(t) /\ Rest(t) /\ UNCHANGED <<training, dirs, child>>
  BY DEF TrainerDies, Working
<1>2. /\ trainer' \in [Trainers -> Trainer] /\ lifecycle' = NoTrainer
      /\ \A s \in Trainers : trainer'[s].pc = "idle" /\ TrainerInv(s)'
  BY <1>1, AllRest
<1>3. /\ early \subseteq early' /\ torn \subseteq torn'
      /\ trainer[t].pc = "planned" => d \in torn'
      /\ early' \subseteq Launches /\ torn' \subseteq RunDirs
  <2>1. trainer[t].pc = "waiting" => trainer[t].launch \in Launches
    BY Zenon DEF TrainingInv, TrainerInv, LaunchedInv
  <2> QED
    BY <2>1, InvTypes DEF TrainerDies
<1>4. ASSUME NEW m \in Launches, child[m].pc # "none"
      PROVE  Alone(m)'
  <2>1. CASE Lives(m) /\ ~ Waits(t, m)
    BY <1>1, <1>2, <1>3, <1>4, <2>1, AloneAtRest, Zenon
  <2>2. CASE Lives(m) /\ Waits(t, m)
    <3>1. /\ trainer[t].pc = "waiting" /\ trainer[t].launch = m /\ child[m].dir = d
          /\ training.status = "running" /\ training.dir = d
      BY <2>2, Zenon
      DEF Waits, TrainingInv, TrainerInv, LaunchedInv, RecordedInv
    <3>2. m \notin early' => dirs[d].pid = m
      BY <2>2, <3>1, Zenon DEF TrainerDies
    <3>3. dirs[d].pid = m => dirs[d].claim
      BY PlanRows, SMT DEF TrainingInv, DirInv
    <3>4. \A s \in Trainers : ~ Working(s)'
      BY <1>2, Zenon DEF Working
    <3> QED
      BY <1>1, <1>2, <3>1, <3>2, <3>3, <3>4, Zenon DEF Alone
  <2>3. CASE ~ Lives(m)
    BY <1>1, <2>3, Zenon DEF Alone, Lives
  <2> QED
    BY <2>1, <2>2, <2>3
<1>5. StateInv'
  BY <1>1, Zenon DEF TrainingInv, StateInv
<1>6. TrainedIsGrounded'
  BY <1>1, Zenon DEF TrainingInv, StateMatchesRun, TrainedIsGrounded, Lives
<1>7. ResumeAccepted'
  <2>1. \A s \in Trainers : trainer[s].pc = "planned" => s = t
    BY <1>1, OneWorks, Zenon
  <2> QED
    BY <1>1, <1>3, <2>1, Zenon DEF TrainingInv, StateMatchesRun, ResumeAccepted, Lives
<1>8. TrainingTypeOK'
  BY <1>1, <1>2, <1>3 DEF TrainingInv, TrainingTypeOK
<1> QED
  BY <1>1, <1>2, <1>4, <1>5, <1>6, <1>7, <1>8, FilesKept DEF TrainingInv, StateMatchesRun

LEMMA RecordEndKeeps ==
    ASSUME TrainingInv, NEW t \in Trainers, NEW d \in RunDirs, trainer[t].dir = d,
           RecordEnd(t, d)
    PROVE  TrainingInv'
<1> DEFINE l == trainer[t].launch
<1>1. /\ trainer[t].pc \in {"ended", "interrupted"} /\ Working(t) /\ l \in Launches
      /\ training.status = "running" /\ training.dir = d /\ training.launch = l
      /\ child[l].pc # "none" /\ child[l].dir = d /\ dirs[d].plan.launch = l
      /\ dirs[d].used
  <2>1. trainer[t].pc \in {"ended", "interrupted"} /\ Working(t)
    BY DEF RecordEnd, Working
  <2>2. LaunchedInv(t) /\ RecordedInv(t)
    BY DEF TrainingInv, TrainerInv
  <2> QED
    BY <2>1, <2>2, OneWorks, Zenon DEF LaunchedInv, RecordedInv
<1>2. PICK s \in Outcomes(t, d) :
         training' = [training EXCEPT !.status = s, !.plan = dirs[d].plan]
  BY DEF RecordEnd
<1>3. Rest(t) /\ UNCHANGED <<dirs, child, early, torn>>
  BY DEF RecordEnd
<1>4. s \in {"interrupted", "failed", "failed_validation", "trained"}
  BY SMT DEF Outcomes
<1>5. s = "trained" =>
         /\ trainer[t].pc = "ended" /\ child[l].pc = "done"
         /\ dirs[d].manifest # 0 /\ dirs[d].weights = dirs[d].manifest
  <2>1. CASE trainer[t].pc = "interrupted"
    BY <2>1, SMT DEF Outcomes
  <2>2. CASE trainer[t].pc # "interrupted" /\ child[l].pc # "done"
    BY <2>2, SMT DEF Outcomes
  <2>3. CASE trainer[t].pc # "interrupted" /\ child[l].pc = "done"
    BY <1>1, <2>3, Zenon DEF Outcomes
  <2> QED
    BY <2>1, <2>2, <2>3
<1>6. dirs[d].plan \in Plan
  BY InvTypes, SMT DEF RunDir
<1>7. /\ training' \in TrainingState /\ training'.status = s
      /\ training'.dir = d /\ training'.plan = dirs[d].plan /\ training'.launch = l
  <2>1. ASSUME NEW plan \in Plan, NEW state \in TrainingState,
               training' = [state EXCEPT !.status = s, !.plan = plan]
        PROVE  /\ training' \in TrainingState /\ training'.status = s
               /\ training'.plan = plan /\ training'.dir = state.dir
               /\ training'.launch = state.launch
    BY <1>4, <2>1, Zenon DEF TrainingState
  <2> QED
    BY <1>1, <1>2, <1>6, <2>1, InvTypes, Zenon
<1>8. /\ trainer' \in [Trainers -> Trainer] /\ lifecycle' = NoTrainer
      /\ \A r \in Trainers : trainer'[r].pc = "idle" /\ TrainerInv(r)'
  BY <1>1, <1>3, AllRest
<1>9. ASSUME NEW m \in Launches, child[m].pc # "none"
      PROVE  Alone(m)' /\ (child[m].dir = d => ~ Lives(m))
  <2>1. ~ Waits(t, m)
    BY <1>1, Zenon DEF Waits
  <2>2. CASE Lives(m)
    BY <1>1, <1>3, <1>7, <1>8, <1>9, <2>1, <2>2, AloneAtRest, LeftAlone, Zenon
  <2>3. CASE ~ Lives(m)
    BY <1>3, <2>3, Zenon DEF Alone, Lives
  <2> QED
    BY <2>2, <2>3
<1>10. ASSUME NEW m \in Launches, child[m].dir = d
       PROVE  ~ Lives(m)
  BY <1>9, <1>10, Zenon DEF Lives, AlivePcs
<1>11. TrainedIsGrounded'
  <2>1. s = "trained" => ChildFiles(l)
    BY <1>1, <1>5, Zenon DEF TrainingInv, ChildInv
  <2> QED
    BY <1>1, <1>3, <1>5, <1>7, <1>10, <2>1, Zenon
    DEF TrainedIsGrounded, ChildFiles, Lives
<1>12. ResumeAccepted'
  <2>1. dirs[d].pid # 0 => ~ Lives(dirs[d].pid)
    <3>1. dirs[d].pid # 0 => dirs[d].pid \in Launches /\ child[dirs[d].pid].dir = d
      BY InvTypes, TrainingAssumption, SMT DEF TrainingInv, DirInv, RunDir, Launches
    <3> QED
      BY <3>1, <1>10
  <2>2. d \in torn \/ (dirs[d].claim => dirs[d].pid # 0)
    BY <1>1, Zenon DEF TrainingInv, TrainerInv, LaunchedInv
  <2> QED
    BY <1>3, <1>7, <2>1, <2>2, Zenon DEF ResumeAccepted, Lives
<1>13. StateInv'
  BY <1>1, <1>3, <1>4, <1>7, TrainingAssumption, SMT DEF StateInv
<1>14. TrainingTypeOK'
  BY <1>3, <1>7, <1>8 DEF TrainingInv, TrainingTypeOK
<1> QED
  BY <1>3, <1>8, <1>9, <1>11, <1>12, <1>13, <1>14, FilesKept
  DEF TrainingInv, StateMatchesRun


-----------------------------------------------------------------------------
\* A command takes the locks: no trainer works, and a child that is still
\* alive wrote its claim after its command had died.
LEMMA Unheld ==
    ASSUME TrainingInv, lifecycle = NoTrainer, ~ OrphanSeen
    PROVE  /\ \A s \in Trainers : trainer[s].pc = "idle"
           /\ \A l \in Launches :
                 child[l].pc # "none" /\ Lives(l) =>
                     /\ l \in early
                     /\ training.dir = child[l].dir => training.status = "running"
<1>1. \A s \in Trainers : ~ Working(s)
  BY TrainingAssumption, Zenon DEF TrainingInv, TrainerInv, CommandInv
<1>2. ASSUME NEW l \in Launches, child[l].pc # "none", Lives(l)
      PROVE  /\ l \in early
             /\ training.dir = child[l].dir => training.status = "running"
  <2>1. Alone(l) /\ child[l].dir \in RunDirs
    BY <1>2, Zenon DEF TrainingInv, ChildInv
  <2>2. ~ \E s \in Trainers : Waits(s, l)
    BY <1>1, Zenon DEF Waits, Working
  <2>3. /\ training.dir = child[l].dir => training.status = "running"
        /\ l \notin early => /\ training.dir = child[l].dir
                             /\ dirs[child[l].dir].claim /\ dirs[child[l].dir].pid = l
    BY <1>2, <2>1, <2>2, Zenon DEF Alone
  <2>4. l # 0 /\ child[l].dir # NoDir
    BY <2>1, PlanRows, TrainingAssumption
  <2> QED
    BY <1>2, <2>3, <2>4, Zenon DEF OrphanSeen
<1> QED
  BY <1>1, <1>2, Zenon DEF Working

NoneAlive(d) == \A m \in Launches : child[m].dir = d => ~ Lives(m)

\* What the child of the last launch left in directory d is there in row.
KeepsResult(d, row) ==
    \A m \in Launches :
        child[m].pc # "none" /\ child[m].dir = d /\ row.plan.launch = m =>
            /\ row.plan = dirs[d].plan /\ row.weights = dirs[d].weights
            /\ row.manifest = dirs[d].manifest

\* A directory in which no child is alive is rewritten: nothing that the dead
\* children left changes, or their launch is no longer the last.
LEMMA DirRewritten ==
    ASSUME TrainingInv, NEW d \in RunDirs, NEW row \in RunDir,
           dirs' = [dirs EXCEPT ![d] = row], UNCHANGED child,
           ~ row.claim, row.pid = 0,
           \/ row.used
           \/ row = NewDir /\ \A m \in Launches : child[m].pc # "none" => child[m].dir # d,
           NoneAlive(d), dirs[d].plan.launch <= row.plan.launch, KeepsResult(d, row),
           \A m \in Launches : child[m].pc # "none" => Alone(m)'
    PROVE  /\ dirs' \in [RunDirs -> RunDir]
           /\ \A m \in Launches : ChildInv(m)'
           /\ \A e \in RunDirs : DirInv(e)'
<1>1. dirs' \in [RunDirs -> RunDir] /\ dirs'[d] = row
  BY InvTypes
<1>2. \A e \in RunDirs : e # d => dirs'[e] = dirs[e]
  BY InvTypes
<1>3. ASSUME NEW m \in Launches
      PROVE  ChildInv(m)'
  <2>1. ChildInv(m)
    BY DEF TrainingInv
  <2>2. ASSUME child[m].pc # "none"
        PROVE  m <= dirs'[child[m].dir].plan.launch
    <3>1. CASE child[m].dir = d
      <4>1. m <= dirs[d].plan.launch /\ row.plan.launch \in Nat /\ dirs[d].plan.launch \in Nat
        BY <2>1, <2>2, <3>1, InvTypes, TrainingAssumption, SMT DEF ChildInv, RunDir, Plan
      <4> QED
        BY <1>1, <3>1, <4>1, PlanRows, SMT
    <3>2. CASE child[m].dir # d
      BY <1>2, <2>1, <2>2, <3>2, Zenon DEF ChildInv
    <3> QED
      BY <3>1, <3>2
  <2>3. child[m].pc # "none" /\ child[m].dir # d => ChildFiles(m)'
    BY <1>2, <2>1, Zenon DEF ChildInv, ChildFiles
  <2>4. ASSUME child[m].pc # "none", child[m].dir = d
        PROVE  ChildFiles(m)'
    <3>1. child[m].pc \notin AlivePcs
      BY <2>4 DEF Lives, NoneAlive
    <3>2. child[m].pc # "start" /\ child[m].pc # "claim" /\ child[m].pc # "train" /\ child[m].pc # "save"
      BY <3>1 DEF AlivePcs
    <3>3. ChildFiles(m)
      BY <2>1, <2>4, Zenon DEF ChildInv
    <3> QED
      BY <1>1, <2>4, <3>1, <3>2, <3>3, Zenon DEF ChildFiles, KeepsResult
  <2>5. child[m].pc # "none" /\ child[m].dir \in RunDirs =>
            (dirs[child[m].dir].used => dirs'[child[m].dir].used)
    BY <1>1, <1>2, Zenon
  <2> QED
    BY <2>1, <2>2, <2>3, <2>4, <2>5, Zenon DEF ChildInv
<1>4. ASSUME NEW e \in RunDirs
      PROVE  DirInv(e)'
  <2>1. DirInv(e)
    BY DEF TrainingInv
  <2>2. CASE e # d
    BY <1>2, <2>1, <2>2, Zenon DEF DirInv, Lives
  <2>3. CASE e = d
    BY <1>1, <2>1, <2>3, Zenon DEF DirInv, Lives
  <2> QED
    BY <2>2, <2>3
<1> QED
  BY <1>1, <1>3, <1>4

\* In a directory that is new, or that a failed or interrupted run left, no
\* child is alive, and none will be until the command starts one.
LEMMA AcquireKeeps ==
    ASSUME TrainingInv, NEW t \in Trainers, NEW d \in RunDirs, Acquire(t, d),
           NEW row \in RunDir, dirs' = [dirs EXCEPT ![d] = row],
           UNCHANGED <<training, child, early, torn>>,
           row.used, ~ row.claim, row.pid = 0,
           row.plan = dirs[d].plan, row.weights = dirs[d].weights,
           row.manifest = dirs[d].manifest,
           training.dir # d => row.plan.launch = 0,
           training.dir = d => /\ training.status \in {"failed", "interrupted"}
                               /\ row.plan = training.plan,
           \A m \in Launches : child[m].pc # "none" /\ child[m].dir = d => ~ Lives(m)
    PROVE  TrainingInv'
<1> DEFINE new == [pc |-> "prepare", dir |-> d, launch |-> 0]
<1>1. /\ lifecycle = NoTrainer /\ ~ OrphanSeen /\ lifecycle' = t
      /\ trainer' = [trainer EXCEPT ![t] = new]
  BY DEF Acquire
<1>2. /\ \A s \in Trainers : trainer[s].pc = "idle"
      /\ \A m \in Launches :
            child[m].pc # "none" /\ Lives(m) =>
                /\ m \in early
                /\ training.dir = child[m].dir => training.status = "running"
  BY <1>1, Unheld
<1>3. new \in Trainer
  BY TrainingAssumption, SMT DEF Trainer
<1>4. /\ trainer' \in [Trainers -> Trainer] /\ trainer'[t] = new
      /\ \A s \in Trainers : s # t => trainer'[s].pc = "idle"
  BY <1>1, <1>2, <1>3, InvTypes, Zenon
<1>5. trainer'[t].pc = "prepare" /\ trainer'[t].dir = d
  BY <1>4, SMT
<1>6. dirs'[d] = row
  BY InvTypes, Zenon
<1>7. TrainerInv(t)'
  <2>1. CommandInv(t)' /\ PreparingInv(t)'
    BY <1>1, <1>5, <1>6, Zenon DEF CommandInv, PreparingInv, Working
  <2>2. ResumingInv(t)'
    BY <1>5, <1>6, Zenon DEF ResumingInv
  <2>3. PlannedInv(t)' /\ RecordedInv(t)' /\ LaunchedInv(t)'
    BY <1>5, Zenon DEF PlannedInv, RecordedInv, LaunchedInv
  <2> QED
    BY <2>1, <2>2, <2>3 DEF TrainerInv
<1>8. \A s \in Trainers : TrainerInv(s)'
  <2>1. \A s \in Trainers : s # t => trainer'[s].pc = "idle" /\ lifecycle' # s
    BY <1>1, <1>4
  <2>2. ASSUME NEW s \in Trainers, trainer'[s].pc = "idle", lifecycle' # s
        PROVE  TrainerInv(s)'
    BY <2>2, Zenon
    DEF TrainerInv, CommandInv, PreparingInv, PlannedInv, RecordedInv, ResumingInv,
        LaunchedInv, Working
  <2> QED
    BY <1>7, <2>1, <2>2, Zenon
<1>9. ASSUME NEW m \in Launches, child[m].pc # "none"
      PROVE  Alone(m)'
  <2>1. ~ \E s \in Trainers : Waits(s, m)'
    BY <1>4, <1>5, Zenon DEF Waits
  <2>2. \A s \in Trainers : Working(s)' => trainer'[s].dir = d
    BY <1>4, <1>5, Zenon DEF Working
  <2>3. Lives(m) => child[m].dir # d
    BY <1>9
  <2> QED
    BY <1>2, <1>9, <2>1, <2>2, <2>3, Zenon DEF Alone, Lives
<1>10. NoneAlive(d) /\ KeepsResult(d, row)
  BY Zenon DEF NoneAlive, KeepsResult, Lives, AlivePcs
<1>11. dirs[d].plan.launch <= row.plan.launch
  BY InvTypes, TrainingAssumption, SMT DEF RunDir, Plan
<1>12. /\ dirs' \in [RunDirs -> RunDir]
       /\ \A m \in Launches : ChildInv(m)'
       /\ \A e \in RunDirs : DirInv(e)'
  BY <1>9, <1>10, <1>11, DirRewritten, Zenon
<1>13. \A e \in RunDirs : e # d => dirs'[e] = dirs[e]
  BY InvTypes, Zenon
<1>14. training.dir \in RunDirs \cup {NoDir}
  BY InvTypes, SMT DEF TrainingState
<1>15. StateInv'
  BY <1>6, <1>13, <1>14, Zenon DEF TrainingInv, StateInv
<1>16. TrainedIsGrounded'
  <2>1. TrainedIsGrounded /\ StateInv
    BY DEF TrainingInv, StateMatchesRun
  <2>2. training.status = "trained" => training.dir # d /\ training.dir \in RunDirs
    BY <1>14, <2>1, Zenon DEF StateInv
  <2> QED
    BY <1>13, <2>1, <2>2, Zenon DEF TrainedIsGrounded, Lives
<1>17. ResumeAccepted'
  <2>1. ResumeAccepted /\ StateInv
    BY DEF TrainingInv, StateMatchesRun
  <2>2. training.status \in {"failed", "interrupted"} => training.dir \in RunDirs
    BY <1>14, <2>1, Zenon DEF StateInv
  <2>3. CASE training.dir = d
    BY <1>6, <2>3, Zenon DEF ResumeAccepted
  <2>4. CASE training.dir # d
    BY <1>2, <1>13, <2>1, <2>2, <2>4, Zenon DEF ResumeAccepted, Lives
  <2> QED
    BY <2>3, <2>4
<1>18. TrainingTypeOK'
  BY <1>1, <1>4, <1>12 DEF TrainingInv, TrainingTypeOK
<1> QED
  BY <1>8, <1>12, <1>15, <1>16, <1>17, <1>18 DEF TrainingInv, StateMatchesRun


LEMMA NewTrainingRunKeeps ==
    ASSUME TrainingInv, NEW t \in Trainers, NEW d \in RunDirs, NewTrainingRun(t, d)
    PROVE  TrainingInv'
<1>1. /\ ~ dirs[d].used /\ Acquire(t, d) /\ dirs' = [dirs EXCEPT ![d].used = TRUE]
      /\ UNCHANGED <<training, child, early, torn>>
  BY DEF NewTrainingRun
<1>2. dirs[d] = NewDir
  BY <1>1, Zenon DEF TrainingInv, DirInv
<1> DEFINE row == [NewDir EXCEPT !.used = TRUE]
<1>3. dirs' = [dirs EXCEPT ![d] = row]
  BY <1>1, <1>2, InvTypes, Zenon
<1>4. /\ row \in RunDir /\ row.used /\ ~ row.claim /\ row.pid = 0
      /\ row.plan = NewDir.plan /\ row.weights = NewDir.weights
      /\ row.manifest = NewDir.manifest
  BY NewDirRow, Zenon DEF RunDir
<1>5. training.dir # d
  BY <1>1, TrainingAssumption, Zenon DEF TrainingInv, StateInv
<1>6. \A m \in Launches : child[m].pc # "none" => child[m].dir # d
  BY <1>1, Zenon DEF TrainingInv, ChildInv
<1> HIDE DEF row
<1> QED
  BY <1>1, <1>2, <1>3, <1>4, <1>5, <1>6, NewDirRow, AcquireKeeps

LEMMA ResumeTrainingRunKeeps ==
    ASSUME TrainingInv, NEW t \in Trainers, NEW d \in RunDirs, ResumeTrainingRun(t, d)
    PROVE  TrainingInv'
<1>1. /\ training.status \in {"interrupted", "failed"} /\ training.dir = d
      /\ dirs[d].plan = training.plan /\ Acquire(t, d)
      /\ dirs' = [dirs EXCEPT ![d].claim = FALSE, ![d].pid = 0]
      /\ UNCHANGED <<training, child, early, torn>>
  BY DEF ResumeTrainingRun
<1> DEFINE row == [dirs[d] EXCEPT !.claim = FALSE, !.pid = 0]
<1>2. dirs' = [dirs EXCEPT ![d] = row]
  BY <1>1, InvTypes, Zenon
<1>3. 0 \in 0..MaxLaunches
  BY TrainingAssumption, SMT
<1>4. /\ row \in RunDir /\ row.used = dirs[d].used /\ ~ row.claim /\ row.pid = 0
      /\ row.plan = dirs[d].plan /\ row.weights = dirs[d].weights
      /\ row.manifest = dirs[d].manifest
  <2>1. ASSUME NEW old \in RunDir
        PROVE  LET r == [old EXCEPT !.claim = FALSE, !.pid = 0]
               IN  /\ r \in RunDir /\ r.used = old.used /\ ~ r.claim /\ r.pid = 0
                   /\ r.plan = old.plan /\ r.weights = old.weights
                   /\ r.manifest = old.manifest
    BY <1>3, Zenon DEF RunDir
  <2> QED
    BY <2>1, InvTypes
<1>5. dirs[d].used
  BY <1>1, TrainingAssumption, Zenon DEF TrainingInv, StateInv
<1>6. \A m \in Launches : child[m].pc # "none" /\ child[m].dir = d => ~ Lives(m)
  <2>1. lifecycle = NoTrainer /\ ~ OrphanSeen
    BY <1>1 DEF Acquire
  <2> QED
    BY <1>1, <2>1, Unheld
<1>7. /\ row.used /\ ~ row.claim /\ row.pid = 0 /\ row \in RunDir
      /\ row.plan = dirs[d].plan /\ row.weights = dirs[d].weights
      /\ row.manifest = dirs[d].manifest
  <2> HIDE DEF row
  <2> QED
    BY <1>4, <1>5
<1>8. /\ training.dir = d /\ training.status \in {"failed", "interrupted"}
      /\ row.plan = training.plan
  BY <1>1, <1>7
<1> HIDE DEF row
<1>9. Acquire(t, d) /\ UNCHANGED <<training, child, early, torn>>
  BY <1>1
<1> QED
  BY <1>2, <1>6, <1>7, <1>8, <1>9, AcquireKeeps

LEMMA PrelaunchFailsKeeps ==
    ASSUME TrainingInv, NEW t \in Trainers, NEW d \in RunDirs, trainer[t].dir = d,
           PrelaunchFails(t, d)
    PROVE  TrainingInv'
<1>1. /\ trainer[t].pc = "prepare" /\ Working(t) /\ training.dir # d
      /\ dirs' = [dirs EXCEPT ![d] = NewDir] /\ Rest(t)
      /\ UNCHANGED <<training, child, early, torn>>
  BY DEF PrelaunchFails, Working
<1>2. dirs[d].plan.launch = 0
  BY <1>1, Zenon DEF TrainingInv, TrainerInv, PreparingInv
<1>3. \A m \in Launches : child[m].pc # "none" => child[m].dir # d
  BY <1>2, PlanRows, SMT DEF TrainingInv, ChildInv
<1>4. /\ trainer' \in [Trainers -> Trainer] /\ lifecycle' = NoTrainer
      /\ \A s \in Trainers : trainer'[s].pc = "idle" /\ TrainerInv(s)'
  BY <1>1, AllRest
<1>5. ASSUME NEW m \in Launches, child[m].pc # "none"
      PROVE  Alone(m)'
  <2>1. ~ Waits(t, m)
    BY <1>1, Zenon DEF Waits
  <2>2. CASE Lives(m)
    BY <1>1, <1>4, <1>5, <2>1, <2>2, AloneAtRest, Zenon
  <2>3. CASE ~ Lives(m)
    BY <1>1, <2>3, Zenon DEF Alone, Lives
  <2> QED
    BY <2>2, <2>3
<1>6. NoneAlive(d) /\ KeepsResult(d, NewDir)
  BY <1>3, Zenon DEF NoneAlive, KeepsResult, Lives, AlivePcs
<1>7. dirs[d].plan.launch <= NewDir.plan.launch
  BY <1>2, NewDirRow
<1>8. /\ dirs' \in [RunDirs -> RunDir]
      /\ \A m \in Launches : ChildInv(m)'
      /\ \A e \in RunDirs : DirInv(e)'
  <2>1. /\ NewDir \in RunDir /\ ~ NewDir.claim /\ NewDir.pid = 0
        /\ NewDir = NewDir /\ UNCHANGED child /\ dirs' = [dirs EXCEPT ![d] = NewDir]
    BY <1>1, NewDirRow
  <2> HIDE DEF NewDir
  <2> QED
    BY <1>3, <1>5, <1>6, <1>7, <2>1, DirRewritten, Zenon
<1>9. \A e \in RunDirs : e # d => dirs'[e] = dirs[e]
  BY <1>1, InvTypes, Zenon
<1>10. training.dir \in RunDirs \cup {NoDir}
  BY InvTypes, SMT DEF TrainingState
<1>11. StateInv' /\ TrainedIsGrounded' /\ ResumeAccepted'
  <2>1. TrainedIsGrounded /\ ResumeAccepted /\ StateInv
    BY DEF TrainingInv, StateMatchesRun
  <2>2. training.status # "none" => training.dir \in RunDirs \ {d}
    BY <1>1, <1>10, <2>1, Zenon DEF StateInv
  <2>3. StateInv'
    BY <1>1, <1>9, <1>10, <2>1, Zenon DEF StateInv
  <2>4. TrainedIsGrounded'
    BY <1>1, <1>9, <2>1, <2>2, Zenon DEF TrainedIsGrounded, Lives
  <2>5. ResumeAccepted'
    <3>1. \A s \in Trainers : trainer[s].pc # "planned"
      BY <1>1, OneWorks, Zenon
    <3> QED
      BY <1>1, <1>9, <2>1, <2>2, <3>1, Zenon DEF ResumeAccepted, Lives
  <2> QED
    BY <2>3, <2>4, <2>5
<1>12. TrainingTypeOK'
  BY <1>1, <1>4, <1>8 DEF TrainingInv, TrainingTypeOK
<1> QED
  BY <1>4, <1>8, <1>11, <1>12 DEF TrainingInv, StateMatchesRun


\* A fresh launch: its child was never there.
LEMMA WritePlanKeeps ==
    ASSUME TrainingInv, NEW t \in Trainers, NEW d \in RunDirs, trainer[t].dir = d,
           WritePlan(t, d)
    PROVE  TrainingInv'
<1>1. PICK l \in Launches :
         /\ \A e \in RunDirs : dirs[e].plan.launch < l
         /\ dirs' = [dirs EXCEPT ![d].plan = Issued(l)]
         /\ trainer' = [trainer EXCEPT ![t].pc = "planned", ![t].launch = l]
  BY DEF WritePlan
<1>2. /\ trainer[t].pc = "prepare" /\ Working(t)
      /\ UNCHANGED <<training, lifecycle, child, early, torn>>
  BY DEF WritePlan, Working
<1>3. /\ lifecycle = t /\ dirs[d].used /\ ~ dirs[d].claim /\ dirs[d].pid = 0
      /\ training.dir = d => training.status \in {"failed", "interrupted"}
      /\ \A s \in Trainers : s # t => trainer[s].pc = "idle"
  BY <1>2, OneWorks, Zenon DEF TrainingInv, TrainerInv, PreparingInv, ResumingInv
<1> DEFINE row == [dirs[d] EXCEPT !.plan = Issued(l)]
<1>4. dirs' = [dirs EXCEPT ![d] = row]
  BY <1>1, InvTypes, Zenon
<1>5. /\ row \in RunDir /\ row.used = dirs[d].used /\ row.claim = dirs[d].claim
      /\ row.pid = dirs[d].pid /\ row.plan = Issued(l)
  <2>1. ASSUME NEW old \in RunDir
        PROVE  LET r == [old EXCEPT !.plan = Issued(l)]
               IN  /\ r \in RunDir /\ r.used = old.used /\ r.claim = old.claim
                   /\ r.pid = old.pid /\ r.plan = Issued(l)
    BY PlanRows, Zenon DEF RunDir
  <2> QED
    BY <2>1, InvTypes
<1> HIDE DEF row
<1>6. dirs' \in [RunDirs -> RunDir] /\ dirs'[d] = row
  BY <1>4, <1>5, InvTypes
<1>7. ASSUME NEW m \in Launches, child[m].pc # "none"
      PROVE  m < l
  <2>1. child[m].dir \in RunDirs /\ m <= dirs[child[m].dir].plan.launch
    BY <1>7, Zenon DEF TrainingInv, ChildInv
  <2>2. dirs[child[m].dir].plan.launch \in Nat
    BY <2>1, InvTypes, TrainingAssumption, SMT DEF RunDir, Plan
  <2> QED
    BY <1>1, <2>1, <2>2, PlanRows, SMT
<1>8. child[l].pc = "none"
  BY <1>7, PlanRows, SMT
<1>9. /\ trainer' \in [Trainers -> Trainer]
      /\ trainer'[t].pc = "planned" /\ trainer'[t].dir = d /\ trainer'[t].launch = l
      /\ trainer' = [trainer EXCEPT ![t] = [trainer[t] EXCEPT !.pc = "planned", !.launch = l]]
      /\ \A s \in Trainers : s # t => trainer'[s].pc = "idle"
  <2>1. trainer' = [trainer EXCEPT ![t] = [trainer[t] EXCEPT !.pc = "planned", !.launch = l]]
    BY <1>1, InvTypes, Zenon
  <2>2. ASSUME NEW old \in Trainer
        PROVE  LET r == [old EXCEPT !.pc = "planned", !.launch = l]
               IN  r \in Trainer /\ r.pc = "planned" /\ r.dir = old.dir /\ r.launch = l
    BY PlanRows, Zenon DEF Trainer
  <2> QED
    BY <1>3, <2>1, <2>2, InvTypes, Zenon
<1>10. TrainerInv(t)'
  <2>1. CommandInv(t)'
    BY <1>2, <1>3, <1>5, <1>6, <1>9, Zenon DEF CommandInv, Working
  <2>2. PlannedInv(t)'
    BY <1>2, <1>3, <1>5, <1>6, <1>8, <1>9, Zenon DEF PlannedInv
  <2>3. ResumingInv(t)'
    BY <1>2, <1>3, <1>9, Zenon DEF ResumingInv
  <2>4. PreparingInv(t)' /\ RecordedInv(t)' /\ LaunchedInv(t)'
    BY <1>9, Zenon DEF PreparingInv, RecordedInv, LaunchedInv
  <2> QED
    BY <2>1, <2>2, <2>3, <2>4 DEF TrainerInv
<1>11. \A s \in Trainers : TrainerInv(s)'
  BY <1>2, <1>3, <1>9, <1>10, OthersIdle
<1>12. ASSUME NEW m \in Launches, child[m].pc # "none"
       PROVE  Alone(m)' /\ (child[m].dir = d => ~ Lives(m))
  <2> SUFFICES ASSUME Lives(m) PROVE Alone(m)' /\ child[m].dir # d
    BY <1>2, Zenon DEF Alone, Lives
  <2>1. ~ Waits(t, m)
    BY <1>2, Zenon DEF Waits
  <2>2. /\ child[m].dir # d /\ m \in early
        /\ training.dir = child[m].dir => training.status = "running"
    BY <1>2, <1>12, <2>1, LeftAlone, Zenon
  <2>3. \A s \in Trainers : Working(s)' => trainer'[s].dir = d
    BY <1>9, Zenon DEF Working
  <2> QED
    BY <1>2, <2>2, <2>3, Zenon DEF Alone
<1>13. NoneAlive(d)
  BY <1>12, Zenon DEF NoneAlive, Lives, AlivePcs
<1>14. /\ \A m \in Launches : ChildInv(m)'
       /\ \A e \in RunDirs : DirInv(e)'
  <2>1. dirs[d].plan.launch <= row.plan.launch
    <3>1. dirs[d].plan.launch \in Nat
      BY InvTypes, TrainingAssumption, SMT DEF RunDir, Plan
    <3> QED
      BY <1>1, <1>5, <3>1, PlanRows, SMT
  <2>2. KeepsResult(d, row)
    <3>1. row.plan.launch = l
      BY <1>5, PlanRows
    <3> QED
      BY <1>8, <3>1 DEF KeepsResult
  <2>3. row \in RunDir /\ row.used /\ ~ row.claim /\ row.pid = 0
    BY <1>3, <1>5
  <2>4. UNCHANGED child /\ \A m \in Launches : child[m].pc # "none" => Alone(m)'
    BY <1>2, <1>12, Zenon
  <2> QED
    BY <1>4, <1>13, <2>1, <2>2, <2>3, <2>4, DirRewritten, Zenon
<1>15. \A e \in RunDirs : e # d => dirs'[e] = dirs[e]
  BY <1>4, InvTypes, Zenon
<1>16. training.dir \in RunDirs \cup {NoDir}
  BY InvTypes, SMT DEF TrainingState
<1>17. StateInv' /\ TrainedIsGrounded' /\ ResumeAccepted'
  <2>1. TrainedIsGrounded /\ ResumeAccepted /\ StateInv
    BY DEF TrainingInv, StateMatchesRun
  <2>2. training.status # "none" => training.dir \in RunDirs
    BY <1>16, <2>1, Zenon DEF StateInv
  <2>3. StateInv'
    BY <1>2, <1>3, <1>5, <1>6, <1>15, <1>16, <2>1, Zenon DEF StateInv
  <2>4. TrainedIsGrounded'
    BY <1>2, <1>3, <1>15, <2>1, <2>2, Zenon DEF TrainedIsGrounded, Lives
  <2>5. CASE training.dir = d
    <3>1. \E s \in Trainers : trainer'[s].pc = "planned" /\ trainer'[s].dir = training'.dir
      BY <1>2, <1>9, <2>5, Zenon
    <3> QED
      BY <2>3, <2>4, <3>1, Zenon DEF ResumeAccepted
  <2>6. CASE training.dir # d
    <3>1. \A s \in Trainers : trainer[s].pc # "planned"
      BY <1>2, <1>3, SMT
    <3>2. training'= training /\ torn' = torn /\ child' = child
      BY <1>2
    <3> QED
      BY <1>15, <2>1, <2>2, <2>3, <2>4, <2>6, <3>1, <3>2, Zenon DEF ResumeAccepted, Lives
  <2> QED
    BY <2>3, <2>4, <2>5, <2>6
<1>18. TrainingTypeOK'
  BY <1>2, <1>6, <1>9 DEF TrainingInv, TrainingTypeOK
<1> QED
  BY <1>11, <1>14, <1>17, <1>18 DEF TrainingInv, StateMatchesRun

\* AwaitChild: the claim of the child that has returned is removed.
LEMMA AwaitChildKeeps ==
    ASSUME TrainingInv, NEW t \in Trainers, NEW d \in RunDirs, trainer[t].dir = d,
           AwaitChild(t, d)
    PROVE  TrainingInv'
<1> DEFINE l == trainer[t].launch
<1>1. /\ trainer[t].pc = "waiting" /\ Working(t) /\ ~ Lives(l)
      /\ dirs' = [dirs EXCEPT ![d].claim = FALSE, ![d].pid = 0]
      /\ trainer' = [trainer EXCEPT ![t].pc = "ended"]
      /\ UNCHANGED <<training, lifecycle, child, early, torn>>
  BY DEF AwaitChild, TrainerTo, Working
<1>2. /\ lifecycle = t /\ dirs[d].used /\ l \in Launches /\ child[l].pc # "none"
      /\ child[l].dir = d /\ dirs[d].plan.launch = l
      /\ training.status = "running" /\ training.dir = d /\ training.launch = l
      /\ training.plan = Issued(l)
      /\ \A s \in Trainers : s # t => trainer[s].pc = "idle"
  BY <1>1, OneWorks, Zenon DEF TrainingInv, TrainerInv, LaunchedInv, RecordedInv
<1> DEFINE row == [dirs[d] EXCEPT !.claim = FALSE, !.pid = 0]
<1>3. dirs' = [dirs EXCEPT ![d] = row]
  BY <1>1, InvTypes, Zenon
<1>4. 0 \in 0..MaxLaunches
  BY TrainingAssumption, SMT
<1>5. /\ row \in RunDir /\ row.used = dirs[d].used /\ ~ row.claim /\ row.pid = 0
      /\ row.plan = dirs[d].plan /\ row.weights = dirs[d].weights
      /\ row.manifest = dirs[d].manifest
  <2>1. ASSUME NEW old \in RunDir
        PROVE  LET r == [old EXCEPT !.claim = FALSE, !.pid = 0]
               IN  /\ r \in RunDir /\ r.used = old.used /\ ~ r.claim /\ r.pid = 0
                   /\ r.plan = old.plan /\ r.weights = old.weights
                   /\ r.manifest = old.manifest
    BY <1>4, Zenon DEF RunDir
  <2> QED
    BY <2>1, InvTypes
<1> HIDE DEF row
<1>6. dirs' \in [RunDirs -> RunDir] /\ dirs'[d] = row
  BY <1>3, <1>5, InvTypes
<1>7. /\ trainer' \in [Trainers -> Trainer]
      /\ trainer'[t].pc = "ended" /\ trainer'[t].dir = d /\ trainer'[t].launch = l
      /\ trainer' = [trainer EXCEPT ![t] = [trainer[t] EXCEPT !.pc = "ended"]]
      /\ \A s \in Trainers : s # t => trainer'[s].pc = "idle"
  BY <1>1, <1>2, InvTypes, MovedTrainer, Zenon
<1>8. TrainerInv(t)'
  <2>1. CommandInv(t)'
    BY <1>1, <1>2, <1>5, <1>6, <1>7, Zenon DEF CommandInv, Working
  <2>2. RecordedInv(t)' /\ LaunchedInv(t)'
    BY <1>1, <1>2, <1>5, <1>6, <1>7, SMT DEF RecordedInv, LaunchedInv
  <2>3. PreparingInv(t)' /\ PlannedInv(t)' /\ ResumingInv(t)'
    BY <1>7, Zenon DEF PreparingInv, PlannedInv, ResumingInv
  <2> QED
    BY <2>1, <2>2, <2>3 DEF TrainerInv
<1>9. \A s \in Trainers : TrainerInv(s)'
  BY <1>1, <1>2, <1>7, <1>8, OthersIdle
<1>10. ASSUME NEW m \in Launches, child[m].pc # "none"
       PROVE  Alone(m)' /\ (child[m].dir = d => ~ Lives(m))
  <2> SUFFICES ASSUME Lives(m) PROVE Alone(m)' /\ child[m].dir # d
    BY <1>1, Zenon DEF Alone, Lives
  <2>1. ~ Waits(t, m)
    BY <1>1, Zenon DEF Waits
  <2>2. child[m].dir # d /\ m \in early
    BY <1>1, <1>10, <2>1, LeftAlone, Zenon
  <2>3. \A s \in Trainers : Working(s)' => trainer'[s].dir = d
    BY <1>7, Zenon DEF Working
  <2> QED
    BY <1>1, <1>2, <2>2, <2>3, Zenon DEF Alone
<1>11. NoneAlive(d) /\ KeepsResult(d, row)
  BY <1>5, <1>10, Zenon DEF NoneAlive, KeepsResult, Lives, AlivePcs
<1>12. /\ \A m \in Launches : ChildInv(m)'
       /\ \A e \in RunDirs : DirInv(e)'
  <2>1. dirs[d].plan.launch <= row.plan.launch
    BY <1>5, InvTypes, TrainingAssumption, SMT DEF RunDir, Plan
  <2> QED
    BY <1>1, <1>2, <1>3, <1>5, <1>10, <1>11, <2>1, DirRewritten
<1>13. StateInv' /\ StateMatchesRun'
  BY <1>1, <1>2, <1>5, <1>6, TrainingAssumption, Zenon
  DEF StateInv, StateMatchesRun, TrainedIsGrounded, ResumeAccepted
<1>14. TrainingTypeOK'
  BY <1>1, <1>6, <1>7 DEF TrainingInv, TrainingTypeOK
<1> QED
  BY <1>9, <1>12, <1>13, <1>14 DEF TrainingInv


-----------------------------------------------------------------------------
\* The launch of a child, and its end by Ctrl-C.

LEMMA SpawnChildKeeps ==
    ASSUME TrainingInv, NEW t \in Trainers, NEW d \in RunDirs, trainer[t].dir = d,
           SpawnChild(t, d)
    PROVE  TrainingInv'
<1>0. PICK l : l = trainer[t].launch
  OBVIOUS
<1> DEFINE spawned == [pc |-> "start", dir |-> d]
<1>1. /\ trainer[t].pc = "recorded" /\ Working(t)
      /\ child' = [child EXCEPT ![l] = spawned]
      /\ trainer' = [trainer EXCEPT ![t].pc = "waiting"]
      /\ training' = training /\ lifecycle' = lifecycle /\ dirs' = dirs
      /\ early' = early /\ torn' = torn
  BY <1>0 DEF SpawnChild, TrainerTo, Working
<1>2. /\ lifecycle = t /\ dirs[d].used /\ l \in Launches /\ child[l].pc = "none"
      /\ ~ dirs[d].claim /\ dirs[d].pid = 0 /\ dirs[d].plan = Issued(l)
      /\ training.status = "running" /\ training.dir = d /\ training.launch = l
      /\ training.plan = Issued(l)
      /\ \A s \in Trainers : s # t => trainer[s].pc = "idle"
  BY <1>0, <1>1, OneWorks, Zenon DEF TrainingInv, TrainerInv, PlannedInv, RecordedInv
<1>3. dirs[d].plan.launch = l
  BY <1>2, PlanRows
<1>4. spawned \in Child /\ spawned.pc = "start" /\ spawned.dir = d
  BY SMT DEF Child, AlivePcs
<1> HIDE DEF spawned
<1>5. /\ child' \in [Launches -> Child] /\ child'[l].pc = "start" /\ child'[l].dir = d
      /\ \A m \in Launches : m # l => child'[m] = child[m]
  BY <1>1, <1>2, <1>4, InvTypes
<1>6. /\ trainer' \in [Trainers -> Trainer]
      /\ trainer'[t].pc = "waiting" /\ trainer'[t].dir = d /\ trainer'[t].launch = l
      /\ trainer' = [trainer EXCEPT ![t] = [trainer[t] EXCEPT !.pc = "waiting"]]
      /\ \A s \in Trainers : s # t => trainer'[s].pc = "idle"
  BY <1>1, <1>2, <1>0, InvTypes, MovedTrainer, Zenon
<1>7. TrainerInv(t)'
  <2>1. CommandInv(t)' /\ RecordedInv(t)'
    BY <1>1, <1>2, <1>6, Zenon DEF CommandInv, RecordedInv, Working
  <2>2. LaunchedInv(t)'
    BY <1>1, <1>2, <1>3, <1>5, <1>6, SMT DEF LaunchedInv
  <2>3. PreparingInv(t)' /\ PlannedInv(t)' /\ ResumingInv(t)'
    BY <1>6, Zenon DEF PreparingInv, PlannedInv, ResumingInv
  <2> QED
    BY <2>1, <2>2, <2>3 DEF TrainerInv
<1>8. \A s \in Trainers : TrainerInv(s)'
  BY <1>1, <1>2, <1>6, <1>7, OthersIdle
<1>9. \A s \in Trainers : Working(s)' => s = t
  BY <1>6, Zenon DEF Working
<1>10. ASSUME NEW m \in Launches, child[m].pc # "none", Lives(m)
       PROVE  child[m].dir # d /\ m \in early
  <2>1. ~ Waits(t, m)
    BY <1>0, <1>1, Zenon DEF Waits
  <2> QED
    BY <1>1, <1>10, <2>1, LeftAlone, Zenon
<1>11. ASSUME NEW m \in Launches
       PROVE  ChildInv(m)'
  <2>1. CASE m # l
    <3>1. ChildInv(m) /\ (child[m].pc # "none" => ChildFiles(m))
      BY Zenon DEF TrainingInv, ChildInv
    <3>2. child[m].pc # "none" => ChildFiles(m)'
      BY <1>1, <1>5, <2>1, <3>1, Zenon DEF ChildFiles
    <3>3. child[m].pc # "none" => Alone(m)'
      <4> SUFFICES ASSUME child[m].pc # "none", Lives(m) PROVE Alone(m)'
        BY <1>5, <2>1, Zenon DEF Alone, Lives
      <4>1. child[m].dir # d /\ m \in early
        BY <1>10
      <4> QED
        BY <1>1, <1>2, <1>5, <1>6, <1>9, <2>1, <4>1, Zenon DEF Alone
    <3> QED
      BY <1>1, <1>5, <2>1, <3>1, <3>2, <3>3, Zenon DEF ChildInv
  <2>2. CASE m = l
    <3>1. ChildFiles(l)'
      BY <1>1, <1>2, <1>3, <1>5, SMT DEF ChildFiles, AlivePcs
    <3>2. Waits(t, l)'
      BY <1>6, Zenon DEF Waits
    <3>3. Alone(l)'
      BY <1>9, <3>2, Zenon DEF Alone
    <3>4. l <= dirs'[child'[l].dir].plan.launch
      BY <1>1, <1>3, <1>5, <1>2, PlanRows
    <3> QED
      BY <1>1, <1>2, <1>5, <2>2, <3>1, <3>3, <3>4, Zenon DEF ChildInv
  <2> QED
    BY <2>1, <2>2
<1>12. ASSUME NEW e \in RunDirs
       PROVE  DirInv(e)'
  <2>1. DirInv(e)
    BY DEF TrainingInv
  <2>2. dirs'[e].pid # 0 =>
            /\ dirs'[e].claim
            /\ child'[dirs'[e].pid].pc # "none" /\ child'[dirs'[e].pid].dir = e
    <3>1. dirs[e].pid \in 0..MaxLaunches
      BY InvTypes, SMT DEF RunDir
    <3>2. dirs[e].pid # 0 => dirs[e].pid \in Launches
      BY <3>1, TrainingAssumption, SMT DEF Launches
    <3> QED
      BY <1>1, <1>2, <1>5, <2>1, <3>2, Zenon DEF DirInv
  <2>3. ASSUME NEW m \in Launches, NEW n \in Launches, Lives(m)', Lives(n)',
               child'[m].dir = e, child'[n].dir = e
        PROVE  m = n
    <3>1. \A k \in Launches : k # l /\ Lives(k)' => Lives(k) /\ child[k].pc # "none"
      BY <1>5, Zenon DEF Lives, AlivePcs
    <3> QED
      BY <1>5, <1>10, <2>1, <2>3, <3>1, Zenon DEF DirInv
  <2> QED
    BY <1>1, <2>1, <2>2, <2>3, Zenon DEF DirInv
<1>13. StateInv' /\ StateMatchesRun'
  BY <1>1, <1>2, TrainingAssumption, Zenon
  DEF StateInv, StateMatchesRun, TrainedIsGrounded, ResumeAccepted
<1>14. TrainingTypeOK'
  BY <1>1, <1>5, <1>6 DEF TrainingInv, TrainingTypeOK
<1> QED
  BY <1>8, <1>11, <1>12, <1>13, <1>14 DEF TrainingInv

LEMMA MovedChild ==
    ASSUME child \in [Launches -> Child], NEW l \in Launches,
           NEW pc \in AlivePcs \cup {"done", "failed"},
           child' = [child EXCEPT ![l].pc = pc]
    PROVE  /\ child' \in [Launches -> Child]
           /\ child'[l].pc = pc /\ child'[l].dir = child[l].dir
           /\ child'[l].pc # "none"
           /\ \A m \in Launches : m # l => child'[m] = child[m]
<1> DEFINE row == [child[l] EXCEPT !.pc = pc]
<1>1. child' = [child EXCEPT ![l] = row]
  BY Zenon
<1>2. ASSUME NEW old \in Child
      PROVE  LET r == [old EXCEPT !.pc = pc]
             IN  r \in Child /\ r.pc = pc /\ r.dir = old.dir
  BY Zenon DEF Child
<1>3. row \in Child /\ row.pc = pc /\ row.dir = child[l].dir
  BY <1>2
<1>4. pc # "none"
  BY DEF AlivePcs
<1> HIDE DEF row
<1> QED
  BY <1>1, <1>3, <1>4

LEMMA InterruptKeeps ==
    ASSUME TrainingInv, NEW t \in Trainers, NEW d \in RunDirs, trainer[t].dir = d,
           Interrupt(t, d)
    PROVE  TrainingInv'
<1>0. PICK l : l = trainer[t].launch
  OBVIOUS
<1>1. /\ trainer[t].pc = "waiting" /\ Working(t) /\ Lives(l)
      /\ child' = [child EXCEPT ![l].pc = "failed"]
      /\ trainer' = [trainer EXCEPT ![t].pc = "interrupted"]
      /\ training' = training /\ lifecycle' = lifecycle /\ dirs' = dirs /\ early' = early
  BY <1>0 DEF Interrupt, TrainerTo, Working
<1>2. /\ lifecycle = t /\ dirs[d].used /\ l \in Launches /\ child[l].pc # "none"
      /\ child[l].dir = d /\ dirs[d].plan.launch = l
      /\ training.status = "running" /\ training.dir = d /\ training.launch = l
      /\ training.plan = Issued(l)
      /\ \A s \in Trainers : s # t => trainer[s].pc = "idle"
  BY <1>0, <1>1, OneWorks, Zenon DEF TrainingInv, TrainerInv, LaunchedInv, RecordedInv
<1>3. /\ child' \in [Launches -> Child] /\ child'[l].pc = "failed" /\ child'[l].dir = d
      /\ \A m \in Launches : m # l => child'[m] = child[m]
  BY <1>1, <1>2, InvTypes, MovedChild
<1>4. ~ Lives(l)' /\ child'[l].pc # "none"
  BY <1>3 DEF Lives, AlivePcs
<1>5. /\ torn \subseteq torn' /\ torn' \subseteq RunDirs
      /\ child[l].pc = "claim" => d \in torn'
  BY <1>0, InvTypes DEF Interrupt
<1>6. /\ trainer' \in [Trainers -> Trainer]
      /\ trainer'[t].pc = "interrupted" /\ trainer'[t].dir = d /\ trainer'[t].launch = l
      /\ trainer' = [trainer EXCEPT ![t] = [trainer[t] EXCEPT !.pc = "interrupted"]]
      /\ \A s \in Trainers : s # t => trainer'[s].pc = "idle"
  BY <1>1, <1>2, <1>0, InvTypes, MovedTrainer, Zenon
<1>7. TrainerInv(t)'
  <2>1. CommandInv(t)' /\ RecordedInv(t)'
    BY <1>1, <1>2, <1>6, Zenon DEF CommandInv, RecordedInv, Working
  <2>2. d \in torn' \/ (dirs[d].claim => dirs[d].pid # 0)
    <3>1. ChildFiles(l)
      BY <1>2, Zenon DEF TrainingInv, ChildInv
    <3>2. child[l].pc \in AlivePcs \ {"start", "claim"} => dirs[d].pid = l
      BY <1>2, <3>1, Zenon DEF ChildFiles
    <3>3. child[l].pc = "start" => ~ dirs[d].claim
      BY <1>2, <3>1, Zenon DEF ChildFiles
    <3> QED
      BY <1>1, <1>2, <1>5, <3>2, <3>3, PlanRows DEF Lives
  <2>3. LaunchedInv(t)'
    BY <1>1, <1>2, <1>3, <1>4, <1>6, <2>2, SMT DEF LaunchedInv
  <2>4. PreparingInv(t)' /\ PlannedInv(t)' /\ ResumingInv(t)'
    BY <1>6, Zenon DEF PreparingInv, PlannedInv, ResumingInv
  <2> QED
    BY <2>1, <2>3, <2>4 DEF TrainerInv
<1>8. \A s \in Trainers : TrainerInv(s)'
  BY <1>1, <1>2, <1>6, <1>7, OthersIdle
<1>9. \A s \in Trainers : Working(s)' => s = t
  BY <1>6, Zenon DEF Working
<1>10. ASSUME NEW m \in Launches
       PROVE  ChildInv(m)'
  <2>1. ChildInv(m) /\ (child[m].pc # "none" => ChildFiles(m))
    BY Zenon DEF TrainingInv, ChildInv
  <2>2. CASE m # l
    <3>1. child[m].pc # "none" => ChildFiles(m)'
      BY <1>1, <1>3, <2>1, <2>2, Zenon DEF ChildFiles
    <3>2. child[m].pc # "none" => Alone(m)'
      <4> SUFFICES ASSUME child[m].pc # "none", Lives(m) PROVE Alone(m)'
        BY <1>3, <2>2, Zenon DEF Alone, Lives
      <4>1. ~ Waits(t, m)
        BY <1>0, <2>2, Zenon DEF Waits
      <4>2. child[m].dir # d /\ m \in early
        BY <1>1, <4>1, LeftAlone, Zenon
      <4>3. child'[m] = child[m] /\ training'.dir # child[m].dir /\ m \in early'
        BY <1>1, <1>2, <1>3, <2>2, <4>2
      <4>4. \A s \in Trainers : Working(s)' => trainer'[s].dir # child[m].dir
        BY <1>6, <1>9, <4>2, Zenon
      <4> QED
        BY <4>3, <4>4, Zenon DEF Alone
    <3> QED
      BY <1>1, <1>3, <2>1, <2>2, <3>1, <3>2, Zenon DEF ChildInv
  <2>3. CASE m = l
    <3>1. ChildFiles(l)'
      BY <1>3, SMT DEF ChildFiles, AlivePcs
    <3>2. Alone(l)'
      BY <1>4, Zenon DEF Alone
    <3>3. l <= dirs'[child'[l].dir].plan.launch
      BY <1>1, <1>3, <1>2, PlanRows
    <3> QED
      BY <1>1, <1>2, <1>3, <2>3, <3>1, <3>2, <3>3, Zenon DEF ChildInv
  <2> QED
    BY <2>2, <2>3
<1>11. ASSUME NEW e \in RunDirs
       PROVE  DirInv(e)'
  <2>1. DirInv(e)
    BY DEF TrainingInv
  <2>2. \A k \in Launches : (Lives(k)' => Lives(k)) /\ child'[k].dir = child[k].dir
    BY <1>1, <1>2, <1>3, Zenon DEF Lives
  <2>3. \A k \in Launches : child[k].pc # "none" => child'[k].pc # "none"
    BY <1>3, <1>4, Zenon
  <2>4. dirs[e].pid # 0 => dirs[e].pid \in Launches
    BY InvTypes, TrainingAssumption, SMT DEF RunDir, Launches
  <2> QED
    BY <1>1, <2>1, <2>2, <2>3, <2>4, Zenon DEF DirInv
<1>12. StateInv' /\ StateMatchesRun'
  BY <1>1, <1>2, TrainingAssumption, Zenon
  DEF StateInv, StateMatchesRun, TrainedIsGrounded, ResumeAccepted
<1>13. TrainingTypeOK'
  BY <1>1, <1>3, <1>5, <1>6 DEF TrainingInv, TrainingTypeOK
<1> QED
  BY <1>8, <1>10, <1>11, <1>12, <1>13 DEF TrainingInv


-----------------------------------------------------------------------------
\* The child.  In its directory it is alone but for the command that waits for
\* it, so what it writes there is for its own launch.
LEMMA ChildMoveKeeps ==
    ASSUME TrainingInv, NEW l \in Launches, NEW d \in RunDirs, child[l].dir = d,
           Lives(l), NEW pc \in AlivePcs \cup {"done", "failed"}, NEW row \in RunDir,
           child' = [child EXCEPT ![l].pc = pc], dirs' = [dirs EXCEPT ![d] = row],
           training' = training, lifecycle' = lifecycle, trainer' = trainer,
           early' = early, torn' = torn,
           row.used, row.plan.launch = dirs[d].plan.launch,
           row.pid = dirs[d].pid \/ row.pid = l,
           dirs[d].claim => row.claim, row.pid = l => row.claim,
           ChildFiles(l)'
    PROVE  TrainingInv'
<1>1. /\ child[l].pc # "none" /\ ChildInv(l) /\ Alone(l) /\ ChildFiles(l)
      /\ dirs[d].plan.launch = l /\ dirs[d].used
  <2>1. child[l].pc # "none"
    BY DEF Lives, AlivePcs
  <2>2. ChildInv(l)
    BY DEF TrainingInv
  <2>3. Alone(l) /\ ChildFiles(l) /\ dirs[d].used
    BY <2>1, <2>2, Zenon DEF ChildInv
  <2>4. dirs[d].plan.launch = l
    BY <2>3, Zenon DEF ChildFiles, Lives
  <2> QED
    BY <2>1, <2>2, <2>3, <2>4
<1>2. /\ child' \in [Launches -> Child] /\ child'[l].pc = pc /\ child'[l].dir = d
      /\ child'[l].pc # "none"
      /\ \A m \in Launches : m # l => child'[m] = child[m]
  BY InvTypes, MovedChild
<1>3. /\ dirs' \in [RunDirs -> RunDir] /\ dirs'[d] = row
      /\ \A e \in RunDirs : e # d => dirs'[e] = dirs[e]
  BY InvTypes
<1>4. \A m \in Launches : (Lives(m)' => Lives(m)) /\ child'[m].dir = child[m].dir
                          /\ (child[m].pc # "none" => child'[m].pc # "none")
  BY <1>2, Zenon DEF Lives
<1>5. \A s \in Trainers : Working(s) /\ trainer[s].dir = d => Waits(s, l)
  BY <1>1, Zenon DEF Alone
<1>6. ASSUME NEW m \in Launches, m # l, Lives(m)
      PROVE  child[m].dir # d
  BY <1>6, Zenon DEF TrainingInv, DirInv
<1>7. ASSUME NEW s \in Trainers
      PROVE  TrainerInv(s)'
  <2>1. TrainerInv(s)
    BY DEF TrainingInv
  <2>2. CommandInv(s)'
    BY <1>3, <2>1, Zenon DEF TrainerInv, CommandInv, Working
  <2>3. trainer[s].pc \in {"prepare", "planned", "recorded", "ended", "interrupted"} =>
            trainer[s].dir \in RunDirs /\ trainer[s].dir # d
    BY <1>5, <2>1, SMT DEF Working, Waits, TrainerInv, CommandInv
  <2>4. PreparingInv(s)'
    BY <1>3, <2>1, <2>3, Zenon DEF TrainerInv, PreparingInv
  <2>5. PlannedInv(s)'
    <3>1. trainer[s].pc \in {"planned", "recorded"} =>
              trainer[s].launch \in Launches /\ trainer[s].launch # l
      BY <1>1, <2>1, Zenon DEF TrainerInv, PlannedInv
    <3> QED
      BY <1>2, <1>3, <2>1, <2>3, <3>1, Zenon DEF TrainerInv, PlannedInv
  <2>6. RecordedInv(s)'
    BY <2>1, Zenon DEF TrainerInv, RecordedInv
  <2>7. ResumingInv(s)'
    BY <1>3, <2>1, <2>3, Zenon DEF TrainerInv, ResumingInv
  <2>8. LaunchedInv(s)'
    <3>1. trainer[s].pc = "waiting" => trainer[s].dir \in RunDirs
      BY <2>1, Zenon DEF TrainerInv, CommandInv, Working
    <3>2. CASE trainer[s].dir = d
      <4>1. trainer[s].pc \in {"waiting", "ended", "interrupted"} => trainer[s].pc = "waiting"
        BY <2>3, <3>2, Zenon
      <4> QED
        BY <1>3, <1>4, <2>1, <3>2, <4>1, Zenon DEF TrainerInv, LaunchedInv
    <3>3. CASE trainer[s].dir # d
      BY <1>3, <1>4, <2>1, <2>3, <3>1, <3>3, Zenon DEF TrainerInv, LaunchedInv
    <3> QED
      BY <3>2, <3>3
  <2> QED
    BY <2>2, <2>4, <2>5, <2>6, <2>7, <2>8 DEF TrainerInv
<1>8. ASSUME NEW m \in Launches
      PROVE  ChildInv(m)'
  <2>1. CASE m = l
    <3>1. Alone(l)'
      <4>1. dirs[d].claim /\ dirs[d].pid = l => row.claim /\ row.pid = l
        OBVIOUS
      <4>2. \A s \in Trainers : (Working(s)' <=> Working(s)) /\ (Waits(s, l)' <=> Waits(s, l))
        BY Zenon DEF Working, Waits
      <4> QED
        BY <1>1, <1>2, <1>3, <4>1, <4>2, Zenon DEF Alone
    <3>2. l <= dirs'[child'[l].dir].plan.launch
      BY <1>1, <1>2, <1>3, PlanRows
    <3> QED
      BY <1>2, <1>3, <2>1, <3>1, <3>2, Zenon DEF ChildInv
  <2>2. CASE m # l
    <3> SUFFICES ASSUME child[m].pc # "none" PROVE ChildInv(m)'
      BY <1>2, <2>2, Zenon DEF ChildInv
    <3>1. ChildInv(m) /\ ChildFiles(m) /\ Alone(m) /\ child[m].dir \in RunDirs
      BY Zenon DEF TrainingInv, ChildInv
    <3>2. ChildFiles(m)'
      <4>1. CASE child[m].dir = d
        <5>1. child[m].pc \notin AlivePcs
          BY <1>6, <2>2, <4>1 DEF Lives
        <5>2. row.plan.launch # m /\ child'[m] = child[m]
          BY <1>1, <1>2, <2>2
        <5> QED
          BY <1>3, <4>1, <5>1, <5>2, Zenon DEF ChildFiles, AlivePcs
      <4>2. CASE child[m].dir # d
        BY <1>2, <1>3, <2>2, <3>1, <4>2, Zenon DEF ChildFiles
      <4> QED
        BY <4>1, <4>2
    <3>3. Alone(m)'
      <4> SUFFICES ASSUME Lives(m) PROVE Alone(m)'
        BY <1>2, <2>2, Zenon DEF Alone, Lives
      <4>1. child'[m] = child[m] /\ dirs'[child[m].dir] = dirs[child[m].dir]
        BY <1>2, <1>3, <1>6, <2>2, <3>1
      <4>2. \A s \in Trainers : (Working(s)' <=> Working(s)) /\ (Waits(s, m)' <=> Waits(s, m))
        BY Zenon DEF Working, Waits
      <4> QED
        BY <3>1, <4>1, <4>2, Zenon DEF Alone
    <3>4. m <= dirs'[child'[m].dir].plan.launch /\ dirs'[child'[m].dir].used
      BY <1>2, <1>3, <2>2, <3>1, Zenon DEF ChildInv
    <3> QED
      BY <1>2, <2>2, <3>1, <3>2, <3>3, <3>4, Zenon DEF ChildInv
  <2> QED
    BY <2>1, <2>2
<1>9. ASSUME NEW e \in RunDirs
      PROVE  DirInv(e)'
  <2>1. DirInv(e)
    BY DEF TrainingInv
  <2>2. dirs[e].pid # 0 => dirs[e].pid \in Launches
    BY InvTypes, TrainingAssumption, SMT DEF RunDir, Launches
  <2>3. CASE e # d
    <3>1. dirs'[e] = dirs[e]
      BY <1>3, <2>3
    <3>2. ASSUME dirs[e].pid # 0
          PROVE  /\ dirs[e].claim
                 /\ child'[dirs[e].pid].pc # "none" /\ child'[dirs[e].pid].dir = e
      BY <1>4, <2>1, <2>2, <3>2, Zenon DEF DirInv
    <3> QED
      BY <1>4, <2>1, <3>1, <3>2, Zenon DEF DirInv
  <2>4. CASE e = d
    <3>1. dirs'[d].pid # 0 =>
              /\ dirs'[d].claim /\ child'[dirs'[d].pid].pc # "none"
              /\ child'[dirs'[d].pid].dir = d
      <4>1. CASE row.pid = l
        BY <1>2, <1>3, <4>1, Zenon
      <4>2. CASE row.pid = dirs[d].pid
        <5>1. ASSUME row.pid # 0
              PROVE  /\ row.claim
                     /\ child'[row.pid].pc # "none" /\ child'[row.pid].dir = d
          <6>1. /\ dirs[d].pid \in Launches /\ dirs[d].claim
                /\ child[dirs[d].pid].pc # "none" /\ child[dirs[d].pid].dir = d
            <7>1. dirs[e].pid # 0
              BY <2>4, <4>2, <5>1
            <7>2. /\ dirs[e].pid \in Launches /\ dirs[e].claim
                  /\ child[dirs[e].pid].pc # "none" /\ child[dirs[e].pid].dir = e
              BY <2>1, <2>2, <7>1, Zenon DEF DirInv
            <7> QED
              BY <2>4, <7>2, Zenon
          <6> QED
            BY <1>4, <4>2, <6>1, Zenon
        <5> QED
          BY <1>3, <5>1, Zenon
      <4> QED
        BY <4>1, <4>2
    <3>2. ~ dirs'[d].used => dirs'[d] = NewDir
      BY <1>3
    <3>3. ASSUME NEW m \in Launches, NEW k \in Launches,
                 Lives(m)', Lives(k)', child'[m].dir = d, child'[k].dir = d
          PROVE  m = k
      <4>1. Lives(m) /\ Lives(k) /\ child[m].dir = d /\ child[k].dir = d
        BY <1>4, <3>3, Zenon
      <4> QED
        BY <2>1, <2>4, <4>1, Zenon DEF DirInv
    <3> QED
      BY <2>4, <3>1, <3>2, <3>3, Zenon DEF DirInv
  <2> QED
    BY <2>3, <2>4
<1>10. training.dir \in RunDirs \cup {NoDir}
  BY InvTypes, SMT DEF TrainingState
<1>11. StateInv'
  BY <1>1, <1>3, <1>10, Zenon DEF TrainingInv, StateInv
<1>12. training.dir = d => training.status = "running"
  <2>1. CASE \E s \in Trainers : Waits(s, l)
    BY <2>1, Zenon DEF Waits, TrainingInv, TrainerInv, RecordedInv
  <2>2. CASE ~ \E s \in Trainers : Waits(s, l)
    BY <1>1, <2>2, Zenon DEF Alone
  <2> QED
    BY <2>1, <2>2
<1>13. training.status # "none" => training.dir \in RunDirs
  BY <1>10, Zenon DEF TrainingInv, StateInv
<1>14. TrainedIsGrounded'
  BY <1>3, <1>4, <1>12, <1>13, Zenon
  DEF TrainingInv, StateMatchesRun, TrainedIsGrounded
<1>15. ResumeAccepted'
  <2>1. \A e \in RunDirs : dirs[e].pid # 0 => dirs[e].pid \in Launches
    BY InvTypes, TrainingAssumption, SMT DEF RunDir, Launches
  <2> QED
    BY <1>3, <1>4, <1>12, <1>13, <2>1, Zenon
    DEF TrainingInv, StateMatchesRun, ResumeAccepted
<1>16. TrainingTypeOK'
  BY <1>2, <1>3 DEF TrainingInv, TrainingTypeOK
<1> QED
  BY <1>7, <1>8, <1>9, <1>11, <1>14, <1>15, <1>16 DEF TrainingInv, StateMatchesRun


\* A step of the child that writes nothing.
LEMMA ChildMovesOnly ==
    ASSUME TrainingInv, NEW l \in Launches, NEW d \in RunDirs, child[l].dir = d,
           Lives(l), NEW pc \in AlivePcs \cup {"done", "failed"},
           child' = [child EXCEPT ![l].pc = pc], dirs' = dirs,
           training' = training, lifecycle' = lifecycle, trainer' = trainer,
           early' = early, torn' = torn, ChildFiles(l)'
    PROVE  TrainingInv'
<1> DEFINE row == dirs[d]
<1>1. row \in RunDir /\ dirs' = [dirs EXCEPT ![d] = row]
  BY InvTypes
<1>2. child[l].pc # "none"
  BY DEF Lives, AlivePcs
<1>3. row.used /\ (row.pid = l => row.claim)
  <2>1. ChildInv(l) /\ DirInv(d)
    BY DEF TrainingInv
  <2>2. row.used
    BY <1>2, <2>1, Zenon DEF ChildInv
  <2> QED
    BY <2>1, <2>2, PlanRows, SMT DEF DirInv
<1>4. row.plan.launch = dirs[d].plan.launch /\ (row.pid = dirs[d].pid \/ row.pid = l)
      /\ (dirs[d].claim => row.claim)
  OBVIOUS
<1> HIDE DEF row
<1> QED
  BY <1>1, <1>3, <1>4, ChildMoveKeeps

\* What is known of a child that is alive.
LEMMA AliveChild ==
    ASSUME TrainingInv, NEW l \in Launches, Lives(l)
    PROVE  /\ child[l].dir \in RunDirs /\ dirs[child[l].dir].used
           /\ dirs[child[l].dir] \in RunDir /\ ChildFiles(l)
           /\ dirs[child[l].dir].plan.launch = l
<1>1. child[l].pc # "none"
  BY DEF Lives, AlivePcs
<1>2. ChildInv(l)
  BY DEF TrainingInv
<1>3. child[l].dir \in RunDirs /\ dirs[child[l].dir].used /\ ChildFiles(l)
  BY <1>1, <1>2, Zenon DEF ChildInv
<1>4. dirs[child[l].dir].plan.launch = l
  BY <1>3, Zenon DEF ChildFiles, Lives
<1> QED
  BY <1>3, <1>4, InvTypes

\* A child that has failed shows nothing.
LEMMA FailedChild ==
    ASSUME child \in [Launches -> Child], NEW l \in Launches,
           child' = [child EXCEPT ![l].pc = "failed"]
    PROVE  ChildFiles(l)'
<1>1. child'[l].pc = "failed"
  BY MovedChild
<1> QED
  BY <1>1, SMT DEF ChildFiles, AlivePcs

LEMMA ChildFailsKeeps ==
    ASSUME TrainingInv, NEW l \in Launches, ChildFails(l),
           UNCHANGED <<training, lifecycle, trainer, early, torn>>
    PROVE  TrainingInv'
<1>1. Lives(l) /\ child' = [child EXCEPT ![l].pc = "failed"] /\ dirs' = dirs
  BY DEF ChildFails, ChildTo
<1> QED
  BY <1>1, AliveChild, FailedChild, ChildMovesOnly, InvTypes

LEMMA CreateClaimKeeps ==
    ASSUME TrainingInv, NEW l \in Launches, NEW d \in RunDirs, child[l].dir = d,
           CreateClaim(l, d), UNCHANGED <<training, lifecycle, trainer, early, torn>>
    PROVE  TrainingInv'
<1>1. Lives(l) /\ child[l].pc = "start"
  BY DEF CreateClaim, Lives, AlivePcs
<1>2. /\ ~ dirs[d].claim /\ dirs[d].pid = 0 /\ dirs[d] \in RunDir /\ dirs[d].used
      /\ dirs[d].plan.launch = l
  BY <1>1, AliveChild, Zenon DEF ChildFiles
<1> DEFINE row == [dirs[d] EXCEPT !.claim = TRUE]
<1>3. child' = [child EXCEPT ![l].pc = "claim"] /\ dirs' = [dirs EXCEPT ![d] = row]
  <2>1. /\ child' = [child EXCEPT ![l].pc = "claim"]
        /\ dirs' = [dirs EXCEPT ![d].claim = TRUE]
    BY <1>2, Zenon DEF CreateClaim, ChildTo
  <2> QED
    BY <2>1, InvTypes, Zenon
<1>4. /\ row \in RunDir /\ row.used = dirs[d].used /\ row.claim
      /\ row.pid = dirs[d].pid /\ row.plan = dirs[d].plan
  <2>1. ASSUME NEW old \in RunDir
        PROVE  LET r == [old EXCEPT !.claim = TRUE]
               IN  /\ r \in RunDir /\ r.used = old.used /\ r.claim
                   /\ r.pid = old.pid /\ r.plan = old.plan
    BY Zenon DEF RunDir
  <2> QED
    BY <1>2, <2>1
<1> HIDE DEF row
<1>5. ChildFiles(l)'
  <2>1. child'[l].pc = "claim" /\ child'[l].dir = d /\ dirs'[d] = row
    BY <1>3, <1>4, InvTypes, MovedChild
  <2> QED
    BY <1>2, <1>4, <2>1, SMT DEF ChildFiles, AlivePcs
<1>6. "claim" \in AlivePcs \cup {"done", "failed"}
  BY DEF AlivePcs
<1> QED
  BY <1>1, <1>2, <1>3, <1>4, <1>5, <1>6, ChildMoveKeeps

LEMMA WriteClaimKeeps ==
    ASSUME TrainingInv, NEW l \in Launches, NEW d \in RunDirs, child[l].dir = d,
           WriteClaim(l, d), UNCHANGED <<training, lifecycle, trainer, early, torn>>
    PROVE  TrainingInv'
<1>1. /\ Lives(l) /\ child[l].pc = "claim" /\ child' = [child EXCEPT ![l].pc = "check"]
      /\ dirs' = [dirs EXCEPT ![d].pid = l]
  BY DEF WriteClaim, ChildTo, Lives, AlivePcs
<1>2. /\ dirs[d].claim /\ dirs[d] \in RunDir /\ dirs[d].used
      /\ dirs[d].plan.launch = l
  BY <1>1, AliveChild, Zenon DEF ChildFiles
<1> DEFINE row == [dirs[d] EXCEPT !.pid = l]
<1>3. dirs' = [dirs EXCEPT ![d] = row]
  BY <1>1, InvTypes, Zenon
<1>4. /\ row \in RunDir /\ row.used = dirs[d].used /\ row.claim = dirs[d].claim
      /\ row.pid = l /\ row.plan = dirs[d].plan
  <2>1. ASSUME NEW old \in RunDir
        PROVE  LET r == [old EXCEPT !.pid = l]
               IN  /\ r \in RunDir /\ r.used = old.used /\ r.claim = old.claim
                   /\ r.pid = l /\ r.plan = old.plan
    BY PlanRows, Zenon DEF RunDir
  <2> QED
    BY <1>2, <2>1
<1> HIDE DEF row
<1>5. ChildFiles(l)'
  <2>1. child'[l].pc = "check" /\ child'[l].dir = d /\ dirs'[d] = row
    <3>1. "check" \in AlivePcs \cup {"done", "failed"}
      BY DEF AlivePcs
    <3>2. child'[l].pc = "check" /\ child'[l].dir = child[l].dir
      BY <1>1, <3>1, InvTypes, MovedChild
    <3>3. d \in RunDirs
      BY <1>1, AliveChild
    <3>4. dirs'[d] = row
      BY <1>3, <3>3, InvTypes
    <3> QED
      BY <3>2, <3>4
  <2>2. row.claim /\ row.pid = l /\ row.plan.launch = l
    BY <1>2, <1>4
  <2> QED
    BY <2>1, <2>2, SMT DEF ChildFiles, AlivePcs
<1>6. "check" \in AlivePcs \cup {"done", "failed"}
  BY DEF AlivePcs
<1> QED
  BY <1>1, <1>2, <1>3, <1>4, <1>5, <1>6, ChildMoveKeeps

LEMMA CheckManifestKeeps ==
    ASSUME TrainingInv, NEW l \in Launches, NEW d \in RunDirs, child[l].dir = d,
           CheckManifest(l, d), UNCHANGED <<training, lifecycle, trainer, early, torn>>
    PROVE  TrainingInv'
<1>1. /\ Lives(l) /\ child[l].pc = "check" /\ dirs' = dirs
      /\ \/ child' = [child EXCEPT ![l].pc = "consume"]
         \/ child' = [child EXCEPT ![l].pc = "failed"]
  BY DEF CheckManifest, ChildTo, Lives, AlivePcs
<1>2. CASE child' = [child EXCEPT ![l].pc = "failed"]
  BY <1>1, <1>2, AliveChild, FailedChild, ChildMovesOnly, InvTypes
<1>3. CASE child' = [child EXCEPT ![l].pc = "consume"]
  <2>1. "consume" \in AlivePcs \cup {"done", "failed"}
    BY DEF AlivePcs
  <2>2. child'[l].pc = "consume" /\ child'[l].dir = d
    BY <1>3, <2>1, InvTypes, MovedChild
  <2>3. dirs[d].claim /\ dirs[d].pid = l /\ dirs[d].plan.launch = l
    BY <1>1, AliveChild, SMT DEF ChildFiles, AlivePcs
  <2>4. ChildFiles(l)'
    BY <1>1, <2>2, <2>3, SMT DEF ChildFiles, AlivePcs
  <2> QED
    BY <1>1, <1>3, <2>1, <2>4, ChildMovesOnly
<1> QED
  BY <1>1, <1>2, <1>3

LEMMA ConsumeLaunchKeeps ==
    ASSUME TrainingInv, NEW l \in Launches, NEW d \in RunDirs, child[l].dir = d,
           ConsumeLaunch(l, d), UNCHANGED <<training, lifecycle, trainer, early, torn>>
    PROVE  TrainingInv'
<1>1. /\ Lives(l) /\ child[l].pc = "consume" /\ child' = [child EXCEPT ![l].pc = "train"]
      /\ dirs' = [dirs EXCEPT ![d].plan = Spent(l)]
  BY DEF ConsumeLaunch, ChildTo, Lives, AlivePcs
<1>2. /\ dirs[d].claim /\ dirs[d].pid = l /\ dirs[d] \in RunDir /\ dirs[d].used
      /\ dirs[d].plan.launch = l
  BY <1>1, AliveChild, SMT DEF ChildFiles, AlivePcs
<1> DEFINE row == [dirs[d] EXCEPT !.plan = Spent(l)]
<1>3. dirs' = [dirs EXCEPT ![d] = row]
  BY <1>1, InvTypes, Zenon
<1>4. /\ row \in RunDir /\ row.used = dirs[d].used /\ row.claim = dirs[d].claim
      /\ row.pid = dirs[d].pid /\ row.plan = Spent(l)
  <2>1. ASSUME NEW old \in RunDir
        PROVE  LET r == [old EXCEPT !.plan = Spent(l)]
               IN  /\ r \in RunDir /\ r.used = old.used /\ r.claim = old.claim
                   /\ r.pid = old.pid /\ r.plan = Spent(l)
    BY PlanRows, Zenon DEF RunDir
  <2> QED
    BY <1>2, <2>1
<1> HIDE DEF row
<1>5. row.plan.launch = l
  BY <1>4, PlanRows
<1>6. ChildFiles(l)'
  <2>1. child'[l].pc = "train" /\ child'[l].dir = d /\ dirs'[d] = row
    <3>1. "train" \in AlivePcs \cup {"done", "failed"}
      BY DEF AlivePcs
    <3>2. child'[l].pc = "train" /\ child'[l].dir = child[l].dir
      BY <1>1, <3>1, InvTypes, MovedChild
    <3>3. d \in RunDirs
      BY <1>1, AliveChild
    <3>4. dirs'[d] = row
      BY <1>3, <3>3, InvTypes
    <3> QED
      BY <3>2, <3>4
  <2>2. row.claim /\ row.pid = l /\ row.plan.launch = l /\ row.plan = Spent(l)
    BY <1>2, <1>4, <1>5
  <2> QED
    BY <2>1, <2>2, SMT DEF ChildFiles, AlivePcs
<1>7. "train" \in AlivePcs \cup {"done", "failed"}
  BY DEF AlivePcs
<1>8. row.used /\ row.claim /\ row.pid = l /\ row.plan.launch = dirs[d].plan.launch
  BY <1>2, <1>4, <1>5
<1> QED
  BY <1>1, <1>3, <1>4, <1>6, <1>7, <1>8, ChildMoveKeeps

LEMMA SaveWeightsKeeps ==
    ASSUME TrainingInv, NEW l \in Launches, NEW d \in RunDirs, child[l].dir = d,
           SaveWeights(l, d), UNCHANGED <<training, lifecycle, trainer, early, torn>>
    PROVE  TrainingInv'
<1>1. /\ Lives(l) /\ child[l].pc = "train" /\ child' = [child EXCEPT ![l].pc = "save"]
      /\ dirs' = [dirs EXCEPT ![d].weights = l]
  BY DEF SaveWeights, ChildTo, Lives, AlivePcs
<1>2. /\ dirs[d].claim /\ dirs[d].pid = l /\ dirs[d] \in RunDir /\ dirs[d].used
      /\ dirs[d].plan = Spent(l) /\ dirs[d].plan.launch = l
  BY <1>1, AliveChild, SMT DEF ChildFiles, AlivePcs
<1> DEFINE row == [dirs[d] EXCEPT !.weights = l]
<1>3. dirs' = [dirs EXCEPT ![d] = row]
  BY <1>1, InvTypes, Zenon
<1>4. /\ row \in RunDir /\ row.used = dirs[d].used /\ row.claim = dirs[d].claim
      /\ row.pid = dirs[d].pid /\ row.plan = dirs[d].plan /\ row.weights = l
  <2>1. ASSUME NEW old \in RunDir
        PROVE  LET r == [old EXCEPT !.weights = l]
               IN  /\ r \in RunDir /\ r.used = old.used /\ r.claim = old.claim
                   /\ r.pid = old.pid /\ r.plan = old.plan /\ r.weights = l
    BY PlanRows, Zenon DEF RunDir
  <2> QED
    BY <1>2, <2>1
<1> HIDE DEF row
<1>5. ChildFiles(l)'
  <2>1. child'[l].pc = "save" /\ child'[l].dir = d /\ dirs'[d] = row
    <3>1. "save" \in AlivePcs \cup {"done", "failed"}
      BY DEF AlivePcs
    <3>2. child'[l].pc = "save" /\ child'[l].dir = child[l].dir
      BY <1>1, <3>1, InvTypes, MovedChild
    <3>3. d \in RunDirs
      BY <1>1, AliveChild
    <3>4. dirs'[d] = row
      BY <1>3, <3>3, InvTypes
    <3> QED
      BY <3>2, <3>4
  <2>2. row.claim /\ row.pid = l /\ row.plan.launch = l /\ row.plan = Spent(l)
        /\ row.weights = l
    BY <1>2, <1>4
  <2> QED
    BY <2>1, <2>2, SMT DEF ChildFiles, AlivePcs
<1>6. "save" \in AlivePcs \cup {"done", "failed"}
  BY DEF AlivePcs
<1>7. row.used /\ row.claim /\ row.pid = l /\ row.plan.launch = dirs[d].plan.launch
  BY <1>2, <1>4
<1> QED
  BY <1>1, <1>3, <1>4, <1>5, <1>6, <1>7, ChildMoveKeeps

LEMMA WriteManifestKeeps ==
    ASSUME TrainingInv, NEW l \in Launches, NEW d \in RunDirs, child[l].dir = d,
           WriteManifest(l, d), UNCHANGED <<training, lifecycle, trainer, early, torn>>
    PROVE  TrainingInv'
<1>1. /\ Lives(l) /\ child[l].pc = "save" /\ child' = [child EXCEPT ![l].pc = "done"]
      /\ dirs' = [dirs EXCEPT ![d].manifest = l]
  BY DEF WriteManifest, ChildTo, Lives, AlivePcs
<1>2. /\ dirs[d].claim /\ dirs[d].pid = l /\ dirs[d] \in RunDir /\ dirs[d].used
      /\ dirs[d].plan = Spent(l) /\ dirs[d].plan.launch = l /\ dirs[d].weights = l
  BY <1>1, AliveChild, SMT DEF ChildFiles, AlivePcs
<1> DEFINE row == [dirs[d] EXCEPT !.manifest = l]
<1>3. dirs' = [dirs EXCEPT ![d] = row]
  BY <1>1, InvTypes, Zenon
<1>4. /\ row \in RunDir /\ row.used = dirs[d].used /\ row.claim = dirs[d].claim
      /\ row.pid = dirs[d].pid /\ row.plan = dirs[d].plan
      /\ row.weights = dirs[d].weights /\ row.manifest = l
  <2>1. ASSUME NEW old \in RunDir
        PROVE  LET r == [old EXCEPT !.manifest = l]
               IN  /\ r \in RunDir /\ r.used = old.used /\ r.claim = old.claim
                   /\ r.pid = old.pid /\ r.plan = old.plan
                   /\ r.weights = old.weights /\ r.manifest = l
    BY PlanRows, Zenon DEF RunDir
  <2> QED
    BY <1>2, <2>1
<1> HIDE DEF row
<1>5. ChildFiles(l)'
  <2>1. child'[l].pc = "done" /\ child'[l].dir = d /\ dirs'[d] = row
    BY <1>1, <1>3, <1>4, InvTypes, MovedChild
  <2> QED
    BY <1>2, <1>4, <2>1, SMT DEF ChildFiles, AlivePcs
<1>6. row.used /\ row.claim /\ row.pid = l /\ row.plan.launch = dirs[d].plan.launch
  BY <1>2, <1>4
<1> QED
  BY <1>1, <1>3, <1>4, <1>5, <1>6, ChildMoveKeeps


-----------------------------------------------------------------------------
LEMMA TrainingInvInit == TrainingInit => TrainingInv
<1> SUFFICES ASSUME TrainingInit PROVE TrainingInv
  OBVIOUS
<1> USE DEF TrainingInit
<1>1. /\ 0 \in 0..MaxLaunches /\ Issued(0) \in Plan
  <2>1. 0 \in 0..MaxLaunches
    BY TrainingAssumption, SMT
  <2> QED
    BY <2>1, Zenon DEF Issued, Plan
<1>2. TrainingTypeOK
  <2>1. training \in TrainingState
    BY <1>1, SMT DEF TrainingState
  <2>2. Resting \in Trainer
    BY <1>1, SMT DEF Resting, Trainer
  <2>3. [pc |-> "none", dir |-> NoDir] \in Child
    BY SMT DEF Child
  <2> QED
    BY <2>1, <2>2, <2>3, NewDirRow DEF TrainingTypeOK
<1>3. \A t \in Trainers : TrainerInv(t)
  <2>1. \A t \in Trainers : trainer[t].pc = "idle" /\ lifecycle # t
    BY TrainingAssumption DEF Resting
  <2> QED
    BY <2>1, IdleInv, Zenon
<1>4. \A l \in Launches : child[l].pc = "none"
  BY SMT
<1>5. \A l \in Launches : ChildInv(l) /\ ~ Lives(l)
  BY <1>4, Zenon DEF ChildInv, Lives, AlivePcs
<1>6. \A d \in RunDirs : DirInv(d)
  BY <1>5, NewDirRow, Zenon DEF DirInv
<1>7. training.status = "none" /\ training.dir = NoDir
  BY SMT
<1>8. StateInv /\ StateMatchesRun
  BY <1>7, Zenon DEF StateInv, StateMatchesRun, TrainedIsGrounded, ResumeAccepted
<1> QED
  BY <1>2, <1>3, <1>5, <1>6, <1>8 DEF TrainingInv

LEMMA ChildStepKeeps ==
    ASSUME TrainingInv, NEW l \in Launches, ChildStep(l)
    PROVE  TrainingInv'
<1>1. UNCHANGED <<training, lifecycle, trainer, early, torn>>
  BY DEF ChildStep
<1>2. CASE ChildFails(l)
  BY <1>1, <1>2, ChildFailsKeeps
<1>3. CASE \E d \in RunDirs :
              /\ child[l].dir = d
              /\ \/ CreateClaim(l, d) \/ WriteClaim(l, d) \/ CheckManifest(l, d)
                 \/ ConsumeLaunch(l, d) \/ SaveWeights(l, d)
                 \/ WriteManifest(l, d)
  BY <1>1, <1>3, CreateClaimKeeps, WriteClaimKeeps, CheckManifestKeeps,
     ConsumeLaunchKeeps, SaveWeightsKeeps, WriteManifestKeeps, Zenon
<1> QED
  BY <1>2, <1>3 DEF ChildStep

LEMMA TrainerStepKeeps ==
    ASSUME TrainingInv, NEW t \in Trainers, TrainerStep(t)
    PROVE  TrainingInv'
<1>1. CASE SpawnFails(t)
  BY <1>1, SpawnFailsKeeps
<1>2. CASE \E d \in RunDirs :
              /\ trainer[t].dir = d
              /\ \/ PrelaunchFails(t, d) \/ WritePlan(t, d) \/ WriteRunning(t, d)
                 \/ SpawnChild(t, d) \/ AwaitChild(t, d) \/ Interrupt(t, d)
                 \/ RecordEnd(t, d) \/ TrainerDies(t, d)
  BY <1>2, PrelaunchFailsKeeps, WritePlanKeeps, WriteRunningKeeps, SpawnChildKeeps,
     AwaitChildKeeps, InterruptKeeps, RecordEndKeeps, TrainerDiesKeeps, Zenon
<1> QED
  BY <1>1, <1>2 DEF TrainerStep

LEMMA TrainingInvStep == TrainingInv /\ [TrainingNext]_trainingVars => TrainingInv'
<1> SUFFICES ASSUME TrainingInv, [TrainingNext]_trainingVars
             PROVE  TrainingInv'
  OBVIOUS
<1>1. CASE TrainingNext
  BY <1>1, TrainerStepKeeps, ChildStepKeeps, NewTrainingRunKeeps, ResumeTrainingRunKeeps,
     Zenon
  DEF TrainingNext
<1>2. CASE UNCHANGED trainingVars
  <2>1. /\ training' = training /\ lifecycle' = lifecycle /\ dirs' = dirs
        /\ child' = child /\ trainer' = trainer /\ early' = early /\ torn' = torn
    BY <1>2 DEF trainingVars
  <2>2. ASSUME NEW t \in Trainers
        PROVE  TrainerInv(t)'
    <3>1. TrainerInv(t)
      BY DEF TrainingInv
    <3> QED
      BY <2>1, <3>1, Zenon
      DEF TrainerInv, CommandInv, PreparingInv, PlannedInv, RecordedInv, ResumingInv,
          LaunchedInv, Working
  <2>3. ASSUME NEW l \in Launches
        PROVE  ChildInv(l)'
    <3>1. ChildInv(l)
      BY DEF TrainingInv
    <3>2. (ChildFiles(l) => ChildFiles(l)') /\ (Alone(l) => Alone(l)')
      BY <2>1, Zenon DEF ChildFiles, Alone, Lives, Working, Waits
    <3> QED
      BY <2>1, <3>1, <3>2, Zenon DEF ChildInv
  <2>4. ASSUME NEW d \in RunDirs
        PROVE  DirInv(d)'
    <3>1. DirInv(d)
      BY DEF TrainingInv
    <3> QED
      BY <2>1, <3>1, Zenon DEF DirInv, Lives
  <2>5. StateInv' /\ TrainedIsGrounded' /\ ResumeAccepted'
    BY <2>1, Zenon
    DEF TrainingInv, StateInv, StateMatchesRun, TrainedIsGrounded, ResumeAccepted, Lives
  <2>6. TrainingTypeOK'
    BY <2>1 DEF TrainingInv, TrainingTypeOK
  <2> QED
    BY <2>2, <2>3, <2>4, <2>5, <2>6 DEF TrainingInv, StateMatchesRun
<1> QED
  BY <1>1, <1>2

\* Two children that are alive and not early are one: each is waited for by the
\* one command there can be, or stands in the claim that stops all commands.
LEMMA TrainingInvGives == TrainingInv => TrainingHonest
<1> SUFFICES ASSUME TrainingInv PROVE TrainingHonest
  OBVIOUS
<1>1. ASSUME NEW l \in Launches \ early, NEW m \in Launches \ early, Lives(l), Lives(m)
      PROVE  l = m
  <2>1. Alone(l) /\ Alone(m)
    BY <1>1, Zenon DEF TrainingInv, ChildInv, Lives, AlivePcs
  <2>2. \A s \in Trainers : Working(s) => lifecycle = s /\ lifecycle # NoTrainer
    BY OneWorks, TrainingAssumption
  <2>3. \A s \in Trainers : (Waits(s, l) \/ Waits(s, m)) => Working(s)
    BY Zenon DEF Waits, Working
  <2>4. CASE \E s \in Trainers : Waits(s, l)
    <3>1. \E s \in Trainers : Waits(s, m)
      BY <1>1, <2>1, <2>2, <2>3, <2>4, Zenon DEF Alone
    <3> QED
      BY <2>2, <2>3, <2>4, <3>1, Zenon DEF Waits
  <2>5. CASE ~ \E s \in Trainers : Waits(s, l)
    <3>1. lifecycle = NoTrainer /\ training.dir = child[l].dir /\ dirs[child[l].dir].pid = l
      BY <1>1, <2>1, <2>5, Zenon DEF Alone
    <3>2. ~ \E s \in Trainers : Waits(s, m)
      BY <2>2, <2>3, <3>1, Zenon
    <3>3. training.dir = child[m].dir /\ dirs[child[m].dir].pid = m
      BY <1>1, <2>1, <3>2, Zenon DEF Alone
    <3> QED
      BY <3>1, <3>3, Zenon
  <2> QED
    BY <2>4, <2>5
<1>2. OneTrainer
  BY <1>1, Zenon DEF OneTrainer
<1> QED
  BY <1>2 DEF TrainingHonest, TrainingInv

\* However many commands train, resume and die at whatever moment, no two
\* children train at once but for those orphaned before they wrote their claim,
\* and what the state file says of a run is what its directory holds.
THEOREM TrainingIsHonest == TrainingSpec => []TrainingHonest
<1>1. TrainingInv => TrainingHonest
  BY TrainingInvGives
<1>2. TrainingInit => TrainingInv
  BY TrainingInvInit
<1>3. TrainingInv /\ [TrainingNext]_trainingVars => TrainingInv'
  BY TrainingInvStep
<1> QED
  BY <1>1, <1>2, <1>3, PTL DEF TrainingSpec

-----------------------------------------------------------------------------
(***************************************************************************)
(* The system screen.  A wait that the screen shows is that of its current *)
(* epoch, and what the calls in flight bring is no operation, or one that  *)
(* is active.                                                              *)
(***************************************************************************)

PanelRows ==
    [mounted : BOOLEAN, active : BOOLEAN, loading : BOOLEAN, working : BOOLEAN,
     waiting : BOOLEAN, stop : BOOLEAN, epoch : 0..MaxEpochs,
     ignored : 0..MaxHostOps, shown : Operation, command : BOOLEAN, due : BOOLEAN]

WaitRows ==
    [kind : {"none", "action", "follow"}, op : 0..MaxHostOps, at : WaitPcs,
     got : Operation]

StatusReaderRows == [at : StatusReaderPcs, got : Operation]

Nothing(operation) == operation = NoOperation \/ IsActive(operation)

ScreenInv ==
    /\ host \in Operation /\ panel \in PanelRows
    /\ waits \in [Epochs -> WaitRows] /\ readers \in [StatusReaders -> StatusReaderRows]
    /\ \A e \in Epochs :
          /\ waits[e].at = "accepted" => IsActive(waits[e].got)
          /\ waits[e].at \in {"accepted", "looping", "asked", "answered"} =>
                waits[e].op # 0
    /\ \A r \in StatusReaders : Nothing(readers[r].got)
    /\ WaitsAreReal


LEMMA ActiveNumbered ==
    ASSUME NEW operation \in Operation
    PROVE  /\ operation.op \in 0..MaxHostOps
           /\ IsActive(operation) => operation.op # 0
           /\ NoOperation \in Operation /\ ~ IsActive(NoOperation)
           /\ NoOperation.op = 0
BY SystemAssumption, SMT DEF Operation, NoOperation, IsActive

\* A call goes on, or comes to its end.
LEMMA WaitMoves ==
    ASSUME waits \in [Epochs -> WaitRows], NEW e \in Epochs, NEW pc \in WaitPcs,
           WaitTo(e, pc)
    PROVE  /\ waits' \in [Epochs -> WaitRows]
           /\ waits'[e].at = pc /\ waits'[e].op = waits[e].op
           /\ \A f \in Epochs : f # e => waits'[f] = waits[f]
<1> DEFINE row == [waits[e] EXCEPT !.at = pc, !.got = NoOperation]
<1>1. waits' = [waits EXCEPT ![e] = row]
  BY Zenon DEF WaitTo
<1>2. ASSUME NEW old \in WaitRows
      PROVE  LET r == [old EXCEPT !.at = pc, !.got = NoOperation]
             IN  r \in WaitRows /\ r.at = pc /\ r.op = old.op
  <2>1. NoOperation \in Operation
    BY SystemAssumption, SMT DEF Operation, NoOperation
  <2> QED
    BY <2>1, Zenon DEF WaitRows
<1>3. row \in WaitRows /\ row.at = pc /\ row.op = waits[e].op
  BY <1>2
<1> HIDE DEF row
<1> QED
  BY <1>1, <1>3

LEMMA RecordedRow ==
    ASSUME panel \in PanelRows, NEW operation \in Operation
    PROVE  LET r == Recorded(operation)
           IN  /\ r \in PanelRows
               /\ r.mounted = panel.mounted /\ r.waiting = panel.waiting
               /\ r.epoch = panel.epoch /\ r.working = panel.working
               /\ operation.op # 0 => r.shown = operation
               /\ operation.op = 0 /\ panel.waiting => r.shown = panel.shown
<1>1. NoOperation \in Operation
  BY ActiveNumbered
<1>2. ASSUME NEW o \in Operation
      PROVE  LET r == [panel EXCEPT !.shown = o]
             IN  /\ r \in PanelRows /\ r.shown = o
                 /\ r.mounted = panel.mounted /\ r.waiting = panel.waiting
                 /\ r.epoch = panel.epoch /\ r.working = panel.working
  BY Zenon DEF PanelRows
<1>3. CASE operation.op # 0
  BY <1>2, <1>3, Zenon DEF Recorded
<1>4. CASE operation.op = 0 /\ IsActive(panel.shown) /\ ~ panel.waiting
  BY <1>1, <1>2, <1>4, Zenon DEF Recorded
<1>5. CASE operation.op = 0 /\ ~ (IsActive(panel.shown) /\ ~ panel.waiting)
  BY <1>5, Zenon DEF Recorded
<1> QED
  BY <1>3, <1>4, <1>5

\* The rows and the answers, where no call is waited for that was not.
LEMMA ScreenFrame ==
    ASSUME ScreenInv, host' \in Operation, panel' \in PanelRows,
           waits' \in [Epochs -> WaitRows], readers' \in [StatusReaders -> StatusReaderRows],
           \A e \in Epochs :
               /\ waits'[e].at = "accepted" => IsActive(waits'[e].got)
               /\ waits'[e].at \in {"accepted", "looping", "asked", "answered"} =>
                     waits'[e].op # 0,
           \A r \in StatusReaders : Nothing(readers'[r].got),
           WaitsAreReal'
    PROVE  ScreenInv'
BY Zenon DEF ScreenInv, Nothing, IsActive

\* The end of a wait.
LEMMA EndWaitKeeps ==
    ASSUME ScreenInv, NEW e \in Epochs, NEW operation \in Operation,
           EndWait(e, operation), host' \in Operation, readers' = readers
    PROVE  ScreenInv'
<1> DEFINE recorded == IF Current(e) THEN Recorded(operation) ELSE panel
           action == waits[e].kind = "action"
           waiting == IF Current(e) THEN FALSE ELSE recorded.waiting
           working == IF action /\ panel.mounted THEN FALSE ELSE recorded.working
           due == recorded.due \/ (action /\ operation.phase = "succeeded" /\ panel.mounted)
<1>1. panel \in PanelRows /\ waits \in [Epochs -> WaitRows]
  BY DEF ScreenInv
<1>2. /\ recorded \in PanelRows
      /\ recorded.mounted = panel.mounted /\ recorded.epoch = panel.epoch
      /\ ~ Current(e) => recorded = panel
  BY <1>1, RecordedRow, Zenon
<1>3. panel' = [recorded EXCEPT !.waiting = waiting, !.working = working, !.due = due]
  BY <1>1, <1>2, Zenon DEF EndWait
<1>4. waiting \in BOOLEAN /\ working \in BOOLEAN /\ due \in BOOLEAN
  <2>1. recorded.waiting \in BOOLEAN /\ recorded.working \in BOOLEAN
        /\ recorded.due \in BOOLEAN
    BY <1>2, Zenon DEF PanelRows
  <2> QED
    BY <2>1, Zenon
<1>5. Current(e) => ~ waiting
  BY Zenon
<1>6. ~ Current(e) => waiting = panel.waiting
  BY <1>2, Zenon
<1> HIDE DEF recorded, waiting, working, due
<1>7. /\ panel' \in PanelRows /\ panel'.waiting = waiting
      /\ panel'.mounted = panel.mounted /\ panel'.epoch = panel.epoch
      /\ ~ Current(e) => panel'.shown = panel.shown
  <2>1. /\ panel' \in PanelRows /\ panel'.waiting = waiting
        /\ panel'.mounted = recorded.mounted /\ panel'.epoch = recorded.epoch
        /\ panel'.shown = recorded.shown
    <3> DEFINE r == [recorded EXCEPT !.waiting = waiting, !.working = working, !.due = due]
    <3>1. /\ r \in PanelRows /\ r.waiting = waiting /\ r.mounted = recorded.mounted
          /\ r.epoch = recorded.epoch /\ r.shown = recorded.shown
      BY <1>2, <1>4, Zenon DEF PanelRows
    <3>2. panel' = r
      BY <1>3
    <3> HIDE DEF r
    <3> QED
      BY <3>1, <3>2, Zenon
  <2> QED
    BY <1>2, <2>1, Zenon
<1>8. /\ waits' \in [Epochs -> WaitRows] /\ waits'[e].at = "ended"
      /\ \A f \in Epochs : f # e => waits'[f] = waits[f]
  BY <1>1, WaitMoves DEF EndWait, WaitPcs
<1>9. WaitsAreReal'
  <2>1. CASE Current(e)
    BY <1>5, <1>7, <2>1, Zenon DEF WaitsAreReal
  <2>2. CASE ~ Current(e)
    <3>1. panel.mounted => panel.epoch # e
      BY <2>2, Zenon DEF Current
    <3>2. /\ panel'.mounted = panel.mounted /\ panel'.waiting = panel.waiting
          /\ panel'.epoch = panel.epoch /\ panel'.shown = panel.shown
      BY <1>6, <1>7, <2>2
    <3>3. WaitsAreReal
      BY DEF ScreenInv
    <3> QED
      BY <1>8, <3>1, <3>2, <3>3, Zenon DEF WaitsAreReal, IsActive
  <2> QED
    BY <2>1, <2>2
<1>10. \A f \in Epochs :
          /\ waits'[f].at = "accepted" => IsActive(waits'[f].got)
          /\ waits'[f].at \in {"accepted", "looping", "asked", "answered"} =>
                waits'[f].op # 0
  BY <1>8, Zenon DEF ScreenInv
<1> QED
  BY <1>7, <1>8, <1>9, <1>10, Zenon DEF ScreenInv, Nothing, IsActive


\* A step that changes nothing of what the screen says of its wait.
LEMMA QuietScreen ==
    ASSUME ScreenInv, host' \in Operation, panel' \in PanelRows,
           panel'.mounted => panel.mounted,
           panel'.mounted /\ panel'.waiting =>
               panel.waiting /\ panel'.epoch = panel.epoch /\ panel'.shown = panel.shown,
           waits' \in [Epochs -> WaitRows],
           \A e \in Epochs :
               /\ waits'[e].at = "accepted" => IsActive(waits'[e].got)
               /\ waits'[e].at \in {"accepted", "looping", "asked", "answered"} =>
                     waits'[e].op # 0
               /\ waits[e].at \in {"looping", "asked", "answered"} =>
                     waits'[e].at \in {"looping", "asked", "answered"},
           readers' \in [StatusReaders -> StatusReaderRows],
           \A r \in StatusReaders : Nothing(readers'[r].got)
    PROVE  ScreenInv'
<1>1. WaitsAreReal
  BY DEF ScreenInv
<1>2. WaitsAreReal'
  BY <1>1, Zenon DEF WaitsAreReal, IsActive
<1> QED
  BY <1>2, ScreenFrame

\* The same, of a step that leaves the calls alone as well.
LEMMA QuietPanel ==
    ASSUME ScreenInv, host' = host, panel' \in PanelRows,
           panel'.mounted => panel.mounted,
           panel'.mounted /\ panel'.waiting =>
               panel.waiting /\ panel'.epoch = panel.epoch /\ panel'.shown = panel.shown,
           waits' = waits,
           readers' \in [StatusReaders -> StatusReaderRows],
           \A r \in StatusReaders : Nothing(readers'[r].got)
    PROVE  ScreenInv'
<1>1. \A e \in Epochs :
          /\ waits'[e].at = "accepted" => IsActive(waits'[e].got)
          /\ waits'[e].at \in {"accepted", "looping", "asked", "answered"} =>
                waits'[e].op # 0
          /\ waits[e].at \in {"looping", "asked", "answered"} =>
                waits'[e].at \in {"looping", "asked", "answered"}
  BY Zenon DEF ScreenInv
<1>2. host' \in Operation /\ waits' \in [Epochs -> WaitRows]
  BY DEF ScreenInv
<1> QED
  BY <1>1, <1>2, QuietScreen, Zenon

LEMMA HostKeeps ==
    ASSUME ScreenInv, OtherBegins \/ HostEnds
    PROVE  ScreenInv'
<1>1. panel' = panel /\ waits' = waits /\ readers' = readers
  BY DEF OtherBegins, HostEnds
<1>2. host' \in Operation
  <2>1. host \in Operation
    BY DEF ScreenInv
  <2>2. CASE OtherBegins
    <3>1. host' = [op |-> host.op + 1, phase |-> "active"] /\ host.op < MaxHostOps
      BY <2>2 DEF OtherBegins, HostBegins
    <3>2. host.op + 1 \in 1..MaxHostOps
      BY <2>1, <3>1, ActiveNumbered, SystemAssumption, SMT
    <3> QED
      BY <3>1, <3>2, Zenon DEF Operation
  <2>3. CASE HostEnds
    <3>1. PICK ending \in {"succeeded", "failed"} : host' = [host EXCEPT !.phase = ending]
      BY <2>3, Zenon DEF HostEnds
    <3>2. host \in [op : 1..MaxHostOps, phase : {"active", "succeeded", "failed"}]
      BY <2>1, <2>3, SMT DEF HostEnds, IsActive, Operation, NoOperation
    <3>3. [host EXCEPT !.phase = ending]
             \in [op : 1..MaxHostOps, phase : {"active", "succeeded", "failed"}]
      BY <3>2, Zenon
    <3> QED
      BY <3>1, <3>3, Zenon DEF Operation
  <2> QED
    BY <2>2, <2>3
<1>3. ScreenInv
  OBVIOUS
<1> QED
  BY <1>1, <1>2, Zenon DEF ScreenInv, WaitsAreReal, Nothing, IsActive

LEMMA PressActionKeeps ==
    ASSUME ScreenInv, PressAction
    PROVE  ScreenInv'
<1>0. PICK e : e = panel.epoch + 1
  OBVIOUS
<1> DEFINE row == [NoWait EXCEPT !.kind = "action", !.at = "posted"]
<1>1. /\ panel.mounted /\ ~ IsActive(panel.shown) /\ e \in Epochs
      /\ panel' = [panel EXCEPT !.working = TRUE, !.epoch = e, !.stop = FALSE,
                                !.ignored = 0]
      /\ waits' = [waits EXCEPT ![e] = row]
      /\ host' = host /\ readers' = readers
  BY <1>0, Zenon DEF PressAction
<1>2. ~ panel.waiting
  BY <1>1, Zenon DEF ScreenInv, WaitsAreReal
<1>3. e \in 0..MaxEpochs /\ 0 \in 0..MaxHostOps
  BY <1>1, SystemAssumption, SMT DEF Epochs
<1>4. panel' \in PanelRows /\ panel'.mounted = panel.mounted /\ panel'.waiting = panel.waiting
  <2>1. ASSUME NEW p \in PanelRows
        PROVE  LET r == [p EXCEPT !.working = TRUE, !.epoch = e, !.stop = FALSE,
                                  !.ignored = 0]
               IN  r \in PanelRows /\ r.mounted = p.mounted /\ r.waiting = p.waiting
    BY <1>3, Zenon DEF PanelRows
  <2> QED
    BY <1>1, <2>1, Zenon DEF ScreenInv
<1>5. row \in WaitRows /\ row.at = "posted"
  <2>1. NoOperation \in Operation
    BY SystemAssumption, SMT DEF Operation, NoOperation
  <2>2. NoWait \in WaitRows
    BY <1>3, <2>1, Zenon DEF NoWait, WaitRows, WaitPcs
  <2> QED
    BY <2>2, Zenon DEF WaitRows, WaitPcs
<1> HIDE DEF row
<1>6. /\ waits' \in [Epochs -> WaitRows] /\ waits'[e].at = "posted"
      /\ \A f \in Epochs : f # e => waits'[f] = waits[f]
  BY <1>1, <1>5 DEF ScreenInv
<1>7. \A f \in Epochs :
          /\ waits'[f].at = "accepted" => IsActive(waits'[f].got)
          /\ waits'[f].at \in {"accepted", "looping", "asked", "answered"} =>
                waits'[f].op # 0
  BY <1>6, Zenon DEF ScreenInv
<1>8. WaitsAreReal'
  BY <1>2, <1>4, Zenon DEF WaitsAreReal
<1> QED
  BY <1>1, <1>4, <1>6, <1>7, <1>8, Zenon DEF ScreenInv, Nothing, IsActive

LEMMA HostAnswersPostKeeps ==
    ASSUME ScreenInv, NEW e \in Epochs, HostAnswersPost(e)
    PROVE  ScreenInv'
<1>1. waits[e].at = "posted" /\ readers' = readers
  BY DEF HostAnswersPost
<1>2. host \in Operation /\ NoOperation \in Operation
  BY ActiveNumbered DEF ScreenInv
<1>3. CASE IsActive(host) \/ host.op = MaxHostOps
  <2>1. EndWait(e, NoOperation) /\ host' = host
    BY <1>3 DEF HostAnswersPost
  <2> QED
    BY <1>1, <1>2, <2>1, EndWaitKeeps
<1>4. CASE ~ (IsActive(host) \/ host.op = MaxHostOps)
  <2>1. host' = [op |-> host.op + 1, phase |-> "active"]
    BY <1>4 DEF HostAnswersPost, HostBegins
  <2>2. host.op + 1 \in 1..MaxHostOps
    BY <1>2, <1>4, ActiveNumbered, SystemAssumption, SMT
  <2>3. host' \in Operation /\ IsActive(host') /\ host'.op = host.op + 1
    BY <2>1, <2>2, Zenon DEF Operation, IsActive
  <2>4. CASE EndWait(e, NoOperation)
    BY <1>1, <1>2, <2>3, <2>4, EndWaitKeeps
  <2>5. CASE /\ waits' = [waits EXCEPT ![e].at = "accepted", ![e].op = host'.op,
                                       ![e].got = host']
             /\ UNCHANGED <<panel, stirs>>
    <3> DEFINE row == [waits[e] EXCEPT !.at = "accepted", !.op = host'.op, !.got = host']
    <3>1. waits' = [waits EXCEPT ![e] = row] /\ panel' = panel
      BY <2>5, Zenon
    <3>2. waits[e] \in WaitRows
      BY DEF ScreenInv
    <3>3. host'.op \in 0..MaxHostOps /\ host'.op # 0
      BY <2>2, <2>3, SystemAssumption, SMT
    <3>4. row \in WaitRows /\ row.at = "accepted" /\ row.op = host'.op /\ row.got = host'
      BY <2>3, <3>2, <3>3, Zenon DEF WaitRows, WaitPcs
    <3> HIDE DEF row
    <3>5. /\ waits' \in [Epochs -> WaitRows] /\ waits'[e] = row
          /\ \A f \in Epochs : f # e => waits'[f] = waits[f]
      BY <3>1, <3>4 DEF ScreenInv
    <3>6. \A f \in Epochs :
              /\ waits'[f].at = "accepted" => IsActive(waits'[f].got)
              /\ waits'[f].at \in {"accepted", "looping", "asked", "answered"} =>
                    waits'[f].op # 0
              /\ waits[f].at \in {"looping", "asked", "answered"} =>
                    waits'[f].at \in {"looping", "asked", "answered"}
      <4> TAKE f \in Epochs
      <4>1. CASE f = e
        BY <1>1, <2>3, <3>3, <3>4, <3>5, <4>1, Zenon
      <4>2. CASE f # e
        BY <3>5, <4>2, Zenon DEF ScreenInv
      <4> QED
        BY <4>1, <4>2
    <3>7. panel' \in PanelRows /\ readers' \in [StatusReaders -> StatusReaderRows]
          /\ \A r \in StatusReaders : Nothing(readers'[r].got)
      BY <1>1, <3>1, Zenon DEF ScreenInv
    <3> QED
      BY <2>3, <3>1, <3>5, <3>6, <3>7, QuietScreen, Zenon
  <2> QED
    BY <1>4, <2>4, <2>5 DEF HostAnswersPost
<1> QED
  BY <1>3, <1>4


LEMMA ActionAcceptedKeeps ==
    ASSUME ScreenInv, NEW e \in Epochs, ActionAccepted(e)
    PROVE  ScreenInv'
<1> DEFINE recorded == Recorded(waits[e].got)
<1>1. /\ waits[e].at = "accepted" /\ WaitTo(e, "looping")
      /\ panel' = IF Current(e) THEN [recorded EXCEPT !.waiting = TRUE] ELSE panel
      /\ host' = host /\ readers' = readers
  BY DEF ActionAccepted
<1>2. /\ waits \in [Epochs -> WaitRows] /\ panel \in PanelRows /\ host \in Operation
      /\ IsActive(waits[e].got) /\ waits[e].op # 0
  BY <1>1, Zenon DEF ScreenInv
<1>3. waits[e].got \in Operation
  BY <1>2, Zenon DEF WaitRows
<1>4. /\ recorded \in PanelRows /\ recorded.mounted = panel.mounted
      /\ recorded.epoch = panel.epoch /\ recorded.shown = waits[e].got
  BY <1>2, <1>3, ActiveNumbered, RecordedRow, Zenon
<1> HIDE DEF recorded
<1>5. /\ waits' \in [Epochs -> WaitRows] /\ waits'[e].at = "looping"
      /\ waits'[e].op = waits[e].op
      /\ \A f \in Epochs : f # e => waits'[f] = waits[f]
  BY <1>1, <1>2, WaitMoves DEF WaitPcs
<1>6. \A f \in Epochs :
          /\ waits'[f].at = "accepted" => IsActive(waits'[f].got)
          /\ waits'[f].at \in {"accepted", "looping", "asked", "answered"} =>
                waits'[f].op # 0
  BY <1>2, <1>5, Zenon DEF ScreenInv
<1>7. panel' \in PanelRows /\ WaitsAreReal'
  <2>1. CASE Current(e)
    <3>1. /\ panel' \in PanelRows /\ panel'.epoch = panel.epoch
          /\ panel'.shown = waits[e].got
      BY <1>1, <1>4, <2>1, Zenon DEF PanelRows
    <3> QED
      BY <1>2, <1>5, <2>1, <3>1, Zenon DEF WaitsAreReal, Current, IsActive
  <2>2. CASE ~ Current(e)
    <3>1. panel' = panel /\ WaitsAreReal
      BY <1>1, <2>2, Zenon DEF ScreenInv
    <3> QED
      BY <1>2, <1>5, <2>2, <3>1, Zenon DEF WaitsAreReal, Current, IsActive
  <2> QED
    BY <2>1, <2>2
<1> QED
  BY <1>1, <1>2, <1>5, <1>6, <1>7, Zenon DEF ScreenInv, Nothing, IsActive

\* A wait that goes on, while the panel shows the same or a later word of the
\* operation.
LEMMA WaitGoesOn ==
    ASSUME ScreenInv, NEW e \in Epochs, NEW pc \in {"looping", "asked"},
           WaitTo(e, pc), waits[e].at \in {"looping", "asked", "answered"},
           panel' = panel, host' = host, readers' = readers
    PROVE  ScreenInv'
<1>1. waits \in [Epochs -> WaitRows] /\ pc \in WaitPcs
  BY DEF ScreenInv, WaitPcs
<1>2. /\ waits' \in [Epochs -> WaitRows] /\ waits'[e].at = pc
      /\ waits'[e].op = waits[e].op
      /\ \A f \in Epochs : f # e => waits'[f] = waits[f]
  BY <1>1, WaitMoves
<1>3. pc # "accepted"
  OBVIOUS
<1>4. \A f \in Epochs :
          /\ waits'[f].at = "accepted" => IsActive(waits'[f].got)
          /\ waits'[f].at \in {"accepted", "looping", "asked", "answered"} =>
                waits'[f].op # 0
          /\ waits[f].at \in {"looping", "asked", "answered"} =>
                waits'[f].at \in {"looping", "asked", "answered"}
  <2> TAKE f \in Epochs
  <2>1. CASE f = e
    BY <1>2, <1>3, <2>1, Zenon DEF ScreenInv
  <2>2. CASE f # e
    BY <1>2, <2>2, Zenon DEF ScreenInv
  <2> QED
    BY <2>1, <2>2
<1>5. /\ host' \in Operation /\ panel' \in PanelRows
      /\ readers' \in [StatusReaders -> StatusReaderRows]
      /\ \A r \in StatusReaders : Nothing(readers'[r].got)
  BY Zenon DEF ScreenInv
<1> QED
  BY <1>2, <1>4, <1>5, QuietScreen, Zenon

LEMMA AskAgainKeeps ==
    ASSUME ScreenInv, NEW e \in Epochs, AskAgain(e)
    PROVE  ScreenInv'
<1>1. waits[e].at = "looping" /\ host' = host /\ readers' = readers
  BY DEF AskAgain
<1>2. NoOperation \in Operation /\ host' \in Operation
  BY <1>1, ActiveNumbered DEF ScreenInv
<1>3. CASE EndWait(e, NoOperation)
  BY <1>1, <1>2, <1>3, EndWaitKeeps
<1>4. CASE WaitTo(e, "asked") /\ UNCHANGED <<panel, stirs>>
  BY <1>1, <1>4, WaitGoesOn
<1> QED
  BY <1>3, <1>4 DEF AskAgain

LEMMA HostAnswersWaitKeeps ==
    ASSUME ScreenInv, NEW e \in Epochs, HostAnswersWait(e)
    PROVE  ScreenInv'
<1> DEFINE answer == IF host.op = waits[e].op THEN host
                     ELSE [op |-> waits[e].op, phase |-> "succeeded"]
           row == [waits[e] EXCEPT !.at = "answered", !.got = answer]
<1>1. /\ waits[e].at = "asked" /\ host' = host /\ panel' = panel /\ readers' = readers
  BY DEF HostAnswersWait
<1>2. CASE WaitTo(e, "looping")
  BY <1>1, <1>2, WaitGoesOn
<1>3. CASE waits' = [waits EXCEPT ![e].at = "answered", ![e].got = answer]
  <2>1. /\ waits \in [Epochs -> WaitRows] /\ waits[e] \in WaitRows /\ waits[e].op # 0
        /\ host \in Operation
    BY <1>1, Zenon DEF ScreenInv
  <2>2. waits[e].op \in 1..MaxHostOps
    <3>1. waits[e].op \in 0..MaxHostOps
      BY <2>1, Zenon DEF WaitRows
    <3> QED
      BY <2>1, <3>1, SystemAssumption, SMT
  <2>3. answer \in Operation
    BY <2>1, <2>2, Zenon DEF Operation
  <2> HIDE DEF answer
  <2>4. row \in WaitRows /\ row.at = "answered" /\ row.op = waits[e].op
    BY <2>1, <2>3, Zenon DEF WaitRows, WaitPcs
  <2>5. waits' = [waits EXCEPT ![e] = row]
    BY <1>3, Zenon
  <2> HIDE DEF row
  <2>6. /\ waits' \in [Epochs -> WaitRows] /\ waits'[e] = row
        /\ \A f \in Epochs : f # e => waits'[f] = waits[f]
    BY <2>1, <2>4, <2>5
  <2>7. \A f \in Epochs :
            /\ waits'[f].at = "accepted" => IsActive(waits'[f].got)
            /\ waits'[f].at \in {"accepted", "looping", "asked", "answered"} =>
                  waits'[f].op # 0
            /\ waits[f].at \in {"looping", "asked", "answered"} =>
                  waits'[f].at \in {"looping", "asked", "answered"}
    <3> TAKE f \in Epochs
    <3>1. CASE f = e
      BY <2>1, <2>4, <2>6, <3>1, Zenon
    <3>2. CASE f # e
      BY <2>6, <3>2, Zenon DEF ScreenInv
    <3> QED
      BY <3>1, <3>2
  <2>8. /\ host' \in Operation /\ panel' \in PanelRows
        /\ readers' \in [StatusReaders -> StatusReaderRows]
        /\ \A r \in StatusReaders : Nothing(readers'[r].got)
    BY <1>1, Zenon DEF ScreenInv
  <2> QED
    BY <1>1, <2>6, <2>7, <2>8, QuietScreen, Zenon
<1> QED
  BY <1>2, <1>3 DEF HostAnswersWait

LEMMA WaitHearsKeeps ==
    ASSUME ScreenInv, NEW e \in Epochs, WaitHears(e)
    PROVE  ScreenInv'
<1> DEFINE recorded == Recorded(waits[e].got)
<1>1. waits[e].at = "answered" /\ host' = host /\ readers' = readers
  BY DEF WaitHears
<1>2. /\ waits \in [Epochs -> WaitRows] /\ panel \in PanelRows /\ host \in Operation
      /\ waits[e].op # 0
  BY <1>1, Zenon DEF ScreenInv
<1>3. waits[e].got \in Operation
  BY <1>2, Zenon DEF WaitRows
<1>4. CASE ~ IsActive(waits[e].got)
  <2>1. EndWait(e, waits[e].got)
    BY <1>4 DEF WaitHears
  <2> QED
    BY <1>1, <1>2, <1>3, <2>1, EndWaitKeeps
<1>5. CASE IsActive(waits[e].got)
  <2>1. /\ WaitTo(e, "looping")
        /\ panel' = IF Current(e) THEN recorded ELSE panel
    BY <1>5 DEF WaitHears
  <2>2. /\ recorded \in PanelRows /\ recorded.mounted = panel.mounted
        /\ recorded.waiting = panel.waiting
        /\ recorded.epoch = panel.epoch /\ recorded.shown = waits[e].got
    BY <1>2, <1>3, <1>5, ActiveNumbered, RecordedRow, Zenon
  <2> HIDE DEF recorded
  <2>3. /\ waits' \in [Epochs -> WaitRows] /\ waits'[e].at = "looping"
        /\ waits'[e].op = waits[e].op
        /\ \A f \in Epochs : f # e => waits'[f] = waits[f]
    BY <1>2, <2>1, WaitMoves DEF WaitPcs
  <2>4. \A f \in Epochs :
            /\ waits'[f].at = "accepted" => IsActive(waits'[f].got)
            /\ waits'[f].at \in {"accepted", "looping", "asked", "answered"} =>
                  waits'[f].op # 0
    BY <1>2, <2>3, Zenon DEF ScreenInv
  <2>5. panel' \in PanelRows /\ WaitsAreReal'
    <3>1. CASE Current(e)
      BY <1>5, <2>1, <2>2, <2>3, <3>1, Zenon DEF WaitsAreReal, Current, IsActive
    <3>2. CASE ~ Current(e)
      <4>1. panel' = panel /\ WaitsAreReal
        BY <2>1, <3>2, Zenon DEF ScreenInv
      <4> QED
        BY <1>2, <2>3, <3>2, <4>1, Zenon DEF WaitsAreReal, Current, IsActive
    <3> QED
      BY <3>1, <3>2
  <2> QED
    BY <1>1, <1>2, <2>3, <2>4, <2>5, Zenon DEF ScreenInv, Nothing, IsActive
<1> QED
  BY <1>4, <1>5

-----------------------------------------------------------------------------
LEMMA ReaderMoves ==
    ASSUME readers \in [StatusReaders -> StatusReaderRows],
           \A s \in StatusReaders : Nothing(readers[s].got),
           NEW r \in StatusReaders, NEW pc \in StatusReaderPcs,
           NEW operation \in Operation, Nothing(operation),
           readers' = [readers EXCEPT ![r] = [at |-> pc, got |-> operation]]
    PROVE  /\ readers' \in [StatusReaders -> StatusReaderRows]
           /\ \A s \in StatusReaders : Nothing(readers'[s].got)
<1> DEFINE row == [at |-> pc, got |-> operation]
<1>1. row \in StatusReaderRows /\ row.got = operation
  BY Zenon DEF StatusReaderRows
<1> HIDE DEF row
<1>2. /\ readers' \in [StatusReaders -> StatusReaderRows] /\ readers'[r] = row
      /\ \A s \in StatusReaders : s # r => readers'[s] = readers[s]
  BY <1>1 DEF row
<1>3. ASSUME NEW s \in StatusReaders
      PROVE  Nothing(readers'[s].got)
  BY <1>1, <1>2, Zenon DEF Nothing, IsActive
<1> QED
  BY <1>2, <1>3

LEMMA ReaderRests ==
    ASSUME ScreenInv, NEW r \in StatusReaders, NEW pc \in StatusReaderPcs,
           StatusReaderTo(r, pc)
    PROVE  /\ readers' \in [StatusReaders -> StatusReaderRows]
           /\ \A s \in StatusReaders : Nothing(readers'[s].got)
<1>1. NoOperation \in Operation /\ Nothing(NoOperation)
  BY ActiveNumbered, SystemAssumption, SMT DEF Nothing, Operation
<1>2. /\ readers \in [StatusReaders -> StatusReaderRows]
      /\ \A s \in StatusReaders : Nothing(readers[s].got)
      /\ readers' = [readers EXCEPT ![r] = [at |-> pc, got |-> NoOperation]]
  BY DEF ScreenInv, StatusReaderTo
<1> QED
  BY <1>1, <1>2, ReaderMoves

LEMMA HostAnswersReaderKeeps ==
    ASSUME ScreenInv, NEW r \in StatusReaders, HostAnswersReader(r)
    PROVE  ScreenInv'
<1>1. /\ readers' = [readers EXCEPT ![r] = [at |-> "answered", got |-> Reported]]
      /\ host' = host /\ panel' = panel /\ waits' = waits
  BY DEF HostAnswersReader
<1>2. Reported \in Operation /\ Nothing(Reported)
  BY ActiveNumbered, Zenon DEF Reported, Nothing, ScreenInv
<1>3. "answered" \in StatusReaderPcs
  BY DEF StatusReaderPcs
<1>4. /\ readers' \in [StatusReaders -> StatusReaderRows]
      /\ \A s \in StatusReaders : Nothing(readers'[s].got)
  BY <1>1, <1>2, <1>3, ReaderMoves DEF ScreenInv
<1>5. panel' \in PanelRows
  BY <1>1 DEF ScreenInv
<1> QED
  BY <1>1, <1>4, <1>5, QuietPanel

LEMMA FollowedKeeps ==
    ASSUME ScreenInv, NEW operation \in Operation, Nothing(operation),
           Followed(operation), host' = host,
           readers' \in [StatusReaders -> StatusReaderRows],
           \A s \in StatusReaders : Nothing(readers'[s].got)
    PROVE  ScreenInv'
<1>0. PICK e : e = panel.epoch + 1
  OBVIOUS
<1> DEFINE recorded == Recorded(operation)
           row == [kind |-> "follow", op |-> operation.op, at |-> "looping",
                   got |-> NoOperation]
<1>1. /\ waits \in [Epochs -> WaitRows] /\ panel \in PanelRows /\ host \in Operation
      /\ WaitsAreReal
  BY Zenon DEF ScreenInv
<1>2. /\ recorded \in PanelRows
      /\ recorded.mounted = panel.mounted /\ recorded.waiting = panel.waiting
      /\ recorded.epoch = panel.epoch
      /\ operation.op # 0 => recorded.shown = operation
      /\ operation.op = 0 /\ panel.waiting => recorded.shown = panel.shown
  BY <1>1, RecordedRow
<1>3. operation.op # 0 <=> IsActive(operation)
  BY ActiveNumbered, SMT DEF Nothing
<1> HIDE DEF recorded
<1>4. CASE /\ IsActive(operation) /\ operation.op # panel.ignored
           /\ ~ panel.waiting /\ ~ panel.working /\ e \in Epochs
  <2>1. /\ panel' = [recorded EXCEPT !.epoch = e, !.stop = FALSE, !.waiting = TRUE]
        /\ waits' = [waits EXCEPT ![e] = row]
    BY <1>0, <1>4, Zenon DEF Followed, recorded
  <2>2. e \in 0..MaxEpochs
    BY <1>4, SystemAssumption, SMT DEF Epochs
  <2>3. /\ panel' \in PanelRows /\ panel'.epoch = e /\ panel'.shown = recorded.shown
    BY <1>2, <2>1, <2>2, Zenon DEF PanelRows
  <2>4. row \in WaitRows /\ row.at = "looping" /\ row.op = operation.op
    BY ActiveNumbered, Zenon DEF WaitRows, WaitPcs
  <2> HIDE DEF row
  <2>5. /\ waits' \in [Epochs -> WaitRows] /\ waits'[e] = row
        /\ \A f \in Epochs : f # e => waits'[f] = waits[f]
    BY <1>1, <1>4, <2>1, <2>4
  <2>6. \A f \in Epochs :
            /\ waits'[f].at = "accepted" => IsActive(waits'[f].got)
            /\ waits'[f].at \in {"accepted", "looping", "asked", "answered"} =>
                  waits'[f].op # 0
    <3> TAKE f \in Epochs
    <3>1. CASE f = e
      BY <1>3, <1>4, <2>4, <2>5, <3>1, Zenon
    <3>2. CASE f # e
      BY <2>5, <3>2, Zenon DEF ScreenInv
    <3> QED
      BY <3>1, <3>2
  <2>7. WaitsAreReal'
    BY <1>2, <1>3, <1>4, <2>3, <2>4, <2>5, Zenon DEF WaitsAreReal, IsActive
  <2> QED
    BY <1>1, <2>3, <2>5, <2>6, <2>7, Zenon DEF ScreenInv
<1>5. CASE ~ (/\ IsActive(operation) /\ operation.op # panel.ignored
              /\ ~ panel.waiting /\ ~ panel.working /\ e \in Epochs)
  <2>1. panel' = recorded /\ waits' = waits
    BY <1>0, <1>5, Zenon DEF Followed, recorded
  <2>2. WaitsAreReal'
    BY <1>1, <1>2, <1>3, <2>1, Zenon DEF WaitsAreReal, IsActive
  <2>3. \A f \in Epochs :
            /\ waits'[f].at = "accepted" => IsActive(waits'[f].got)
            /\ waits'[f].at \in {"accepted", "looping", "asked", "answered"} =>
                  waits'[f].op # 0
    BY <2>1, Zenon DEF ScreenInv
  <2> QED
    BY <1>1, <1>2, <2>1, <2>2, <2>3, Zenon DEF ScreenInv
<1> QED
  BY <1>4, <1>5


\* What the readers of the host's status hold, while they rest.
LEMMA ReadersStay ==
    ASSUME ScreenInv, readers' = readers
    PROVE  /\ readers' \in [StatusReaders -> StatusReaderRows]
           /\ \A s \in StatusReaders : Nothing(readers'[s].got)
BY Zenon DEF ScreenInv, Nothing, IsActive

\* A step of the panel alone, that begins no wait.
LEMMA PanelAlone ==
    ASSUME ScreenInv, host' = host, waits' = waits, readers' = readers,
           panel' \in PanelRows, panel'.mounted => panel.mounted,
           panel'.mounted /\ panel'.waiting =>
               panel.waiting /\ panel'.epoch = panel.epoch /\ panel'.shown = panel.shown
    PROVE  ScreenInv'
<1>1. /\ readers' \in [StatusReaders -> StatusReaderRows]
      /\ \A s \in StatusReaders : Nothing(readers'[s].got)
  BY ReadersStay
<1> QED
  BY <1>1, QuietPanel

LEMMA StopWaitingKeeps ==
    ASSUME ScreenInv, StopWaiting
    PROVE  ScreenInv'
<1>1. /\ panel' = [panel EXCEPT !.stop = TRUE, !.ignored = panel.shown.op]
      /\ host' = host /\ waits' = waits /\ readers' = readers
  BY DEF StopWaiting
<1>2. panel \in PanelRows
  BY DEF ScreenInv
<1>3. panel.shown.op \in 0..MaxHostOps
  BY <1>2, ActiveNumbered, Zenon DEF PanelRows
<1>4. /\ panel' \in PanelRows /\ panel'.mounted = panel.mounted
      /\ panel'.waiting = panel.waiting /\ panel'.epoch = panel.epoch
      /\ panel'.shown = panel.shown
  BY <1>1, <1>2, <1>3, Zenon DEF PanelRows
<1> QED
  BY <1>1, <1>4, PanelAlone, Zenon

LEMMA CommandKeeps ==
    ASSUME ScreenInv, SendCommand \/ CommandReturns
    PROVE  ScreenInv'
<1>1. panel \in PanelRows
  BY DEF ScreenInv
<1>2. ASSUME NEW w \in BOOLEAN, NEW c \in BOOLEAN
      PROVE  LET r == [panel EXCEPT !.working = w, !.command = c]
             IN  /\ r \in PanelRows /\ r.mounted = panel.mounted
                 /\ r.waiting = panel.waiting /\ r.epoch = panel.epoch
                 /\ r.shown = panel.shown
  BY <1>1, Zenon DEF PanelRows
<1>3. /\ panel' \in PanelRows /\ panel'.mounted = panel.mounted
      /\ panel'.waiting = panel.waiting /\ panel'.epoch = panel.epoch
      /\ panel'.shown = panel.shown
  <2>1. CASE SendCommand
    <3>1. panel' = [panel EXCEPT !.working = TRUE, !.command = TRUE]
      BY <2>1 DEF SendCommand
    <3> QED
      BY <1>2, <3>1, Zenon
  <2>2. CASE CommandReturns
    <3> DEFINE w == IF panel.mounted THEN FALSE ELSE panel.working
    <3>1. panel' = [panel EXCEPT !.command = FALSE, !.working = w]
      BY <2>2, Zenon DEF CommandReturns
    <3>2. w \in BOOLEAN
      BY <1>1, Zenon DEF PanelRows
    <3> HIDE DEF w
    <3> QED
      BY <1>1, <3>1, <3>2, Zenon DEF PanelRows
  <2> QED
    BY <2>1, <2>2
<1>4. host' = host /\ waits' = waits /\ readers' = readers
  BY DEF SendCommand, CommandReturns
<1> QED
  BY <1>3, <1>4, PanelAlone, Zenon

LEMMA AwayKeeps ==
    ASSUME ScreenInv, GoInactive \/ Leave
    PROVE  ScreenInv'
<1>0. PICK e : e = panel.epoch + 1
  OBVIOUS
<1>1. panel \in PanelRows /\ panel.epoch \in 0..MaxEpochs
  BY Zenon DEF ScreenInv, PanelRows
<1>2. e \in 0..MaxEpochs
  BY <1>0, <1>1, SystemAssumption, SMT DEF GoInactive, Leave
<1>3. host' = host /\ waits' = waits /\ readers' = readers
  BY DEF GoInactive, Leave
<1>4. panel' \in PanelRows /\ (panel'.mounted => panel.mounted /\ ~ panel'.waiting)
  <2>1. CASE GoInactive
    <3> DEFINE w == IF panel.mounted THEN FALSE ELSE panel.waiting
    <3>1. panel' = [panel EXCEPT !.active = FALSE, !.stop = TRUE, !.epoch = e,
                                 !.waiting = w]
      BY <1>0, <2>1, Zenon DEF GoInactive
    <3>2. w \in BOOLEAN /\ (panel.mounted => ~ w)
      BY <1>1, Zenon DEF PanelRows
    <3> HIDE DEF w
    <3>3. panel' \in PanelRows /\ panel'.mounted = panel.mounted /\ panel'.waiting = w
      BY <1>1, <1>2, <3>1, <3>2, Zenon DEF PanelRows
    <3> QED
      BY <3>2, <3>3, Zenon
  <2>2. CASE Leave
    <3>1. panel' = [panel EXCEPT !.mounted = FALSE, !.stop = TRUE, !.epoch = e]
      BY <1>0, <2>2, Zenon DEF Leave
    <3>2. panel' \in PanelRows /\ panel'.mounted = FALSE
      BY <1>1, <1>2, <3>1, Zenon DEF PanelRows
    <3> QED
      BY <3>2, Zenon
  <2> QED
    BY <2>1, <2>2
<1> QED
  BY <1>3, <1>4, PanelAlone, Zenon

LEMMA BeginReaderKeeps ==
    ASSUME ScreenInv, NEW r \in StatusReaders, BeginRefresh(r) \/ BeginPoll
    PROVE  ScreenInv'
<1>1. PICK s \in StatusReaders : StatusReaderTo(s, "asked")
  BY Zenon DEF BeginRefresh, BeginPoll, StatusReaders
<1>2. /\ readers' \in [StatusReaders -> StatusReaderRows]
      /\ \A t \in StatusReaders : Nothing(readers'[t].got)
  BY <1>1, ReaderRests DEF StatusReaderPcs
<1>3. panel \in PanelRows
  BY DEF ScreenInv
<1>4. /\ panel' \in PanelRows /\ panel'.mounted = panel.mounted
      /\ panel'.waiting = panel.waiting /\ panel'.epoch = panel.epoch
      /\ panel'.shown = panel.shown
  <2>1. CASE panel' = panel
    BY <1>3, <2>1
  <2>2. CASE panel' = [panel EXCEPT !.loading = TRUE]
    BY <1>3, <2>2, Zenon DEF PanelRows
  <2>3. CASE panel' = [panel EXCEPT !.loading = TRUE, !.due = FALSE]
    BY <1>3, <2>3, Zenon DEF PanelRows
  <2> QED
    BY <2>1, <2>2, <2>3 DEF BeginRefresh, BeginPoll
<1>5. host' = host /\ waits' = waits
  BY DEF BeginRefresh, BeginPoll
<1> QED
  BY <1>2, <1>4, <1>5, QuietPanel, Zenon

LEMMA RestedRow ==
    ASSUME panel \in PanelRows, NEW r \in StatusReaders
    PROVE  /\ Rested(r) \in PanelRows /\ Rested(r).mounted = panel.mounted
           /\ Rested(r).waiting = panel.waiting /\ Rested(r).epoch = panel.epoch
           /\ Rested(r).shown = panel.shown
<1>1. CASE Rested(r) = panel
  BY <1>1
<1>2. CASE Rested(r) = [panel EXCEPT !.loading = FALSE]
  BY <1>2, Zenon DEF PanelRows
<1> QED
  BY <1>1, <1>2, Zenon DEF Rested

LEMMA ReaderHearsKeeps ==
    ASSUME ScreenInv, NEW r \in StatusReaders, ReaderHears(r)
    PROVE  ScreenInv'
<1>1. /\ readers' \in [StatusReaders -> StatusReaderRows]
      /\ \A s \in StatusReaders : Nothing(readers'[s].got)
  <2>1. PICK pc \in StatusReaderPcs : StatusReaderTo(r, pc)
    BY Zenon DEF ReaderHears, StatusReaderPcs
  <2> QED
    BY <2>1, ReaderRests
<1>2. panel \in PanelRows /\ readers[r].got \in Operation /\ Nothing(readers[r].got)
  BY Zenon DEF ScreenInv, StatusReaderRows
<1>3. host' = host
  BY DEF ReaderHears
<1>4. CASE ~ panel.mounted \/ ~ panel.active
  <2>1. waits' = waits /\ (panel' = panel \/ panel' = Rested(r))
    BY <1>4, Zenon DEF ReaderHears
  <2>2. /\ panel' \in PanelRows /\ panel'.mounted = panel.mounted
        /\ panel'.waiting = panel.waiting /\ panel'.epoch = panel.epoch
        /\ panel'.shown = panel.shown
    <3>1. CASE panel' = panel
      BY <1>2, <3>1
    <3>2. CASE panel' = Rested(r)
      BY <1>2, <3>2, RestedRow, Zenon
    <3> QED
      BY <2>1, <3>1, <3>2
  <2> QED
    BY <1>1, <1>3, <2>1, <2>2, QuietPanel, Zenon
<1>5. CASE Followed(readers[r].got)
  BY <1>1, <1>2, <1>3, <1>5, FollowedKeeps
<1>6. CASE UNCHANGED <<panel, waits>>
  BY <1>1, <1>2, <1>3, <1>6, QuietPanel, Zenon
<1> QED
  BY <1>4, <1>5, <1>6, Zenon DEF ReaderHears

LEMMA EndReaderKeeps ==
    ASSUME ScreenInv, NEW r \in StatusReaders, EndReader(r)
    PROVE  ScreenInv'
<1>1. /\ panel' = Rested(r) /\ StatusReaderTo(r, "idle")
      /\ host' = host /\ waits' = waits
  BY DEF EndReader
<1>2. /\ readers' \in [StatusReaders -> StatusReaderRows]
      /\ \A s \in StatusReaders : Nothing(readers'[s].got)
  BY <1>1, ReaderRests DEF StatusReaderPcs
<1>3. panel \in PanelRows
  BY DEF ScreenInv
<1>4. /\ panel' \in PanelRows /\ panel'.mounted = panel.mounted
      /\ panel'.waiting = panel.waiting /\ panel'.epoch = panel.epoch
      /\ panel'.shown = panel.shown
  BY <1>1, <1>3, RestedRow, Zenon
<1> QED
  BY <1>1, <1>2, <1>4, QuietPanel, Zenon

LEMMA ComeBackKeeps ==
    ASSUME ScreenInv, ComeBack
    PROVE  ScreenInv'
<1>1. panel \in PanelRows
  BY DEF ScreenInv
<1>2. /\ panel' \in PanelRows /\ panel'.mounted = panel.mounted
      /\ panel'.waiting = panel.waiting /\ panel'.epoch = panel.epoch
      /\ panel'.shown = panel.shown
  <2>1. CASE panel' = [panel EXCEPT !.active = TRUE, !.loading = TRUE]
    BY <1>1, <2>1, Zenon DEF PanelRows
  <2>2. CASE panel' = [panel EXCEPT !.active = TRUE]
    BY <1>1, <2>2, Zenon DEF PanelRows
  <2> QED
    BY <2>1, <2>2 DEF ComeBack
<1>3. /\ readers' \in [StatusReaders -> StatusReaderRows]
      /\ \A s \in StatusReaders : Nothing(readers'[s].got)
  <2>1. CASE readers' = readers
    BY <2>1, ReadersStay
  <2>2. CASE StatusReaderTo("resumed", "asked")
    BY <2>2, ReaderRests DEF StatusReaders, StatusReaderPcs
  <2> QED
    BY <2>1, <2>2 DEF ComeBack
<1>4. host' = host /\ waits' = waits
  BY DEF ComeBack
<1> QED
  BY <1>2, <1>3, <1>4, QuietPanel, Zenon

-----------------------------------------------------------------------------

LEMMA ScreenInvInit ==
    ASSUME SystemInit
    PROVE  ScreenInv
<1>1. NoOperation \in Operation /\ Nothing(NoOperation) /\ 0 \in 0..MaxHostOps
      /\ 0 \in 0..MaxEpochs
  BY SystemAssumption, SMT DEF Operation, NoOperation, Nothing
<1>2. panel \in PanelRows /\ panel.waiting = FALSE
  BY <1>1, Zenon DEF SystemInit, PanelRows
<1>3. NoWait \in WaitRows /\ NoWait.at = "none"
  BY <1>1, Zenon DEF NoWait, WaitRows, WaitPcs
<1>4. /\ waits \in [Epochs -> WaitRows]
      /\ \A e \in Epochs : waits[e].at = "none"
  BY <1>3, Zenon DEF SystemInit
<1>5. /\ readers \in [StatusReaders -> StatusReaderRows]
      /\ \A r \in StatusReaders : Nothing(readers[r].got)
  <2> DEFINE idle == [at |-> "idle", got |-> NoOperation]
  <2>1. idle \in StatusReaderRows /\ idle.got = NoOperation
    BY <1>1, Zenon DEF StatusReaderRows, StatusReaderPcs
  <2>2. readers = [r \in StatusReaders |-> idle]
    BY DEF SystemInit
  <2> HIDE DEF idle
  <2> QED
    BY <1>1, <2>1, <2>2, Zenon
<1>6. host \in Operation
  BY <1>1 DEF SystemInit
<1>7. WaitsAreReal
  BY <1>2, Zenon DEF WaitsAreReal
<1> QED
  BY <1>2, <1>4, <1>5, <1>6, <1>7, Zenon DEF ScreenInv

LEMMA ScreenInvStep ==
    ASSUME ScreenInv, [SystemNext]_appSystemVars
    PROVE  ScreenInv'
<1>1. CASE UNCHANGED appSystemVars
  <2>1. host' = host /\ panel' = panel /\ waits' = waits /\ readers' = readers
    BY <1>1 DEF appSystemVars
  <2>2. panel' \in PanelRows
    BY <2>1 DEF ScreenInv
  <2> QED
    BY <2>1, <2>2, PanelAlone
<1>2. CASE OtherBegins \/ HostEnds
  BY <1>2, HostKeeps
<1>3. CASE PressAction
  BY <1>3, PressActionKeeps
<1>4. CASE StopWaiting
  BY <1>4, StopWaitingKeeps
<1>5. CASE SendCommand \/ CommandReturns
  BY <1>5, CommandKeeps
<1>6. CASE BeginPoll
  BY <1>6, BeginReaderKeeps DEF StatusReaders
<1>7. CASE GoInactive \/ Leave
  BY <1>7, AwayKeeps
<1>8. CASE ComeBack
  BY <1>8, ComeBackKeeps
<1>9. ASSUME NEW e \in Epochs, WaitStep(e)
      PROVE  ScreenInv'
  BY <1>9, HostAnswersPostKeeps, ActionAcceptedKeeps, AskAgainKeeps,
     HostAnswersWaitKeeps, WaitHearsKeeps DEF WaitStep
<1>10. ASSUME NEW r \in StatusReaders, BeginRefresh(r) \/ ReaderStep(r)
       PROVE  ScreenInv'
  BY <1>10, BeginReaderKeeps, HostAnswersReaderKeeps, ReaderHearsKeeps, EndReaderKeeps
     DEF ReaderStep
<1> QED
  BY <1>1, <1>2, <1>3, <1>4, <1>5, <1>6, <1>7, <1>8, <1>9, <1>10 DEF SystemNext

\* While the system screen says it waits, a call of the current epoch is there
\* to clear that, and the operation is shown as active, for every number of
\* operations, actions and late answers (_recordLauncherStatus,
\* _followLauncherOperation).
THEOREM ScreenWaitsAreReal == SystemSpec => []WaitsAreReal
<1>1. SystemInit => ScreenInv
  BY ScreenInvInit
<1>2. ScreenInv /\ [SystemNext]_appSystemVars => ScreenInv'
  BY ScreenInvStep
<1>3. ScreenInv => WaitsAreReal
  BY DEF ScreenInv
<1> QED
  BY <1>1, <1>2, <1>3, PTL DEF SystemSpec
=============================================================================
