---------------------------- MODULE SelfmodProofs ----------------------------
(***************************************************************************)
(* Self-modification, for every number of runs, files and processes: the   *)
(* deployment lock excludes, and, when operators act in order, the live    *)
(* files of a run are what its phase says.                                 *)
(***************************************************************************)
EXTENDS Selfmod, TLAPS

-----------------------------------------------------------------------------
\* The inductive invariant: who holds the lock, who works for a run, what
\* phase a run is in while they do, and what its files hold.

TouchingKinds == {"deploy", "rollback", "recover"}
TouchingPcs == LockedPcs \cup {"lock"}
RestoringPcs == {"restore", "recommit", "finish"}
RejectingPcs == {"compare", "undo", "recheck"}

\* The agent before it has reported its tests.
EarlyPcs == AgentPcs \ {"release"}

\* Before the first deployment.
Untouched == {"absent", "proposed", "backed_up", "editing", "testing",
              "reviewing", "interrupted"}

\* Processes in the locked part own the lock.
LockHeld == \A p \in Processes : cmd[p].pc \in LockedPcs => lock.owner = p

\* The pc of a process tells its command.
CommandsFit ==
    \A p \in Processes :
        /\ cmd[p].pc \in TouchingPcs <=> cmd[p].kind \in TouchingKinds
        /\ cmd[p].pc = "lock" => cmd[p].kind # "recover"
        /\ cmd[p].pc \in AgentPcs => cmd[p].kind = "agent"
        /\ cmd[p].kind = "agent" => cmd[p].pc \in AgentPcs \cup RejectingPcs
        /\ cmd[p].pc \in RejectingPcs => cmd[p].kind \in {"agent", "reject"}
        /\ cmd[p].pc \in {"idle", "dead"} <=> cmd[p].run = NoRun

\* A live owner of the lock is at work for the run that the lock names.
LockFits ==
    /\ \A p \in Processes :
          cmd[p].pc \in LockedPcs => lock = [owner |-> p, run |-> cmd[p].run]
    /\ \A p \in Processes :
          lock.owner = p /\ cmd[p].pc # "dead" => cmd[p].pc \in LockedPcs

\* One command at a time deploys or restores a run, and none waits for the
\* lock while a deployer of its run is dead.
OneToucher ==
    \A p \in Processes : cmd[p].kind \in TouchingKinds =>
        /\ \A q \in Processes :
              cmd[q].kind \in TouchingKinds /\ cmd[q].run = cmd[p].run => p = q
        /\ cmd[p].pc = "lock" => lock.run # cmd[p].run

\* A run has one agent, and none before its backup is begun.
OneAgent ==
    \A p \in Processes : cmd[p].kind = "agent" =>
        /\ \A q \in Processes :
              cmd[q].kind = "agent" /\ cmd[q].run = cmd[p].run => p = q
        /\ ~ (runs[cmd[p].run].phase = "proposed"
                /\ runs[cmd[p].run].bundle = "none")

NoWorkOnAbsent ==
    \A p \in Processes :
        cmd[p].run \in Runs => runs[cmd[p].run].phase # "absent"

\* The phase of run r while p works for it.
PhaseFits(p, r) ==
    /\ cmd[p].kind = "deploy"
         /\ cmd[p].pc \in {"lock", "check", "copy", "commit", "record",
                           "conclude"}
         => runs[r].phase = "approved"
    /\ cmd[p].pc = "lock" /\ cmd[p].kind = "rollback"
         => runs[r].phase = "deployed"
    /\ cmd[p].pc \in {"check", "copy", "commit", "record", "conclude"}
         => cmd[p].kind = "deploy"
    /\ cmd[p].pc \in {"health", "conflicts"} => runs[r].phase = "deployed"
    /\ cmd[p].pc = "except" => runs[r].phase \in {"approved", "deployed"}
    /\ cmd[p].pc \in RestoringPcs => runs[r].phase = "rollback_requested"
    /\ cmd[p].pc \in EarlyPcs
         => runs[r].phase \notin {"reviewing", "approved", "deployed",
                                  "rollback_requested"}
    /\ cmd[p].pc = "backup" => runs[r].bundle = "partial"
    /\ cmd[p].pc \in RejectingPcs
         => runs[r].phase \in {"rejected", "restored"}

PhasesFit ==
    \A p \in Processes, r \in Runs : cmd[p].run = r => PhaseFits(p, r)

\* The candidate of r is in none of its files; it is in F, but for edits.
Clean(r) == \A f \in FilesOf[r] : live[f] # r
Deployed(r, F) == \A f \in F : live[f] \in {r, "edited"}

\* What the files of a run hold.
FilesFitRun(r) ==
    /\ runs[r].changed \subseteq FilesOf[r]
    /\ \A f \in FilesOf[r] : runs[r].manifest[f] # r
    /\ runs[r].bundle = "partial" => Clean(r)
    /\ runs[r].phase \in Untouched \cup {"restored"} => Clean(r)
    /\ runs[r].phase = "approved" /\ lock.run # r => Clean(r)
    /\ runs[r].phase = "deployed" => Deployed(r, runs[r].changed)

FilesFit == \A r \in Runs : FilesFitRun(r)

\* How far p has come with the files of run r.
Progress(p, r) ==
    /\ cmd[p].pc = "copy" =>
         /\ runs[r].bundle # "partial"
         /\ cmd[p].todo \subseteq runs[r].changed
         /\ Deployed(r, runs[r].changed \ cmd[p].todo)
    /\ cmd[p].pc \in {"commit", "record", "conclude"}
         => Deployed(r, runs[r].changed)
    /\ cmd[p].pc \in {"check", "unlock"} /\ runs[r].phase = "approved"
         => Clean(r)
    /\ cmd[p].pc \in {"restore", "undo"} =>
         /\ cmd[p].todo \subseteq FilesOf[r]
         /\ \A f \in FilesOf[r] \ cmd[p].todo : live[f] # r
    /\ cmd[p].pc \in {"recommit", "finish", "recheck"} => Clean(r)

ProgressFits ==
    \A p \in Processes, r \in Runs : cmd[p].run = r => Progress(p, r)

SelfmodInv ==
    /\ SelfmodTypeOK /\ LockHeld /\ CommandsFit /\ LockFits /\ OneToucher
    /\ OneAgent /\ NoWorkOnAbsent /\ PhasesFit /\ FilesFit /\ ProgressFits

DisjointRuns == \A r, s \in Runs : r # s => FilesOf[r] \cap FilesOf[s] = {}

-----------------------------------------------------------------------------
\* Types.

CmdOK == cmd \in [Processes -> Command]
RunsOK == runs \in [Runs -> Run]

LEMMA GotoTyped ==
    ASSUME CmdOK, NEW p \in Processes, NEW pc, Goto(p, pc),
           pc \in {"idle", "dead", "lock", "compare", "undo", "recheck"}
                    \cup AgentPcs \cup LockedPcs
    PROVE  CmdOK'
BY DEF CmdOK, Goto, Command

LEMMA ScheduleTyped ==
    ASSUME CmdOK, NEW p \in Processes, NEW pc, NEW F \in SUBSET Files,
           Schedule(p, F, pc),
           pc \in {"undo", "recheck"} \cup AgentPcs \cup LockedPcs
    PROVE  CmdOK'
BY DEF CmdOK, Schedule, Command

LEMMA DoneTyped ==
    ASSUME CmdOK, NEW p \in Processes, Done(p)
    PROVE  CmdOK'
BY SelfmodAssumption DEF CmdOK, Done, Idle, Command

LEMMA BeginTyped ==
    ASSUME CmdOK, NEW p \in Processes, NEW kind, NEW r \in Runs, NEW pc,
           Begin(p, kind, r, pc), kind \in {"agent", "deploy", "rollback", "reject"},
           pc \in {"lock", "compare", "backup"}
    PROVE  CmdOK'
BY DEF CmdOK, Begin, Command, AgentPcs

\* A row of the table is replaced by a row.
LEMMA RowTyped ==
    ASSUME RunsOK, NEW r \in Runs, NEW R \in Run, runs' = [runs EXCEPT ![r] = R]
    PROVE  RunsOK'
BY DEF RunsOK

LEMMA PhaseRow ==
    ASSUME NEW R \in Run, NEW to \in Phases
    PROVE  [R EXCEPT !.phase = to] \in Run
BY ZenonT(30) DEF Run

LEMMA PhaseTyped ==
    ASSUME RunsOK, NEW r \in Runs, NEW from, NEW to \in Phases, Phase(r, from, to)
    PROVE  RunsOK'
<1>1. runs' = [runs EXCEPT ![r] = [runs[r] EXCEPT !.phase = to]]
  BY DEF RunsOK, Phase, Run
<1>2. [runs[r] EXCEPT !.phase = to] \in Run
  BY PhaseRow DEF RunsOK
<1>3. QED
  BY <1>1, <1>2, RowTyped

LEMMA OwnerRow ==
    ASSUME NEW R \in Run, NEW o \in Processes \cup {NoProcess}
    PROVE  [R EXCEPT !.owner = o] \in Run
BY ZenonT(30) DEF Run

LEMMA ChangedRow ==
    ASSUME NEW R \in Run, NEW C \in SUBSET Files
    PROVE  [R EXCEPT !.changed = C] \in Run
BY ZenonT(30) DEF Run

LEMMA RecordedRow ==
    ASSUME NEW R \in Run, NEW h \in [Files -> Content \cup {"unknown"}]
    PROVE  [R EXCEPT !.recorded = h] \in Run
BY ZenonT(30) DEF Run

LEMMA BundleRow ==
    ASSUME NEW R \in Run, NEW b \in {"none", "partial", "whole"}
    PROVE  [R EXCEPT !.bundle = b] \in Run
BY ZenonT(30) DEF Run

LEMMA BackupRow ==
    ASSUME NEW R \in Run, NEW m \in [Files -> Content], NEW ph \in Phases
    PROVE  [R EXCEPT !.bundle = "whole", !.manifest = m, !.phase = ph] \in Run
BY ZenonT(30) DEF Run

LEMMA EndedRow ==
    ASSUME NEW R \in Run, NEW ph \in Phases
    PROVE  /\ [R EXCEPT !.changed = {}, !.phase = ph] \in Run
           /\ [R EXCEPT !.phase = ph, !.owner = NoProcess] \in Run
BY ZenonT(30) DEF Run

LEMMA EndOfRejectTyped ==
    ASSUME CmdOK, NEW p \in Processes, EndOfReject(p)
    PROVE  CmdOK'
BY GotoTyped, DoneTyped DEF EndOfReject, AgentPcs

LEMMA NewRunTyped == NewRun \in Run
BY SelfmodAssumption DEF NewRun, Run, Phases, Content

LEMMA NewPlanRow ==
    ASSUME NEW b \in [Files -> Content], NEW D \in SUBSET Files, NEW n \in Nat
    PROVE  [NewRun EXCEPT !.phase = "proposed", !.base = b, !.dirty = D,
                          !.start = n] \in Run
BY NewRunTyped, ZenonT(60) DEF Run, Phases

LEMMA TypeInit == SelfmodInit => SelfmodTypeOK
<1>1. Idle \in Command
  BY DEF Idle, Command
<1>2. QED
  BY <1>1, NewRunTyped, SelfmodAssumption
  DEF SelfmodInit, SelfmodTypeOK, Free, Content

LEMMA OperatorTyped ==
    ASSUME SelfmodTypeOK, Operator
    PROVE  SelfmodTypeOK'
<1> USE DEF SelfmodTypeOK, RunsOK, CmdOK
<1>1. ASSUME NEW r \in Runs, CreatePlan(r) PROVE SelfmodTypeOK'
  <2>1. Dirty \in SUBSET Files
    BY DEF Dirty
  <2>2. QED
    BY <1>1, <2>1, NewPlanRow, RowTyped DEF CreatePlan
<1>2. ASSUME NEW r \in Runs, Approve(r) \/ Cancel(r) \/ Resume(r)
      PROVE  SelfmodTypeOK'
  BY <1>2, PhaseTyped DEF Approve, Cancel, Resume, Phases
<1>3. ASSUME NEW r \in Runs, ReconcileInterrupted(r) PROVE SelfmodTypeOK'
  <2>1. runs' = [runs EXCEPT ![r] = [runs[r] EXCEPT !.phase = "interrupted",
                                                    !.owner = NoProcess]]
    BY <1>3 DEF ReconcileInterrupted, Run
  <2>2. QED
    BY <1>3, <2>1, EndedRow, RowTyped DEF ReconcileInterrupted, Phases
<1>4. ASSUME NEW r \in Runs, PruneBackup(r) PROVE SelfmodTypeOK'
  <2>1. runs' = [runs EXCEPT ![r] = [runs[r] EXCEPT !.bundle = "none"]]
    BY <1>4 DEF PruneBackup, Run
  <2>2. QED
    BY <1>4, <2>1, BundleRow, RowTyped DEF PruneBackup
<1>5. ASSUME NEW p \in Processes, NEW r \in Runs, StartRun(p, r)
      PROVE  SelfmodTypeOK'
  <2>1. runs' = [runs EXCEPT ![r] = [runs[r] EXCEPT !.bundle = "partial"]]
    BY <1>5 DEF StartRun, Run
  <2>2. QED
    BY <1>5, <2>1, BundleRow, RowTyped, BeginTyped DEF StartRun
<1>6. ASSUME NEW p \in Processes, NEW r \in Runs,
             Reject(p, r) \/ StartDeploy(p, r) \/ StartRollback(p, r)
      PROVE  SelfmodTypeOK'
  BY <1>6, PhaseTyped, BeginTyped DEF Reject, StartDeploy, StartRollback, Phases
<1>7. QED
  BY <1>1, <1>2, <1>3, <1>4, <1>5, <1>6 DEF Operator

LEMMA AgentTyped ==
    ASSUME SelfmodTypeOK, NEW p \in Processes, NEW r \in Runs, Agent(p, r)
    PROVE  SelfmodTypeOK'
<1> USE DEF SelfmodTypeOK, RunsOK, CmdOK
<1>1. CASE CreateBackup(p, r)
  <2>1. PICK ph \in Phases :
            runs' = [runs EXCEPT ![r] = [runs[r] EXCEPT !.bundle = "whole",
                                           !.manifest = live, !.phase = ph]]
    <3>1. runs[r].phase \in Phases
      BY DEF Run
    <3>2. "backed_up" \in Phases
      BY DEF Phases
    <3>3. QED
      BY <1>1, <3>1, <3>2 DEF CreateBackup, Run
  <2>2. QED
    BY <1>1, <2>1, BackupRow, RowTyped, GotoTyped, DoneTyped
    DEF CreateBackup, AgentPcs
<1>2. CASE PrepareWorkspace(p, r)
  BY <1>2, PhaseTyped, GotoTyped, DoneTyped DEF PrepareWorkspace, AgentPcs, Phases
<1>3. CASE Claim(p, r)
  <2>1. runs' = [runs EXCEPT ![r] = [runs[r] EXCEPT !.owner = p]]
    BY <1>3 DEF Claim, Run
  <2>2. QED
    BY <1>3, <2>1, OwnerRow, RowTyped, GotoTyped DEF Claim, AgentPcs
<1>4. CASE Edit(p, r)
  <2>1. CASE \E C \in SUBSET FilesOf[r] \ {{}} :
                 runs' = [runs EXCEPT ![r].changed = C] /\ Goto(p, "begin")
    <3>1. PICK C \in SUBSET Files :
              runs' = [runs EXCEPT ![r].changed = C] /\ Goto(p, "begin")
      BY <2>1, SelfmodAssumption
    <3>2. runs' = [runs EXCEPT ![r] = [runs[r] EXCEPT !.changed = C]]
      BY <3>1 DEF Run
    <3>3. QED
      BY <1>4, <3>1, <3>2, ChangedRow, RowTyped, GotoTyped DEF Edit, AgentPcs
  <2>2. CASE runs' = [runs EXCEPT ![r].changed = {}, ![r].phase = "rejected"]
              /\ Goto(p, "compare")
    <3>1. runs' = [runs EXCEPT ![r] = [runs[r] EXCEPT !.changed = {},
                                                      !.phase = "rejected"]]
      BY <2>2 DEF Run
    <3>2. QED
      BY <1>4, <2>2, <3>1, EndedRow, RowTyped, GotoTyped DEF Edit, Phases
  <2>3. CASE runs' = [runs EXCEPT ![r].changed = {}] /\ Goto(p, "release")
    <3>1. runs' = [runs EXCEPT ![r] = [runs[r] EXCEPT !.changed = {}]]
      BY <2>3 DEF Run
    <3>2. QED
      BY <1>4, <2>3, <3>1, ChangedRow, RowTyped, GotoTyped DEF Edit, AgentPcs
  <2>4. QED
    BY <1>4, <2>1, <2>2, <2>3 DEF Edit
<1>5. CASE BeginTesting(p, r) \/ Review(p, r) \/ FailRun(p, r)
  BY <1>5, PhaseTyped, GotoTyped DEF BeginTesting, Review, FailRun, AgentPcs, Phases
<1>6. CASE Release(p, r)
  <2>1. PICK o \in Processes \cup {NoProcess} :
            runs' = [runs EXCEPT ![r] = [runs[r] EXCEPT !.owner = o]]
    BY <1>6 DEF Release, Run
  <2>2. QED
    BY <1>6, <2>1, OwnerRow, RowTyped, DoneTyped DEF Release
<1>7. QED
  BY <1>1, <1>2, <1>3, <1>4, <1>5, <1>6 DEF Agent

LEMMA RejectionTyped ==
    ASSUME SelfmodTypeOK, NEW p \in Processes, NEW r \in Runs, Rejection(p, r)
    PROVE  SelfmodTypeOK'
<1> USE DEF SelfmodTypeOK, RunsOK, CmdOK
<1>1. FilesOf[r] \in SUBSET Files
  BY SelfmodAssumption
<1>2. runs[r].manifest \in [Files -> Content] /\ cmd[p].todo \in SUBSET Files
  BY DEF Run, Command
<1>3. CASE Compare(p, r)
  BY <1>1, <1>3, EndOfRejectTyped, ScheduleTyped, GotoTyped DEF Compare
<1>4. CASE Undo(p, r)
  BY <1>2, <1>4, ScheduleTyped DEF Undo
<1>5. CASE Recheck(p, r)
  BY <1>5, PhaseTyped, EndOfRejectTyped DEF Recheck, Phases
<1>6. QED
  BY <1>3, <1>4, <1>5 DEF Rejection

LEMMA DeploymentTyped ==
    ASSUME SelfmodTypeOK, NEW p \in Processes, NEW r \in Runs, Deployment(p, r)
    PROVE  SelfmodTypeOK'
<1> USE DEF SelfmodTypeOK, RunsOK, CmdOK
<1>1. FilesOf[r] \in SUBSET Files
  BY SelfmodAssumption
<1>2. runs[r].changed \in SUBSET Files /\ cmd[p].todo \in SUBSET Files
  BY DEF Run, Command
<1>3. CASE Lock(p, r)
  BY <1>3, GotoTyped, DoneTyped DEF Lock, LockedPcs
<1>4. CASE Check(p, r)
  BY <1>2, <1>4, ScheduleTyped, GotoTyped DEF Check, LockedPcs
<1>5. CASE Copy(p, r)
  BY <1>2, <1>5, ScheduleTyped DEF Copy, LockedPcs, Content
<1>6. CASE CommitDeployed(p, r)
  BY <1>6, GotoTyped DEF CommitDeployed, GitCommit, LockedPcs
<1>7. CASE RecordDeployed(p, r)
  <2> DEFINE h == [f \in Files |-> IF f \in runs[r].changed THEN live[f]
                                   ELSE "unknown"]
  <2>1. h \in [Files -> Content \cup {"unknown"}]
    OBVIOUS
  <2>2. runs' = [runs EXCEPT ![r] = [runs[r] EXCEPT !.recorded = h]]
    BY <1>7 DEF RecordDeployed, Run
  <2>3. QED
    BY <1>7, <2>1, <2>2, RecordedRow, RowTyped, GotoTyped
    DEF RecordDeployed, LockedPcs
<1>8. CASE Conclude(p, r)
  BY <1>8, PhaseTyped, GotoTyped DEF Conclude, LockedPcs, Phases
<1>9. CASE Health(p, r) \/ Except(p, r)
  BY <1>1, <1>9, PhaseTyped, GotoTyped, ScheduleTyped
  DEF Health, Except, LockedPcs, Phases
<1>10. QED
  BY <1>3, <1>4, <1>5, <1>6, <1>7, <1>8, <1>9 DEF Deployment

LEMMA RestorationTyped ==
    ASSUME SelfmodTypeOK, NEW p \in Processes, NEW r \in Runs, Restoration(p, r)
    PROVE  SelfmodTypeOK'
<1> USE DEF SelfmodTypeOK, RunsOK, CmdOK
<1>1. FilesOf[r] \in SUBSET Files
  BY SelfmodAssumption
<1>2. runs[r].manifest \in [Files -> Content] /\ cmd[p].todo \in SUBSET Files
  BY DEF Run, Command
<1>3. CASE Conflicts(p, r)
  BY <1>1, <1>3, PhaseTyped, GotoTyped, ScheduleTyped
  DEF Conflicts, LockedPcs, Phases
<1>4. CASE Restore(p, r)
  <2>1. CASE Goto(p, "unlock") /\ UNCHANGED live
    BY <1>4, <2>1, GotoTyped DEF Restore, LockedPcs
  <2>2. CASE \E f \in cmd[p].todo :
                /\ live' = [live EXCEPT ![f] = runs[r].manifest[f]]
                /\ LET left == cmd[p].todo \ {f}
                   IN  Schedule(p, left, IF left = {} THEN "recommit"
                                         ELSE "restore")
    BY <1>2, <1>4, <2>2, ScheduleTyped DEF Restore, LockedPcs
  <2>3. QED
    BY <1>4, <2>1, <2>2 DEF Restore
<1>5. CASE CommitRestored(p, r)
  BY <1>5, GotoTyped DEF CommitRestored, GitCommit, LockedPcs
<1>6. CASE FinishRestore(p, r)
  BY <1>6, PhaseTyped, GotoTyped DEF FinishRestore, LockedPcs, Phases
<1>7. CASE Unlock(p, r)
  BY <1>7, DoneTyped DEF Unlock
<1>8. QED
  BY <1>3, <1>4, <1>5, <1>6, <1>7 DEF Restoration

\* A lock with an owner names a run.
LEMMA OwnedLock ==
    ASSUME SelfmodTypeOK, lock.owner # NoProcess
    PROVE  lock.owner \in Processes /\ lock.run \in Runs
BY DEF SelfmodTypeOK, Free

LEMMA RecoverTyped ==
    ASSUME SelfmodTypeOK, NEW p \in Processes, Recover(p)
    PROVE  SelfmodTypeOK'
<1>1. lock.run \in Runs /\ lock \in [owner : Processes, run : Runs]
  BY OwnedLock DEF Recover, Free, SelfmodTypeOK
<1> USE DEF SelfmodTypeOK, RunsOK, CmdOK
<1>2. FilesOf[lock.run] \in SUBSET Files
  BY <1>1, SelfmodAssumption
<1>3. CASE Phase(lock.run, RecoverablePhases, "rollback_requested")
            /\ cmd' = [cmd EXCEPT ![p] = [pc |-> "restore", kind |-> "recover",
                          run |-> lock.run, todo |-> FilesOf[lock.run]]]
            /\ lock' = [lock EXCEPT !.owner = p]
  <2>1. RunsOK'
    BY <1>1, <1>3, PhaseTyped DEF Phases
  <2>2. CmdOK'
    BY <1>1, <1>2, <1>3 DEF Command, LockedPcs
  <2>3. QED
    BY <1>1, <1>3, <2>1, <2>2 DEF Recover
<1>4. CASE lock' = Free /\ UNCHANGED <<runs, cmd>>
  BY <1>4 DEF Recover
<1>5. QED
  BY <1>3, <1>4 DEF Recover

LEMMA UpsetTyped ==
    ASSUME SelfmodTypeOK, Upset
    PROVE  upsets' \in 0..MaxUpsets
BY SelfmodAssumption DEF SelfmodTypeOK, Upset

LEMMA EnvironmentTyped ==
    ASSUME SelfmodTypeOK, NEW p \in Processes, Error(p) \/ Die(p) \/ Restart(p)
    PROVE  SelfmodTypeOK'
<1> USE DEF SelfmodTypeOK, RunsOK, CmdOK
<1>1. CASE Error(p)
  <2>1. CmdOK'
    BY <1>1, GotoTyped, EndOfRejectTyped DEF Error, LockedPcs, AgentPcs
  <2>2. QED
    BY <1>1, <2>1, UpsetTyped DEF Error
<1>2. CASE Die(p)
  BY <1>2, UpsetTyped, SelfmodAssumption DEF Die, Idle, Command
<1>3. CASE Restart(p)
  BY <1>3, DoneTyped DEF Restart
<1>4. QED
  BY <1>1, <1>2, <1>3

LEMMA UserEditTyped ==
    ASSUME SelfmodTypeOK, NEW f \in Files, UserEdit(f)
    PROVE  SelfmodTypeOK'
BY UpsetTyped DEF SelfmodTypeOK, UserEdit, Content

\* No step takes the tables and commands out of their domains.
LEMMA TypeStep ==
    ASSUME SelfmodTypeOK, [SelfmodNext]_vars
    PROVE  SelfmodTypeOK'
<1>1. CASE UNCHANGED vars
  BY <1>1 DEF vars, SelfmodTypeOK
<1>2. ASSUME NEW p \in Processes, Step(p) PROVE SelfmodTypeOK'
  BY <1>2, AgentTyped, RejectionTyped, DeploymentTyped, RestorationTyped DEF Step
<1>3. ASSUME NEW p \in Processes, Recover(p) \/ Error(p) \/ Die(p) \/ Restart(p)
      PROVE  SelfmodTypeOK'
  BY <1>3, RecoverTyped, EnvironmentTyped
<1>4. ASSUME NEW f \in Files, UserEdit(f) PROVE SelfmodTypeOK'
  BY <1>4, UserEditTyped
<1>5. QED
  BY <1>1, <1>2, <1>3, <1>4, OperatorTyped DEF SelfmodNext

\* The tables and the commands keep their domains.
THEOREM TypeCorrect == SelfmodSpec => []SelfmodTypeOK
BY TypeInit, TypeStep, PTL DEF SelfmodSpec

-----------------------------------------------------------------------------
\* What a step of a command leaves.

Others(p) == \A q \in Processes \ {p} : cmd'[q] = cmd[q]

SameWork(p) == cmd'[p].kind = cmd[p].kind /\ cmd'[p].run = cmd[p].run

LEMMA GotoFrame ==
    ASSUME CmdOK, NEW p \in Processes, NEW pc, Goto(p, pc)
    PROVE  /\ Others(p) /\ SameWork(p) /\ cmd'[p].pc = pc
           /\ cmd'[p].todo = cmd[p].todo
BY DEF CmdOK, Goto, Command, Others, SameWork

LEMMA ScheduleFrame ==
    ASSUME CmdOK, NEW p \in Processes, NEW pc, NEW F, Schedule(p, F, pc)
    PROVE  Others(p) /\ SameWork(p) /\ cmd'[p].pc = pc /\ cmd'[p].todo = F
BY DEF CmdOK, Schedule, Command, Others, SameWork

LEMMA DoneFrame ==
    ASSUME CmdOK, NEW p \in Processes, Done(p)
    PROVE  /\ Others(p) /\ cmd'[p] = Idle /\ cmd'[p].pc = "idle"
           /\ cmd'[p].kind = "none" /\ cmd'[p].run = NoRun
BY DEF CmdOK, Done, Idle, Others

LEMMA BeginFrame ==
    ASSUME CmdOK, NEW p \in Processes, NEW kind, NEW r, NEW pc, Begin(p, kind, r, pc)
    PROVE  /\ Others(p) /\ cmd'[p].pc = pc /\ cmd'[p].kind = kind
           /\ cmd'[p].run = r /\ cmd[p].pc = "idle"
BY DEF CmdOK, Begin, Others

LEMMA EndOfRejectFrame ==
    ASSUME CmdOK, NEW p \in Processes, EndOfReject(p)
    PROVE  /\ Others(p)
           /\ \/ cmd[p].kind = "agent" /\ SameWork(p) /\ cmd'[p].pc = "release"
              \/ cmd'[p] = Idle /\ cmd'[p].pc = "idle"
                   /\ cmd'[p].kind = "none" /\ cmd'[p].run = NoRun
BY GotoFrame, DoneFrame DEF EndOfReject

-----------------------------------------------------------------------------
\* The deployment lock excludes.

\* A step of a command that neither takes nor gives back the lock enters the
\* locked part only from the locked part.
LEMMA HeldKept ==
    ASSUME SelfmodTypeOK, LockHeld, UNCHANGED lock, NEW p \in Processes,
           Others(p),
           cmd'[p].pc \in LockedPcs => cmd[p].pc \in LockedPcs
    PROVE  LockHeld'
BY DEF LockHeld, Others

\* Whoever takes a stale lock finds nobody in the locked part.
LEMMA StaleMeansEmpty ==
    ASSUME SelfmodTypeOK, LockHeld, Stale, NEW p \in Processes
    PROVE  cmd[p].pc \notin LockedPcs
BY SelfmodAssumption DEF SelfmodTypeOK, LockHeld, Stale, Alive, LockedPcs

LEMMA TakenAlone ==
    ASSUME SelfmodTypeOK, LockHeld, Stale, NEW p \in Processes,
           Others(p), lock'.owner = p
    PROVE  LockHeld'
BY StaleMeansEmpty DEF LockHeld, Others

LEMMA HeldStep ==
    ASSUME SelfmodTypeOK, LockHeld, [SelfmodNext]_vars
    PROVE  LockHeld'
<1> USE DEF SelfmodTypeOK
<1>1. CASE UNCHANGED vars
  BY <1>1 DEF vars, LockHeld
<1>2. CASE Operator
  <2>1. CASE UNCHANGED <<lock, cmd>>
    BY <2>1 DEF LockHeld
  <2>2. ASSUME NEW p \in Processes, NEW r \in Runs,
               StartRun(p, r) \/ Reject(p, r) \/ StartDeploy(p, r)
                 \/ StartRollback(p, r)
        PROVE  LockHeld'
    BY <2>2, HeldKept, BeginFrame
    DEF StartRun, Reject, StartDeploy, StartRollback, LockedPcs, CmdOK
  <2>3. QED
    BY <1>2, <2>1, <2>2
    DEF Operator, CreatePlan, Approve, Cancel, Resume, ReconcileInterrupted,
        PruneBackup
<1>3. ASSUME NEW p \in Processes, NEW r \in Runs, Agent(p, r) PROVE LockHeld'
  <2>1. UNCHANGED lock
    BY <1>3 DEF Agent, CreateBackup, PrepareWorkspace, Claim, Edit, BeginTesting,
                Review, FailRun, Release
  <2>2. CASE Done(p)
    BY <2>1, <2>2, HeldKept, DoneFrame DEF LockedPcs, CmdOK
  <2>3. ASSUME NEW pc \in AgentPcs \cup {"compare"}, Goto(p, pc) PROVE LockHeld'
    BY <2>1, <2>3, HeldKept, GotoFrame DEF AgentPcs, LockedPcs, CmdOK
  <2>4. CASE CreateBackup(p, r) \/ PrepareWorkspace(p, r) \/ Claim(p, r)
    BY <2>2, <2>3, <2>4 DEF CreateBackup, PrepareWorkspace, Claim, AgentPcs
  <2>5. CASE Edit(p, r)
    BY <2>3, <2>5 DEF Edit, AgentPcs
  <2>6. CASE BeginTesting(p, r) \/ Review(p, r)
    BY <2>3, <2>6 DEF BeginTesting, Review, AgentPcs
  <2>7. CASE FailRun(p, r) \/ Release(p, r)
    BY <2>2, <2>3, <2>7 DEF FailRun, Release, AgentPcs
  <2>8. QED
    BY <1>3, <2>4, <2>5, <2>6, <2>7 DEF Agent
<1>4. ASSUME NEW p \in Processes, NEW r \in Runs, Rejection(p, r) PROVE LockHeld'
  <2>1. UNCHANGED lock
    BY <1>4 DEF Rejection, Compare, Undo, Recheck
  <2>2. CASE EndOfReject(p)
    BY <2>1, <2>2, HeldKept, EndOfRejectFrame DEF LockedPcs, CmdOK
  <2>3. ASSUME NEW pc \in {"undo", "recheck"}, NEW F,
               Goto(p, pc) \/ Schedule(p, F, pc)
        PROVE  LockHeld'
    BY <2>1, <2>3, HeldKept, GotoFrame, ScheduleFrame DEF LockedPcs, CmdOK
  <2>4. CASE Compare(p, r)
    <3>1. \/ EndOfReject(p) \/ Goto(p, "recheck") \/ Schedule(p, FilesOf[r], "undo")
      BY <2>4, ZenonT(30) DEF Compare
    <3>2. QED
      BY <2>2, <2>3, <3>1
  <2>5. CASE Undo(p, r)
    <3>1. \E F \in SUBSET Files :
              Schedule(p, F, "undo") \/ Schedule(p, F, "recheck")
      BY <2>5 DEF Undo, Command
    <3>2. QED
      BY <2>3, <3>1
  <2>6. CASE Recheck(p, r)
    BY <2>2, <2>6 DEF Recheck
  <2>7. QED
    BY <1>4, <2>4, <2>5, <2>6 DEF Rejection
<1>5. ASSUME NEW p \in Processes, NEW r \in Runs, Lock(p, r) PROVE LockHeld'
  <2>1. CASE Stale /\ lock' = [owner |-> p, run |-> r]
               /\ Goto(p, IF cmd[p].kind = "deploy" THEN "check" ELSE "conflicts")
    BY <2>1, TakenAlone, GotoFrame DEF CmdOK
  <2>2. CASE Done(p) /\ UNCHANGED lock
    BY <2>2, HeldKept, DoneFrame DEF LockedPcs, CmdOK
  <2>3. QED
    BY <1>5, <2>1, <2>2 DEF Lock
<1>6. ASSUME NEW p \in Processes, NEW r \in Runs,
             Deployment(p, r) \/ Restoration(p, r),
             ~ Lock(p, r), ~ Unlock(p, r)
      PROVE  LockHeld'
  <2>1. cmd[p].pc \in LockedPcs /\ UNCHANGED lock
    BY <1>6
    DEF Deployment, Restoration, Check, Copy, CommitDeployed, RecordDeployed,
        Conclude, Health, Except, Conflicts, Restore, CommitRestored,
        FinishRestore, LockedPcs
  <2>2. Others(p)
    BY <1>6
    DEF Deployment, Restoration, Check, Copy, CommitDeployed, RecordDeployed,
        Conclude, Health, Except, Conflicts, Restore, CommitRestored,
        FinishRestore, Goto, Schedule, Others
  <2>3. QED
    BY <2>1, <2>2, HeldKept
<1>7. ASSUME NEW p \in Processes, NEW r \in Runs, Unlock(p, r) PROVE LockHeld'
  <2>1. Others(p)
    BY <1>7, DoneFrame DEF Unlock, CmdOK
  <2>2. cmd'[p].pc \notin LockedPcs
    BY <1>7, DoneFrame DEF Unlock, LockedPcs, CmdOK
  <2>3. \A q \in Processes \ {p} : cmd[q].pc \in LockedPcs => lock' = lock
    BY <1>7 DEF Unlock, LockHeld
  <2>4. QED
    BY <2>1, <2>2, <2>3 DEF LockHeld, Others
<1>8. ASSUME NEW p \in Processes, Recover(p) PROVE LockHeld'
  <2>1. CASE lock'.owner = p
    BY <1>8, <2>1, TakenAlone DEF Recover, Others
  <2>2. CASE UNCHANGED cmd
    BY <1>8, <2>2, StaleMeansEmpty DEF Recover, LockHeld
  <2>3. lock \in [owner : Processes, run : Runs]
    BY <1>8 DEF Recover, Free
  <2>4. QED
    BY <1>8, <2>1, <2>2, <2>3 DEF Recover
<1>9. ASSUME NEW p \in Processes, Error(p) \/ Die(p) \/ Restart(p) PROVE LockHeld'
  <2>1. UNCHANGED lock
    BY <1>9 DEF Error, Die, Restart
  <2>2. CASE EndOfReject(p)
    BY <2>1, <2>2, HeldKept, EndOfRejectFrame DEF LockedPcs, CmdOK
  <2>3. ASSUME NEW pc, Goto(p, pc), cmd[p].pc \in LockedPcs \/ pc = "failed"
        PROVE  LockHeld'
    BY <2>1, <2>3, HeldKept, GotoFrame DEF LockedPcs, CmdOK
  <2>4. CASE Error(p)
    <3>1. \/ EndOfReject(p) \/ Goto(p, "failed")
          \/ cmd[p].pc \in LockedPcs /\ Goto(p, "except")
          \/ cmd[p].pc \in LockedPcs /\ Goto(p, "unlock")
      BY <2>4, ZenonT(30) DEF Error, LockedPcs
    <3>2. QED
      BY <2>2, <2>3, <3>1
  <2>5. CASE Die(p) \/ Restart(p)
    BY <2>1, <2>5, HeldKept, DoneFrame DEF Die, Restart, Idle, LockedPcs, Others, CmdOK
  <2>6. QED
    BY <1>9, <2>4, <2>5
<1>10. ASSUME NEW f \in Files, UserEdit(f) PROVE LockHeld'
  BY <1>10 DEF UserEdit, LockHeld
<1>11. QED
  BY <1>1, <1>2, <1>3, <1>4, <1>5, <1>6, <1>7, <1>8, <1>9, <1>10
  DEF SelfmodNext, Step

LEMMA HeldInit == SelfmodInit => LockHeld
BY DEF SelfmodInit, LockHeld, Idle, LockedPcs

\* One deployment, rollback or recovery at a time holds the lock, whoever
\* dies and whoever recovers: only a dead owner's lock is taken.
THEOREM Exclusion == SelfmodSpec => []OneDeployer
<1>1. SelfmodTypeOK /\ LockHeld /\ [SelfmodNext]_vars => (SelfmodTypeOK /\ LockHeld)'
  BY TypeStep, HeldStep
<1>2. LockHeld => OneDeployer
  BY DEF LockHeld, OneDeployer
<1>3. QED
  BY <1>1, <1>2, TypeInit, HeldInit, PTL DEF SelfmodSpec

-----------------------------------------------------------------------------
\* The live files follow the phases.

Rows(r) == \A s \in Runs \ {r} : runs'[s] = runs[s]

SameFiles(r) ==
    /\ runs'[r].bundle = runs[r].bundle /\ runs'[r].manifest = runs[r].manifest
    /\ runs'[r].changed = runs[r].changed

LEMMA PhaseFrame ==
    ASSUME RunsOK, NEW r \in Runs, NEW from, NEW to, Phase(r, from, to)
    PROVE  /\ Rows(r) /\ SameFiles(r)
           /\ runs[r].phase \in from /\ runs'[r].phase = to
BY DEF RunsOK, Run, Phase, Rows, SameFiles

\* Only run r is at stake in a step that leaves the rows, the files and the
\* commands of the others.
OnlyRun(r) ==
    /\ Rows(r)
    /\ \A s \in Runs \ {r} : lock'.run = s <=> lock.run = s
    /\ \A f \in Files \ FilesOf[r] : live'[f] = live[f]
    /\ \A q \in Processes : cmd'[q] = cmd[q] \/ cmd'[q].run \in {r, NoRun}

LEMMA OneRunMatters ==
    ASSUME SelfmodInv, DisjointRuns, NEW r \in Runs, OnlyRun(r), FilesFitRun(r)',
           \A q \in Processes :
               cmd'[q].run = r => PhaseFits(q, r)' /\ Progress(q, r)'
    PROVE  PhasesFit' /\ FilesFit' /\ ProgressFits'
<1>1. ASSUME NEW s \in Runs \ {r}
      PROVE  \A f \in FilesOf[s] : live'[f] = live[f]
  BY SelfmodAssumption DEF OnlyRun, DisjointRuns
<1>2. ASSUME NEW s \in Runs \ {r} PROVE FilesFitRun(s)'
  <2>1. runs[s].changed \subseteq FilesOf[s] /\ FilesFitRun(s)
    BY DEF SelfmodInv, FilesFit, FilesFitRun
  <2>2. QED
    BY <1>1, <2>1 DEF FilesFitRun, Clean, Deployed, OnlyRun, Rows
<1>3. ASSUME NEW s \in Runs \ {r}, NEW q \in Processes, cmd'[q].run = s
      PROVE  PhaseFits(q, s)' /\ Progress(q, s)'
  <2>1. cmd'[q] = cmd[q] /\ runs'[s] = runs[s]
    BY <1>3, SelfmodAssumption DEF OnlyRun, Rows
  <2>2. PhaseFits(q, s)'
    BY <1>3, <2>1 DEF SelfmodInv, PhasesFit, PhaseFits
  <2>3. Progress(q, s) /\ runs[s].changed \subseteq FilesOf[s]
    BY <1>3, <2>1 DEF SelfmodInv, ProgressFits, FilesFit, FilesFitRun
  <2>4. Progress(q, s)'
    BY <1>1, <2>1, <2>3 DEF Progress, Clean, Deployed
  <2>5. QED
    BY <2>2, <2>4
<1>4. QED
  BY <1>2, <1>3 DEF PhasesFit, FilesFit, ProgressFits

\* Who else works for a run that is being deployed or restored is an agent
\* about to release it.
LEMMA Alone ==
    ASSUME SelfmodInv, NEW p \in Processes, NEW r \in Runs, NEW q \in Processes,
           cmd[p].run = r, cmd[p].kind \in TouchingKinds, q # p, cmd[q].run = r,
           runs[r].phase \in RecoverablePhases
    PROVE  cmd[q].pc = "release"
<1>1. cmd[q].pc \notin TouchingPcs
  BY DEF SelfmodInv, CommandsFit, OneToucher
<1>2. cmd[q].pc \notin EarlyPcs \cup RejectingPcs
  BY DEF SelfmodInv, PhasesFit, PhaseFits, RecoverablePhases
<1>3. cmd[q].pc \notin {"idle", "dead"}
  BY SelfmodAssumption DEF SelfmodInv, CommandsFit
<1>4. QED
  BY <1>1, <1>2, <1>3
  DEF SelfmodInv, SelfmodTypeOK, Command, TouchingPcs, LockedPcs, EarlyPcs,
      AgentPcs, RejectingPcs

\* The commands after a step of p in the locked part.
LEMMA LockedCommands ==
    ASSUME SelfmodInv, NEW p \in Processes, cmd[p].pc \in LockedPcs,
           cmd'[p].pc \in LockedPcs, Others(p), SameWork(p), UNCHANGED lock
    PROVE  CommandsFit' /\ LockFits' /\ OneToucher'
<1>1. CommandsFit'
  BY DEF SelfmodInv, CommandsFit, Others, SameWork, TouchingPcs, LockedPcs,
         AgentPcs, RejectingPcs
<1>2. LockFits'
  BY DEF SelfmodInv, LockFits, Others, SameWork, LockedPcs
<1>3. OneToucher'
  BY DEF SelfmodInv, OneToucher, Others, SameWork, LockedPcs
<1>4. QED
  BY <1>1, <1>2, <1>3

Worked(q) == cmd'[q].kind = cmd[q].kind /\ cmd'[q].run = cmd[q].run

\* Agents stay one to a run where nobody becomes one and no run goes back to
\* its proposal.
LEMMA AgentsKept ==
    ASSUME SelfmodInv, NEW r \in Runs, Rows(r),
           \A q \in Processes : \/ Worked(q)
                                \/ cmd'[q].run = NoRun /\ cmd'[q].kind = "none"
                                \/ cmd'[q].kind # "agent" /\ cmd'[q].run = r,
           runs'[r].phase # "absent",
           runs'[r].phase = "proposed" => runs[r].phase = "proposed"
                                            /\ runs'[r].bundle # "none"
    PROVE  OneAgent' /\ NoWorkOnAbsent'
<1>1. \A q \in Processes :
          cmd'[q].kind = "agent" => Worked(q) /\ cmd[q].run \in Runs
  BY DEF SelfmodInv, SelfmodTypeOK, Worked, CommandsFit, Command, AgentPcs, RejectingPcs
<1>2. OneAgent'
  BY <1>1 DEF SelfmodInv, OneAgent, Worked, Rows
<1>3. NoWorkOnAbsent'
  BY SelfmodAssumption DEF SelfmodInv, NoWorkOnAbsent, Worked, Rows
<1>4. QED
  BY <1>2, <1>3

\* The parts of the invariant beside the types and the lock's owner.
Rest ==
    /\ CommandsFit /\ LockFits /\ OneToucher /\ OneAgent /\ NoWorkOnAbsent
    /\ PhasesFit /\ FilesFit /\ ProgressFits

\* A step in the locked part, of which only the run's own facts are open.
LEMMA LockedStep ==
    ASSUME SelfmodInv, DisjointRuns, NEW p \in Processes, NEW r \in Runs,
           cmd[p].run = r, cmd[p].pc \in LockedPcs, cmd'[p].pc \in LockedPcs,
           Others(p), SameWork(p), UNCHANGED lock, Rows(r),
           runs[r].phase \in RecoverablePhases,
           runs'[r].phase \in RecoverablePhases \cup {"restored"},
           \A f \in Files \ FilesOf[r] : live'[f] = live[f],
           FilesFitRun(r)', PhaseFits(p, r)', Progress(p, r)'
    PROVE  Rest'
<1>1. CommandsFit' /\ LockFits' /\ OneToucher'
  BY LockedCommands
<1>2. OneAgent' /\ NoWorkOnAbsent'
  <2>1. \A q \in Processes : Worked(q)
    BY DEF Worked, Others, SameWork
  <2>2. QED
    BY <2>1, AgentsKept DEF RecoverablePhases
<1>3. cmd[p].kind \in TouchingKinds
  BY DEF SelfmodInv, CommandsFit, TouchingPcs
<1>4. OnlyRun(r)
  BY DEF OnlyRun, Others, SameWork
<1>5. ASSUME NEW q \in Processes, cmd'[q].run = r
      PROVE  PhaseFits(q, r)' /\ Progress(q, r)'
  <2>1. CASE q = p
    BY <2>1
  <2>2. CASE q # p
    <3>1. cmd'[q].pc = "release"
      BY <1>3, <1>5, <2>2, Alone DEF Others
    <3>2. QED
      BY <3>1 DEF PhaseFits, Progress, RestoringPcs, EarlyPcs, RejectingPcs
  <2>3. QED
    BY <2>1, <2>2
<1>6. PhasesFit' /\ FilesFit' /\ ProgressFits'
  BY <1>4, <1>5, OneRunMatters
<1>7. QED
  BY <1>1, <1>2, <1>6 DEF Rest

\* What the phase of r is while p holds the lock for it.
LEMMA LockedPhase ==
    ASSUME SelfmodInv, NEW p \in Processes, NEW r \in Runs, cmd[p].run = r,
           cmd[p].pc \in LockedPcs \ {"unlock"}
    PROVE  runs[r].phase \in RecoverablePhases /\ lock.run = r
BY DEF SelfmodInv, PhasesFit, PhaseFits, LockFits, LockedPcs, RestoringPcs,
       RecoverablePhases

LEMMA CheckStep ==
    ASSUME SelfmodInv, DisjointRuns, NEW p \in Processes, NEW r \in Runs,
           cmd[p].run = r, Check(p, r)
    PROVE  Rest'
<1>1. /\ cmd[p].pc = "check" /\ UNCHANGED <<runs, lock, live>>
      /\ Others(p) /\ SameWork(p)
      /\ \/ cmd'[p].pc = "copy" /\ cmd'[p].todo = runs[r].changed
              /\ runs[r].bundle = "whole"
         \/ cmd'[p].pc = "unlock"
  BY ScheduleFrame, GotoFrame DEF Check, SelfmodInv, SelfmodTypeOK, CmdOK
<1>2. FilesFitRun(r)'
  BY <1>1 DEF SelfmodInv, FilesFit, FilesFitRun, Clean, Deployed
<1>3. PhaseFits(p, r)'
  BY <1>1 DEF SelfmodInv, PhasesFit, PhaseFits, SameWork, RestoringPcs, EarlyPcs,
              AgentPcs, RejectingPcs
<1>4. Progress(p, r)'
  BY <1>1 DEF SelfmodInv, ProgressFits, Progress, SameWork, Clean, Deployed
<1>5. runs[r].phase \in RecoverablePhases
  BY <1>1, LockedPhase DEF LockedPcs
<1>6. QED
  BY <1>1, <1>2, <1>3, <1>4, <1>5, LockedStep DEF LockedPcs, Rows

LEMMA CopyStep ==
    ASSUME SelfmodInv, DisjointRuns, NEW p \in Processes, NEW r \in Runs,
           cmd[p].run = r, Copy(p, r)
    PROVE  Rest'
<1>file. PICK f \in cmd[p].todo :
          /\ live' = [live EXCEPT ![f] = r]
          /\ Schedule(p, cmd[p].todo \ {f},
                      IF cmd[p].todo \ {f} = {} THEN "commit" ELSE "copy")
  BY DEF Copy
<1>frame. /\ Others(p) /\ SameWork(p) /\ cmd'[p].todo = cmd[p].todo \ {f}
      /\ cmd'[p].pc = IF cmd'[p].todo = {} THEN "commit" ELSE "copy"
  BY <1>file, ScheduleFrame DEF SelfmodInv, SelfmodTypeOK, CmdOK
<1>1. /\ live' = [live EXCEPT ![f] = r]
      /\ cmd[p].pc = "copy" /\ UNCHANGED <<runs, lock>>
      /\ Others(p) /\ SameWork(p) /\ cmd'[p].todo = cmd[p].todo \ {f}
      /\ cmd'[p].pc = IF cmd'[p].todo = {} THEN "commit" ELSE "copy"
  BY <1>file, <1>frame DEF Copy
<1>2. runs[r].phase = "approved" /\ cmd[p].kind = "deploy"
  BY <1>1 DEF SelfmodInv, PhasesFit, PhaseFits
<1>3. /\ runs[r].bundle # "partial"
      /\ cmd[p].todo \subseteq runs[r].changed
      /\ Deployed(r, runs[r].changed \ cmd[p].todo)
      /\ FilesFitRun(r) /\ runs[r].changed \subseteq FilesOf[r] /\ lock.run = r
  BY <1>1, LockedPhase
  DEF SelfmodInv, ProgressFits, Progress, FilesFit, FilesFitRun, LockedPcs
<1>4. FilesFitRun(r)'
  BY <1>1, <1>2, <1>3 DEF FilesFitRun, Untouched
<1>5. PhaseFits(p, r)'
  BY <1>1, <1>2 DEF PhaseFits, SameWork, RestoringPcs, EarlyPcs, AgentPcs, RejectingPcs
<1>6. Deployed(r, runs[r].changed \ (cmd[p].todo \ {f}))'
  BY <1>1, <1>3, SelfmodAssumption DEF Deployed, SelfmodInv, SelfmodTypeOK
<1>7. Progress(p, r)'
  BY <1>1, <1>3, <1>6 DEF Progress, Deployed
<1>8. runs[r].phase \in RecoverablePhases
  BY <1>2 DEF RecoverablePhases
<1>9. \A g \in Files \ FilesOf[r] : live'[g] = live[g]
  BY <1>1, <1>3 DEF SelfmodInv, SelfmodTypeOK
<1>10. QED
  BY <1>1, <1>4, <1>5, <1>7, <1>8, <1>9, LockedStep DEF LockedPcs, Rows

\* The steps between the last copy and the end that change no row.
LEMMA CommitDeployedStep ==
    ASSUME SelfmodInv, DisjointRuns, NEW p \in Processes, NEW r \in Runs,
           cmd[p].run = r, CommitDeployed(p, r)
    PROVE  Rest'
<1>1. /\ cmd[p].pc = "commit" /\ UNCHANGED <<runs, lock, live>>
      /\ Others(p) /\ SameWork(p) /\ cmd'[p].pc \in {"record", "except"}
  BY GotoFrame DEF CommitDeployed, SelfmodInv, SelfmodTypeOK, CmdOK
<1>2. FilesFitRun(r)'
  BY <1>1 DEF SelfmodInv, FilesFit, FilesFitRun, Clean, Deployed
<1>3. runs[r].phase = "approved" /\ cmd[p].kind = "deploy"
  BY <1>1 DEF SelfmodInv, PhasesFit, PhaseFits
<1>4. PhaseFits(p, r)'
  BY <1>1, <1>3 DEF PhaseFits, SameWork, RestoringPcs, EarlyPcs, AgentPcs, RejectingPcs
<1>5. Progress(p, r)'
  BY <1>1 DEF SelfmodInv, ProgressFits, Progress, SameWork, Clean, Deployed
<1>6. QED
  BY <1>1, <1>2, <1>3, <1>4, <1>5, LockedStep DEF LockedPcs, Rows, RecoverablePhases

LEMMA RecordDeployedStep ==
    ASSUME SelfmodInv, DisjointRuns, NEW p \in Processes, NEW r \in Runs,
           cmd[p].run = r, RecordDeployed(p, r)
    PROVE  Rest'
<1>1. /\ cmd[p].pc = "record" /\ UNCHANGED <<lock, live>>
      /\ Others(p) /\ SameWork(p) /\ cmd'[p].pc = "conclude"
      /\ Rows(r) /\ SameFiles(r) /\ runs'[r].phase = runs[r].phase
  BY GotoFrame
  DEF RecordDeployed, SelfmodInv, SelfmodTypeOK, CmdOK, Run, Rows, SameFiles
<1>2. FilesFitRun(r)'
  BY <1>1 DEF SelfmodInv, FilesFit, FilesFitRun, Clean, Deployed, SameFiles
<1>3. runs[r].phase = "approved" /\ cmd[p].kind = "deploy"
  BY <1>1 DEF SelfmodInv, PhasesFit, PhaseFits
<1>4. PhaseFits(p, r)'
  BY <1>1, <1>3 DEF PhaseFits, SameWork, RestoringPcs, EarlyPcs, AgentPcs, RejectingPcs
<1>5. Progress(p, r)'
  BY <1>1 DEF SelfmodInv, ProgressFits, Progress, SameWork, SameFiles, Deployed
<1>6. QED
  BY <1>1, <1>2, <1>3, <1>4, <1>5, LockedStep DEF LockedPcs, RecoverablePhases

LEMMA ConcludeStep ==
    ASSUME SelfmodInv, DisjointRuns, NEW p \in Processes, NEW r \in Runs,
           cmd[p].run = r, Conclude(p, r)
    PROVE  Rest'
<1>1. cmd[p].pc = "conclude" /\ UNCHANGED <<lock, live>>
  BY DEF Conclude
<1>2. runs[r].phase = "approved" /\ cmd[p].kind = "deploy"
  BY <1>1 DEF SelfmodInv, PhasesFit, PhaseFits
<1>3. /\ Others(p) /\ SameWork(p) /\ cmd'[p].pc = "health"
      /\ Rows(r) /\ SameFiles(r) /\ runs'[r].phase = "deployed"
  BY <1>2, GotoFrame, PhaseFrame
  DEF Conclude, SelfmodInv, SelfmodTypeOK, CmdOK, RunsOK
<1>4. Deployed(r, runs[r].changed) /\ FilesFitRun(r)
  BY <1>1 DEF SelfmodInv, ProgressFits, Progress, FilesFit
<1>5. FilesFitRun(r)'
  BY <1>1, <1>3, <1>4 DEF FilesFitRun, Clean, Deployed, SameFiles, Untouched
<1>6. PhaseFits(p, r)'
  BY <1>2, <1>3 DEF PhaseFits, SameWork, RestoringPcs, EarlyPcs, AgentPcs, RejectingPcs
<1>7. Progress(p, r)'
  BY <1>3 DEF Progress
<1>8. QED
  BY <1>1, <1>2, <1>3, <1>5, <1>6, <1>7, LockedStep DEF LockedPcs, RecoverablePhases

\* A deployment that fails turns into a restoration of all the run's files.
LEMMA TurnBack ==
    ASSUME SelfmodInv, DisjointRuns, NEW p \in Processes, NEW r \in Runs,
           cmd[p].run = r, cmd[p].pc \in {"health", "except", "conflicts"},
           NEW from, Phase(r, from, "rollback_requested"),
           Schedule(p, FilesOf[r], "restore"), UNCHANGED <<lock, live>>
    PROVE  Rest'
<1>1. /\ Others(p) /\ SameWork(p) /\ cmd'[p].pc = "restore"
      /\ cmd'[p].todo = FilesOf[r]
      /\ Rows(r) /\ SameFiles(r) /\ runs'[r].phase = "rollback_requested"
  BY ScheduleFrame, PhaseFrame DEF SelfmodInv, SelfmodTypeOK, CmdOK, RunsOK
<1>2. FilesFitRun(r)'
  BY <1>1 DEF SelfmodInv, FilesFit, FilesFitRun, Clean, SameFiles, Untouched
<1>3. PhaseFits(p, r)'
  BY <1>1 DEF PhaseFits, RestoringPcs, EarlyPcs, AgentPcs, RejectingPcs
<1>4. Progress(p, r)'
  BY <1>1 DEF Progress
<1>5. runs[r].phase \in RecoverablePhases
  BY LockedPhase DEF LockedPcs
<1>6. QED
  BY <1>1, <1>2, <1>3, <1>4, <1>5, LockedStep DEF LockedPcs, RecoverablePhases

\* A command gives up, or has done: what is left is to release the lock.
LEMMA ToUnlock ==
    ASSUME SelfmodInv, DisjointRuns, NEW p \in Processes, NEW r \in Runs,
           cmd[p].run = r, cmd[p].pc \in LockedPcs \ {"unlock"},
           runs[r].phase = "approved" => cmd[p].pc = "check",
           Goto(p, "unlock"), UNCHANGED <<runs, lock, live>>
    PROVE  Rest'
<1>1. Others(p) /\ SameWork(p) /\ cmd'[p].pc = "unlock"
  BY GotoFrame DEF SelfmodInv, SelfmodTypeOK, CmdOK
<1>2. FilesFitRun(r)'
  BY DEF SelfmodInv, FilesFit, FilesFitRun, Clean, Deployed
<1>3. PhaseFits(p, r)'
  BY <1>1 DEF PhaseFits, RestoringPcs, EarlyPcs, AgentPcs, RejectingPcs
<1>4. Progress(p, r)'
  BY <1>1 DEF SelfmodInv, ProgressFits, Progress, Clean
<1>5. runs[r].phase \in RecoverablePhases
  BY LockedPhase
<1>6. QED
  BY <1>1, <1>2, <1>3, <1>4, <1>5, LockedStep DEF LockedPcs, Rows

LEMMA HealthStep ==
    ASSUME SelfmodInv, DisjointRuns, NEW p \in Processes, NEW r \in Runs,
           cmd[p].run = r, Health(p, r)
    PROVE  Rest'
<1>1. cmd[p].pc = "health" /\ runs[r].phase = "deployed"
  BY DEF Health, SelfmodInv, PhasesFit, PhaseFits
<1>2. QED
  BY <1>1, TurnBack, ToUnlock DEF Health, LockedPcs

LEMMA ExceptStep ==
    ASSUME SelfmodInv, DisjointRuns, NEW p \in Processes, NEW r \in Runs,
           cmd[p].run = r, Except(p, r)
    PROVE  Rest'
BY TurnBack, ToUnlock DEF Except, LockedPcs

LEMMA ConflictsStep ==
    ASSUME SelfmodInv, DisjointRuns, NEW p \in Processes, NEW r \in Runs,
           cmd[p].run = r, Conflicts(p, r)
    PROVE  Rest'
<1>1. cmd[p].pc = "conflicts" /\ runs[r].phase = "deployed"
  BY DEF Conflicts, SelfmodInv, PhasesFit, PhaseFits
<1>2. QED
  BY <1>1, TurnBack, ToUnlock DEF Conflicts, LockedPcs

LEMMA RestoreStep ==
    ASSUME SelfmodInv, DisjointRuns, NEW p \in Processes, NEW r \in Runs,
           cmd[p].run = r, Restore(p, r)
    PROVE  Rest'
<1>1. cmd[p].pc = "restore" /\ runs[r].phase = "rollback_requested"
  BY DEF Restore, SelfmodInv, PhasesFit, PhaseFits, RestoringPcs
<1>2. CASE Goto(p, "unlock") /\ UNCHANGED live
  BY <1>1, <1>2, ToUnlock DEF Restore, LockedPcs
<1>3. CASE \E f \in cmd[p].todo :
              /\ live' = [live EXCEPT ![f] = runs[r].manifest[f]]
              /\ LET left == cmd[p].todo \ {f}
                 IN  Schedule(p, left, IF left = {} THEN "recommit" ELSE "restore")
  <2>file. PICK f \in cmd[p].todo :
            /\ live' = [live EXCEPT ![f] = runs[r].manifest[f]]
            /\ Schedule(p, cmd[p].todo \ {f},
                        IF cmd[p].todo \ {f} = {} THEN "recommit" ELSE "restore")
    BY <1>3
  <2>1. /\ live' = [live EXCEPT ![f] = runs[r].manifest[f]]
        /\ Others(p) /\ SameWork(p) /\ cmd'[p].todo = cmd[p].todo \ {f}
        /\ cmd'[p].pc = IF cmd'[p].todo = {} THEN "recommit" ELSE "restore"
    BY <2>file, ScheduleFrame DEF SelfmodInv, SelfmodTypeOK, CmdOK
  <2>2. UNCHANGED <<runs, lock>>
    BY DEF Restore
  <2>3. /\ cmd[p].todo \subseteq FilesOf[r] /\ FilesFitRun(r)
        /\ \A g \in FilesOf[r] \ cmd[p].todo : live[g] # r
        /\ runs[r].manifest[f] # r
    BY <1>1, <2>1 DEF SelfmodInv, ProgressFits, Progress, FilesFit, FilesFitRun
  <2>4. \A g \in FilesOf[r] : live'[g] = r => live[g] = r
    BY <2>1, <2>3, SelfmodAssumption DEF SelfmodInv, SelfmodTypeOK
  <2>5. FilesFitRun(r)'
    BY <1>1, <2>2, <2>3, <2>4 DEF FilesFitRun, Clean, Untouched
  <2>6. PhaseFits(p, r)'
    BY <1>1, <2>1, <2>2 DEF PhaseFits, RestoringPcs, EarlyPcs, AgentPcs, RejectingPcs
  <2>7. \A g \in FilesOf[r] \ (cmd[p].todo \ {f}) : live'[g] # r
    BY <2>1, <2>3, SelfmodAssumption DEF SelfmodInv, SelfmodTypeOK
  <2>8. Progress(p, r)'
    BY <2>1, <2>3, <2>7 DEF Progress, Clean
  <2>9. \A g \in Files \ FilesOf[r] : live'[g] = live[g]
    BY <2>1, <2>3 DEF SelfmodInv, SelfmodTypeOK
  <2>10. QED
    BY <1>1, <2>1, <2>2, <2>5, <2>6, <2>8, <2>9, LockedStep
    DEF LockedPcs, RecoverablePhases, Rows
<1>4. QED
  BY <1>2, <1>3 DEF Restore

LEMMA CommitRestoredStep ==
    ASSUME SelfmodInv, DisjointRuns, NEW p \in Processes, NEW r \in Runs,
           cmd[p].run = r, CommitRestored(p, r)
    PROVE  Rest'
<1>1. cmd[p].pc = "recommit" /\ runs[r].phase = "rollback_requested"
  BY DEF CommitRestored, SelfmodInv, PhasesFit, PhaseFits, RestoringPcs
<1>2. UNCHANGED <<runs, lock, live>>
  BY DEF CommitRestored
<1>3. CASE Goto(p, "unlock")
  BY <1>1, <1>2, <1>3, ToUnlock DEF LockedPcs
<1>4. CASE Goto(p, "finish")
  <2>1. Others(p) /\ SameWork(p) /\ cmd'[p].pc = "finish"
    BY <1>4, GotoFrame DEF SelfmodInv, SelfmodTypeOK, CmdOK
  <2>2. FilesFitRun(r)'
    BY <1>2 DEF SelfmodInv, FilesFit, FilesFitRun, Clean, Deployed
  <2>3. PhaseFits(p, r)'
    BY <1>1, <1>2, <2>1 DEF PhaseFits, RestoringPcs, EarlyPcs, AgentPcs, RejectingPcs
  <2>4. Progress(p, r)'
    BY <1>1, <1>2, <2>1 DEF SelfmodInv, ProgressFits, Progress, Clean
  <2>5. QED
    BY <1>1, <1>2, <2>1, <2>2, <2>3, <2>4, LockedStep
    DEF LockedPcs, RecoverablePhases, Rows
<1>5. QED
  BY <1>3, <1>4 DEF CommitRestored

LEMMA FinishRestoreStep ==
    ASSUME SelfmodInv, DisjointRuns, NEW p \in Processes, NEW r \in Runs,
           cmd[p].run = r, FinishRestore(p, r)
    PROVE  Rest'
<1>1. cmd[p].pc = "finish" /\ runs[r].phase = "rollback_requested"
        /\ UNCHANGED <<lock, live>>
  BY DEF FinishRestore, SelfmodInv, PhasesFit, PhaseFits, RestoringPcs
<1>2. /\ Others(p) /\ SameWork(p) /\ cmd'[p].pc = "unlock"
      /\ Rows(r) /\ SameFiles(r) /\ runs'[r].phase = "restored"
  BY <1>1, GotoFrame, PhaseFrame
  DEF FinishRestore, SelfmodInv, SelfmodTypeOK, CmdOK, RunsOK
<1>3. FilesFitRun(r) /\ Clean(r)
  BY <1>1 DEF SelfmodInv, FilesFit, ProgressFits, Progress
<1>4. FilesFitRun(r)'
  BY <1>1, <1>2, <1>3 DEF FilesFitRun, Clean, SameFiles
<1>5. PhaseFits(p, r)'
  BY <1>2 DEF PhaseFits, RestoringPcs, EarlyPcs, AgentPcs, RejectingPcs
<1>6. Progress(p, r)'
  BY <1>2 DEF Progress
<1>7. QED
  BY <1>1, <1>2, <1>4, <1>5, <1>6, LockedStep DEF LockedPcs, RecoverablePhases

\* Taking, giving back and recovering the lock.

LEMMA UnlockStep ==
    ASSUME SelfmodInv, DisjointRuns, NEW p \in Processes, NEW r \in Runs,
           cmd[p].run = r, Unlock(p, r)
    PROVE  Rest'
<1>1. /\ cmd[p].pc = "unlock" /\ UNCHANGED <<runs, live>>
      /\ Others(p) /\ cmd'[p].pc = "idle" /\ cmd'[p].kind = "none"
      /\ cmd'[p].run = NoRun
  BY DoneFrame DEF Unlock, SelfmodInv, SelfmodTypeOK, CmdOK
<1>2. lock.owner = p /\ lock.run = r /\ lock' = Free
  BY <1>1 DEF Unlock, SelfmodInv, LockFits, LockedPcs
<1>3. \A q \in Processes \ {p} : cmd[q].pc \notin LockedPcs
  BY <1>2 DEF SelfmodInv, LockHeld
<1>4. CommandsFit'
  BY <1>1 DEF SelfmodInv, CommandsFit, Others, TouchingPcs, TouchingKinds, LockedPcs,
              AgentPcs, RejectingPcs
<1>5. LockFits'
  BY <1>1, <1>2, <1>3, SelfmodAssumption
  DEF SelfmodInv, LockFits, Others, Free, LockedPcs
<1>6. OneToucher'
  BY <1>1, <1>2, SelfmodAssumption
  DEF SelfmodInv, OneToucher, Others, Free, TouchingKinds, SelfmodTypeOK, Command,
      CommandsFit
<1>7. OneAgent' /\ NoWorkOnAbsent'
  BY <1>1, SelfmodAssumption DEF SelfmodInv, OneAgent, NoWorkOnAbsent, Others
<1>8. runs[r].phase = "approved" => Clean(r)
  BY <1>1 DEF SelfmodInv, ProgressFits, Progress
<1>9. FilesFitRun(r)'
  BY <1>1, <1>2, <1>8 DEF SelfmodInv, FilesFit, FilesFitRun, Clean, Deployed
<1>10. ASSUME NEW q \in Processes, cmd'[q].run = r
       PROVE  PhaseFits(q, r)' /\ Progress(q, r)'
  <2>1. cmd'[q] = cmd[q] /\ PhaseFits(q, r) /\ Progress(q, r)
    BY <1>1, <1>10, SelfmodAssumption
    DEF Others, SelfmodInv, PhasesFit, ProgressFits
  <2>2. QED
    BY <1>1, <2>1 DEF PhaseFits, Progress, Clean, Deployed
<1>11. OnlyRun(r)
  BY <1>1, <1>2, SelfmodAssumption DEF OnlyRun, Rows, Others, Free
<1>12. QED
  BY <1>4, <1>5, <1>6, <1>7, <1>9, <1>10, <1>11, OneRunMatters DEF Rest

\* An operator who acts in order takes the lock only when nobody has it.
LEMMA LockStep ==
    ASSUME SelfmodInv, DisjointRuns, Orderly, NEW p \in Processes, NEW r \in Runs,
           cmd[p].run = r, Lock(p, r)
    PROVE  Rest'
<1>1. cmd[p].pc = "lock" /\ UNCHANGED <<runs, live>>
  BY DEF Lock
<1>2. /\ cmd[p].kind \in {"deploy", "rollback"} /\ lock.run # r
      /\ runs[r].phase = IF cmd[p].kind = "deploy" THEN "approved" ELSE "deployed"
  BY <1>1 DEF SelfmodInv, CommandsFit, OneToucher, TouchingPcs, TouchingKinds,
              PhasesFit, PhaseFits
<1>3. FilesFitRun(r) /\ (runs[r].phase = "approved" => Clean(r))
  BY <1>2 DEF SelfmodInv, FilesFit, FilesFitRun
<1>4. ASSUME NEW q \in Processes \ {p}, cmd[q].run = r
      PROVE  cmd[q].pc = "release"
  BY <1>2, <1>4, Alone DEF TouchingKinds, RecoverablePhases
<1>5. FilesFitRun(r)'
  BY <1>1, <1>3 DEF FilesFitRun, Clean, Deployed
<1>6. CASE /\ Stale /\ lock.owner = NoProcess
           /\ lock' = [owner |-> p, run |-> r]
           /\ Goto(p, IF cmd[p].kind = "deploy" THEN "check" ELSE "conflicts")
  <2>1. /\ Others(p) /\ SameWork(p)
        /\ cmd'[p].pc = IF cmd[p].kind = "deploy" THEN "check" ELSE "conflicts"
    BY <1>6, GotoFrame DEF SelfmodInv, SelfmodTypeOK, CmdOK
  <2>2. \A q \in Processes : cmd[q].pc \notin LockedPcs
    BY <1>6, StaleMeansEmpty DEF SelfmodInv
  <2>3. CommandsFit'
    BY <1>1, <1>2, <2>1
    DEF SelfmodInv, CommandsFit, Others, SameWork, TouchingPcs, LockedPcs,
        AgentPcs, RejectingPcs
  <2>4. LockFits'
    BY <1>6, <2>1, <2>2 DEF LockFits, Others, SameWork, LockedPcs
  <2>5. OneToucher'
    BY <1>1, <1>2, <1>6, <2>1
    DEF SelfmodInv, OneToucher, Others, SameWork, TouchingKinds
  <2>6. OneAgent' /\ NoWorkOnAbsent'
    BY <1>1, <2>1 DEF SelfmodInv, OneAgent, NoWorkOnAbsent, Others, SameWork
  <2>7. ASSUME NEW q \in Processes, cmd'[q].run = r
        PROVE  PhaseFits(q, r)' /\ Progress(q, r)'
    <3>1. CASE q = p
      BY <1>1, <1>2, <1>3, <2>1, <3>1
      DEF PhaseFits, Progress, SameWork, Clean, RestoringPcs, EarlyPcs, AgentPcs,
          RejectingPcs
    <3>2. CASE q # p
      BY <1>4, <2>1, <2>7, <3>2
      DEF PhaseFits, Progress, Others, RestoringPcs, EarlyPcs, RejectingPcs
    <3>3. QED
      BY <3>1, <3>2
  <2>8. lock.run = NoRun
    BY <1>6, SelfmodAssumption DEF SelfmodInv, SelfmodTypeOK, Free
  <2>9. OnlyRun(r)
    BY <1>1, <1>6, <2>1, <2>8, SelfmodAssumption DEF OnlyRun, Rows, Others, SameWork
  <2>10. QED
    BY <1>5, <2>3, <2>4, <2>5, <2>6, <2>7, <2>9, OneRunMatters DEF Rest
<1>7. CASE Done(p) /\ UNCHANGED lock
  <2>1. /\ Others(p) /\ cmd'[p].pc = "idle" /\ cmd'[p].kind = "none"
        /\ cmd'[p].run = NoRun
    BY <1>7, DoneFrame DEF SelfmodInv, SelfmodTypeOK, CmdOK
  <2>2. CommandsFit'
    BY <2>1 DEF SelfmodInv, CommandsFit, Others, TouchingPcs, TouchingKinds, LockedPcs,
                AgentPcs, RejectingPcs
  <2>3. LockFits'
    BY <1>1, <1>7, <2>1 DEF SelfmodInv, LockFits, Others, LockedPcs
  <2>4. OneToucher'
    BY <1>7, <2>1 DEF SelfmodInv, OneToucher, Others, TouchingKinds
  <2>5. OneAgent' /\ NoWorkOnAbsent'
    BY <1>1, <2>1, SelfmodAssumption DEF SelfmodInv, OneAgent, NoWorkOnAbsent, Others
  <2>6. ASSUME NEW q \in Processes, cmd'[q].run = r
        PROVE  PhaseFits(q, r)' /\ Progress(q, r)'
    BY <1>4, <2>1, <2>6, SelfmodAssumption
    DEF PhaseFits, Progress, Others, RestoringPcs, EarlyPcs, RejectingPcs
  <2>7. OnlyRun(r)
    BY <1>1, <1>7, <2>1 DEF OnlyRun, Rows, Others
  <2>8. QED
    BY <1>5, <2>2, <2>3, <2>4, <2>5, <2>6, <2>7, OneRunMatters DEF Rest
<1>8. QED
  BY <1>6, <1>7 DEF Lock

LEMMA RecoverStep ==
    ASSUME SelfmodInv, DisjointRuns, NEW p \in Processes, Recover(p)
    PROVE  Rest'
<1>run. PICK r \in Runs : r = lock.run
  BY OwnedLock DEF Recover, SelfmodInv
<1>1. /\ r = lock.run /\ lock.owner \in Processes /\ cmd[lock.owner].pc = "dead"
      /\ cmd[p].pc = "idle" /\ UNCHANGED live
  BY <1>run, OwnedLock DEF Recover, Stale, Alive, SelfmodInv
<1>2. ASSUME NEW q \in Processes
      PROVE  cmd[q].pc \notin LockedPcs
  BY StaleMeansEmpty DEF Recover, SelfmodInv
<1>3. ASSUME NEW q \in Processes, cmd[q].run = r
      PROVE  cmd[q].kind \notin TouchingKinds
  BY <1>1, <1>2, <1>3 DEF SelfmodInv, OneToucher, CommandsFit, TouchingPcs
<1>4. cmd[p].run = NoRun /\ cmd[p].kind \notin TouchingKinds \cup {"agent"}
  BY <1>1 DEF SelfmodInv, CommandsFit, TouchingPcs, LockedPcs, AgentPcs, RejectingPcs
<1>5. CASE /\ Phase(r, RecoverablePhases, "rollback_requested")
           /\ cmd' = [cmd EXCEPT ![p] = [pc |-> "restore", kind |-> "recover",
                         run |-> r, todo |-> FilesOf[r]]]
           /\ lock' = [lock EXCEPT !.owner = p]
  <2>1. /\ Others(p) /\ cmd'[p].pc = "restore" /\ cmd'[p].kind = "recover"
        /\ cmd'[p].run = r /\ cmd'[p].todo = FilesOf[r]
    BY <1>5 DEF SelfmodInv, SelfmodTypeOK, Others
  <2>2. /\ Rows(r) /\ SameFiles(r) /\ runs[r].phase \in RecoverablePhases
        /\ runs'[r].phase = "rollback_requested"
    BY <1>1, <1>5, PhaseFrame DEF SelfmodInv, SelfmodTypeOK, RunsOK
  <2>3. lock' = [owner |-> p, run |-> r]
    BY <1>1, <1>5 DEF SelfmodInv, SelfmodTypeOK, Free
  <2>4. CommandsFit'
    BY <1>1, <2>1, SelfmodAssumption
    DEF SelfmodInv, CommandsFit, Others, TouchingPcs, TouchingKinds, LockedPcs,
        AgentPcs, RejectingPcs
  <2>5. LockFits'
    BY <1>2, <2>1, <2>3 DEF LockFits, Others, LockedPcs
  <2>6. OneToucher'
    BY <1>3, <2>1, <2>3 DEF SelfmodInv, OneToucher, Others
  <2>7. OneAgent' /\ NoWorkOnAbsent'
    <3>1. \A q \in Processes :
              Worked(q) \/ (cmd'[q].kind # "agent" /\ cmd'[q].run = r)
      <4>1. cmd'[p].kind # "agent" /\ cmd'[p].run = r
        BY <2>1
      <4>2. \A q \in Processes \ {p} : Worked(q)
        BY <2>1 DEF Others, Worked
      <4>3. QED
        BY <4>1, <4>2
    <3>2. QED
      BY <1>1, <2>2, <3>1, AgentsKept
  <2>8. FilesFitRun(r)'
    BY <1>1, <2>2 DEF SelfmodInv, FilesFit, FilesFitRun, Clean, SameFiles, Untouched
  <2>9. ASSUME NEW q \in Processes, cmd'[q].run = r
        PROVE  PhaseFits(q, r)' /\ Progress(q, r)'
    <3>1. CASE q = p
      BY <2>1, <2>2, <3>1
      DEF PhaseFits, Progress, RestoringPcs, EarlyPcs, AgentPcs, RejectingPcs
    <3>2. CASE q # p
      <4>1. cmd'[q] = cmd[q] /\ cmd[q].run = r
        BY <2>1, <2>9, <3>2 DEF Others
      <4>2. cmd[q].pc \notin TouchingPcs
        BY <1>3, <4>1 DEF SelfmodInv, CommandsFit
      <4>3. cmd[q].pc \notin EarlyPcs \cup RejectingPcs
        BY <1>1, <2>2, <4>1 DEF SelfmodInv, PhasesFit, PhaseFits, RecoverablePhases
      <4>4. QED
        BY <4>1, <4>2, <4>3
        DEF PhaseFits, Progress, RestoringPcs, EarlyPcs, AgentPcs, RejectingPcs,
            TouchingPcs, LockedPcs
    <3>3. QED
      BY <3>1, <3>2
  <2>10. OnlyRun(r)
    BY <1>1, <2>1, <2>2, <2>3 DEF OnlyRun, Others
  <2>11. QED
    BY <1>1, <2>4, <2>5, <2>6, <2>7, <2>8, <2>9, <2>10, OneRunMatters DEF Rest
<1>6. CASE /\ runs[r].phase \notin RecoverablePhases
           /\ lock' = Free /\ UNCHANGED <<runs, cmd>>
  <2>1. CommandsFit' /\ OneAgent' /\ NoWorkOnAbsent' /\ PhasesFit'
    BY <1>6 DEF SelfmodInv, CommandsFit, OneAgent, NoWorkOnAbsent, PhasesFit, PhaseFits
  <2>2. LockFits'
    BY <1>2, <1>6, SelfmodAssumption DEF LockFits, Free
  <2>3. OneToucher'
    BY <1>6, SelfmodAssumption
    DEF SelfmodInv, OneToucher, Free, SelfmodTypeOK, Command, CommandsFit,
        TouchingPcs, LockedPcs
  <2>4. FilesFit'
    BY <1>1, <1>6
    DEF SelfmodInv, FilesFit, FilesFitRun, Clean, Deployed, Free, RecoverablePhases
  <2>5. ProgressFits'
    BY <1>1, <1>6 DEF SelfmodInv, ProgressFits, Progress, Clean, Deployed
  <2>6. QED
    BY <2>1, <2>2, <2>3, <2>4, <2>5 DEF Rest
<1>7. QED
  BY <1>run, <1>5, <1>6 DEF Recover

\* The agent and the restoration after a rejection.

\* A step of an agent or of a rejection stays with its kind of pcs.
LEMMA UnlockedCommands ==
    ASSUME SelfmodInv, NEW p \in Processes, UNCHANGED lock, Others(p),
           cmd[p].pc \in AgentPcs \cup RejectingPcs,
           \/ /\ SameWork(p)
              /\ \/ cmd'[p].pc \in AgentPcs /\ cmd[p].kind = "agent"
                 \/ cmd'[p].pc \in RejectingPcs
           \/ cmd'[p].pc = "idle" /\ cmd'[p].kind = "none" /\ cmd'[p].run = NoRun
    PROVE  CommandsFit' /\ LockFits' /\ OneToucher'
<1>1. cmd[p].kind \in {"agent", "reject"} /\ cmd[p].run # NoRun
  BY DEF SelfmodInv, CommandsFit, AgentPcs, RejectingPcs
<1>2. CommandsFit'
  BY <1>1 DEF SelfmodInv, CommandsFit, Others, SameWork, TouchingPcs, LockedPcs,
              TouchingKinds, AgentPcs, RejectingPcs
<1>3. LockFits'
  BY DEF SelfmodInv, LockFits, Others, LockedPcs, AgentPcs, RejectingPcs
<1>4. OneToucher'
  BY <1>1 DEF SelfmodInv, OneToucher, Others, SameWork, TouchingKinds
<1>5. QED
  BY <1>2, <1>3, <1>4

\* Who else works for a run whose candidate is being edited.
LEMMA AloneEarly ==
    ASSUME SelfmodInv, NEW p \in Processes, NEW r \in Runs, NEW q \in Processes,
           cmd[p].run = r, cmd[p].pc \in EarlyPcs, q # p, cmd[q].run = r
    PROVE  cmd[q].pc \in RejectingPcs \cup {"unlock"}
<1>1. cmd[q].pc \notin AgentPcs
  BY DEF SelfmodInv, CommandsFit, OneAgent, EarlyPcs
<1>2. cmd[q].pc \notin TouchingPcs \ {"unlock"}
  BY DEF SelfmodInv, CommandsFit, PhasesFit, PhaseFits, TouchingPcs, TouchingKinds,
         LockedPcs, RestoringPcs, EarlyPcs
<1>3. cmd[q].pc \notin {"idle", "dead"}
  BY SelfmodAssumption DEF SelfmodInv, CommandsFit
<1>4. QED
  BY <1>1, <1>2, <1>3 DEF SelfmodInv, SelfmodTypeOK, Command, TouchingPcs, LockedPcs,
                          RejectingPcs

\* A step of the agent, of which only the run's own facts are open.
LEMMA AgentStep ==
    ASSUME SelfmodInv, DisjointRuns, NEW p \in Processes, NEW r \in Runs,
           cmd[p].run = r, cmd[p].pc \in EarlyPcs, UNCHANGED <<lock, live>>,
           Others(p), Rows(r),
           \/ /\ SameWork(p)
              /\ cmd'[p].pc \in AgentPcs \cup RejectingPcs
           \/ cmd'[p].pc = "idle" /\ cmd'[p].kind = "none" /\ cmd'[p].run = NoRun,
           runs'[r].phase \notin {"absent", "approved"},
           runs'[r].phase = "proposed" => runs[r].phase = "proposed"
                                            /\ runs'[r].bundle # "none",
           runs[r].phase \in {"rejected", "restored"}
               => runs'[r].phase = runs[r].phase,
           FilesFitRun(r)', cmd'[p].run = r => PhaseFits(p, r)' /\ Progress(p, r)'
    PROVE  Rest'
<1>1. cmd[p].kind = "agent"
  BY DEF SelfmodInv, CommandsFit, EarlyPcs
<1>2. CommandsFit' /\ LockFits' /\ OneToucher'
  BY <1>1, UnlockedCommands DEF EarlyPcs
<1>3. OneAgent' /\ NoWorkOnAbsent'
  <2>1. \A q \in Processes : \/ Worked(q)
                             \/ cmd'[q].run = NoRun /\ cmd'[q].kind = "none"
    <3>1. \A q \in Processes \ {p} : Worked(q)
      BY DEF Others, Worked
    <3>2. Worked(p) \/ (cmd'[p].run = NoRun /\ cmd'[p].kind = "none")
      BY DEF SameWork, Worked
    <3>3. QED
      BY <3>1, <3>2
  <2>2. QED
    BY <2>1, AgentsKept
<1>4. OnlyRun(r)
  BY DEF OnlyRun, Others, SameWork
<1>5. ASSUME NEW q \in Processes, cmd'[q].run = r
      PROVE  PhaseFits(q, r)' /\ Progress(q, r)'
  <2>1. CASE q = p
    BY <1>5, <2>1
  <2>2. CASE q # p
    <3>1. cmd'[q] = cmd[q] /\ cmd[q].run = r
      BY <1>5, <2>2 DEF Others
    <3>2. cmd[q].pc \in RejectingPcs \cup {"unlock"}
      BY <2>2, <3>1, AloneEarly
    <3>3. PhaseFits(q, r) /\ Progress(q, r)
      BY <3>1 DEF SelfmodInv, PhasesFit, ProgressFits
    <3>4. QED
      BY <3>1, <3>2, <3>3
      DEF PhaseFits, Progress, Clean, RestoringPcs, EarlyPcs, AgentPcs, RejectingPcs
  <2>3. QED
    BY <2>1, <2>2
<1>6. PhasesFit' /\ FilesFit' /\ ProgressFits'
  BY <1>4, <1>5, OneRunMatters
<1>7. QED
  BY <1>2, <1>3, <1>6 DEF Rest

LEMMA EarlySteps ==
    ASSUME SelfmodInv, DisjointRuns, NEW p \in Processes, NEW r \in Runs,
           cmd[p].run = r,
           \/ PrepareWorkspace(p, r) \/ BeginTesting(p, r) \/ Review(p, r)
           \/ FailRun(p, r)
    PROVE  Rest'
<1> DEFINE Now == runs[r].phase  Then == runs'[r].phase
<1>1. cmd[p].pc \in EarlyPcs /\ UNCHANGED <<lock, live>>
  BY DEF PrepareWorkspace, BeginTesting, Review, FailRun, EarlyPcs, AgentPcs
<1>2. Now \notin {"absent", "approved", "reviewing", "deployed", "rollback_requested"}
  BY <1>1 DEF SelfmodInv, PhasesFit, PhaseFits, NoWorkOnAbsent
<1>3. /\ Others(p) /\ Rows(r) /\ SameFiles(r)
      /\ \/ Then = Now
         \/ Now = "backed_up" /\ Then = "editing" /\ cmd'[p].pc = "claim"
         \/ Now \in {"editing", "interrupted"} /\ Then = "testing"
              /\ cmd'[p].pc = "review"
         \/ Now = "testing" /\ Then = "reviewing" /\ cmd'[p].pc = "release"
         \/ Now \in {"editing", "testing"} /\ Then = "rejected"
              /\ cmd'[p].pc = "compare"
  <2>1. CASE UNCHANGED runs
    <3>1. Others(p)
      BY <2>1, GotoFrame, DoneFrame
      DEF PrepareWorkspace, BeginTesting, Review, FailRun, SelfmodInv,
          SelfmodTypeOK, CmdOK
    <3>2. QED
      BY <2>1, <3>1 DEF Rows, SameFiles
  <2>2. CASE Phase(r, {"backed_up"}, "editing") /\ Goto(p, "claim")
    BY <2>2, GotoFrame, PhaseFrame DEF SelfmodInv, SelfmodTypeOK, CmdOK, RunsOK
  <2>3. CASE Phase(r, {"editing", "interrupted"}, "testing") /\ Goto(p, "review")
    BY <2>3, GotoFrame, PhaseFrame DEF SelfmodInv, SelfmodTypeOK, CmdOK, RunsOK
  <2>4. CASE Phase(r, {"testing"}, "reviewing") /\ Goto(p, "release")
    BY <2>4, GotoFrame, PhaseFrame DEF SelfmodInv, SelfmodTypeOK, CmdOK, RunsOK
  <2>5. CASE Phase(r, {"testing"}, "rejected") /\ Goto(p, "compare")
    BY <2>5, GotoFrame, PhaseFrame DEF SelfmodInv, SelfmodTypeOK, CmdOK, RunsOK
  <2>6. CASE Phase(r, {"editing", "testing", "reviewing"}, "rejected")
               /\ Goto(p, "compare")
    BY <1>2, <2>6, GotoFrame, PhaseFrame DEF SelfmodInv, SelfmodTypeOK, CmdOK, RunsOK
  <2>7. QED
    BY <2>1, <2>2, <2>3, <2>4, <2>5, <2>6
    DEF PrepareWorkspace, BeginTesting, Review, FailRun
<1>4. \/ /\ SameWork(p)
         /\ cmd'[p].pc \in {"claim", "review", "release", "compare", "failed"}
         /\ cmd'[p].pc = "compare" => Then = "rejected"
      \/ cmd'[p].pc = "idle" /\ cmd'[p].kind = "none" /\ cmd'[p].run = NoRun
  <2>1. ASSUME NEW pc \in {"claim", "review", "release", "compare", "failed"},
               Goto(p, pc), pc = "compare" => Then = "rejected"
        PROVE  <1>4
    BY <2>1, GotoFrame DEF SelfmodInv, SelfmodTypeOK, CmdOK
  <2>2. CASE Done(p)
    BY <2>2, DoneFrame DEF SelfmodInv, SelfmodTypeOK, CmdOK
  <2>3. ASSUME NEW from, Phase(r, from, "rejected") PROVE Then = "rejected"
    BY <2>3, PhaseFrame DEF SelfmodInv, SelfmodTypeOK, RunsOK
  <2>4. QED
    BY <2>1, <2>2, <2>3 DEF PrepareWorkspace, BeginTesting, Review, FailRun
<1>5. FilesFitRun(r) /\ (Now \in Untouched => Clean(r))
  BY DEF SelfmodInv, FilesFit, FilesFitRun
<1>6. FilesFitRun(r)'
  BY <1>1, <1>2, <1>3, <1>5 DEF FilesFitRun, Clean, SameFiles, Untouched
<1>7. ASSUME cmd'[p].run = r PROVE PhaseFits(p, r)' /\ Progress(p, r)'
  <2>1. SameWork(p) /\ cmd'[p].pc \in {"claim", "review", "release", "compare", "failed"}
    BY <1>4, <1>7, SelfmodAssumption
  <2>2. cmd[p].kind = "agent"
    BY <1>1 DEF SelfmodInv, CommandsFit, EarlyPcs
  <2>3. QED
    BY <1>2, <1>3, <1>4, <2>1, <2>2, SelfmodAssumption
    DEF PhaseFits, Progress, RestoringPcs, EarlyPcs, AgentPcs, RejectingPcs
<1>8. Then = "proposed" => Now = "proposed" /\ runs'[r].bundle # "none"
  <2>1. cmd[p].kind = "agent"
    BY <1>1 DEF SelfmodInv, CommandsFit, EarlyPcs
  <2>2. ~ (Now = "proposed" /\ runs[r].bundle = "none")
    BY <2>1 DEF SelfmodInv, OneAgent
  <2>3. QED
    BY <1>3, <2>2 DEF SameFiles
<1>9. Then \notin {"absent", "approved"}
        /\ (Now \in {"rejected", "restored"} => Then = Now)
  BY <1>2, <1>3
<1>10. QED
  BY <1>1, <1>3, <1>4, <1>6, <1>7, <1>8, <1>9, AgentStep DEF AgentPcs, RejectingPcs

LEMMA ClaimStep ==
    ASSUME SelfmodInv, DisjointRuns, NEW p \in Processes, NEW r \in Runs,
           cmd[p].run = r, Claim(p, r)
    PROVE  Rest'
<1>1. /\ cmd[p].pc = "claim" /\ UNCHANGED <<lock, live>>
      /\ Others(p) /\ SameWork(p) /\ cmd'[p].pc = "edit"
      /\ Rows(r) /\ SameFiles(r) /\ runs'[r].phase = runs[r].phase
  BY GotoFrame DEF Claim, SelfmodInv, SelfmodTypeOK, CmdOK, Run, Rows, SameFiles
<1>2. cmd[p].pc \in EarlyPcs
  BY <1>1 DEF EarlyPcs, AgentPcs
<1>3. PhaseFits(p, r) /\ runs[r].phase # "absent" /\ cmd[p].kind = "agent"
        /\ ~ (runs[r].phase = "proposed" /\ runs[r].bundle = "none")
  BY <1>2 DEF SelfmodInv, PhasesFit, NoWorkOnAbsent, OneAgent, CommandsFit, EarlyPcs
<1>4. FilesFitRun(r)'
  BY <1>1 DEF SelfmodInv, FilesFit, FilesFitRun, Clean, Deployed, SameFiles
<1>5. PhaseFits(p, r)' /\ Progress(p, r)'
  BY <1>1, <1>2, <1>3
  DEF PhaseFits, Progress, SameWork, RestoringPcs, EarlyPcs, AgentPcs, RejectingPcs
<1>6. runs'[r].phase \notin {"absent", "approved"}
  BY <1>1, <1>2, <1>3 DEF PhaseFits
<1>7. QED
  BY <1>1, <1>2, <1>3, <1>4, <1>5, <1>6, AgentStep DEF AgentPcs, SameFiles

LEMMA CreateBackupStep ==
    ASSUME SelfmodInv, DisjointRuns, NEW p \in Processes, NEW r \in Runs,
           cmd[p].run = r, CreateBackup(p, r)
    PROVE  Rest'
<1>1. cmd[p].pc = "backup" /\ UNCHANGED <<lock, live>>
  BY DEF CreateBackup
<1>2. /\ runs[r].bundle = "partial" /\ Clean(r) /\ FilesFitRun(r)
      /\ runs[r].phase \notin {"absent", "approved", "deployed", "reviewing",
                               "rollback_requested"}
  BY <1>1 DEF SelfmodInv, PhasesFit, PhaseFits, FilesFit, FilesFitRun, EarlyPcs,
              AgentPcs, NoWorkOnAbsent
<1>3. /\ Rows(r) /\ runs'[r].bundle = "whole" /\ runs'[r].manifest = live
      /\ runs'[r].changed = runs[r].changed
      /\ runs'[r].phase = IF runs[r].phase = "proposed" THEN "backed_up"
                          ELSE runs[r].phase
  BY DEF CreateBackup, SelfmodInv, SelfmodTypeOK, Run, Rows
<1>4. Others(p)
  BY GotoFrame, DoneFrame DEF CreateBackup, SelfmodInv, SelfmodTypeOK, CmdOK
<1>5. \/ /\ SameWork(p) /\ cmd'[p].pc = "workspace"
      \/ cmd'[p].pc = "idle" /\ cmd'[p].kind = "none" /\ cmd'[p].run = NoRun
  BY GotoFrame, DoneFrame DEF CreateBackup, SelfmodInv, SelfmodTypeOK, CmdOK
<1>6. FilesFitRun(r)'
  BY <1>1, <1>2, <1>3 DEF FilesFitRun, Clean, Untouched
<1>7. ASSUME cmd'[p].run = r PROVE PhaseFits(p, r)' /\ Progress(p, r)'
  <2>1. cmd'[p].pc = "workspace" /\ SameWork(p)
    BY <1>5, <1>7, SelfmodAssumption
  <2>2. cmd[p].kind = "agent"
    BY <1>1 DEF SelfmodInv, CommandsFit, AgentPcs
  <2>3. QED
    BY <1>2, <1>3, <2>1, <2>2
    DEF PhaseFits, Progress, SameWork, RestoringPcs, EarlyPcs, AgentPcs, RejectingPcs
<1>8. QED
  BY <1>1, <1>2, <1>3, <1>4, <1>5, <1>6, <1>7, AgentStep DEF AgentPcs, EarlyPcs

LEMMA EditStep ==
    ASSUME SelfmodInv, DisjointRuns, NEW p \in Processes, NEW r \in Runs,
           cmd[p].run = r, Edit(p, r)
    PROVE  Rest'
<1> DEFINE Now == runs[r].phase  Then == runs'[r].phase
<1>1. cmd[p].pc = "edit" /\ UNCHANGED <<lock, live>>
  BY DEF Edit
<1>2. /\ Now \notin {"absent", "approved", "deployed", "reviewing",
                     "rollback_requested"}
      /\ cmd[p].kind = "agent" /\ FilesFitRun(r)
      /\ ~ (Now = "proposed" /\ runs[r].bundle = "none")
  BY <1>1 DEF SelfmodInv, PhasesFit, PhaseFits, FilesFit, EarlyPcs, AgentPcs,
              NoWorkOnAbsent, CommandsFit, OneAgent
<1>3. PICK C \in SUBSET FilesOf[r] :
          /\ Rows(r) /\ runs'[r].bundle = runs[r].bundle
          /\ runs'[r].manifest = runs[r].manifest /\ runs'[r].changed = C
          /\ Others(p) /\ SameWork(p)
          /\ \/ Then = Now /\ cmd'[p].pc \in {"begin", "release"}
             \/ Then = "rejected" /\ cmd'[p].pc = "compare" /\ Now \in OpenPhases
  <2>1. CASE \E C \in SUBSET FilesOf[r] \ {{}} :
                 runs' = [runs EXCEPT ![r].changed = C] /\ Goto(p, "begin")
    BY <2>1, GotoFrame DEF SelfmodInv, SelfmodTypeOK, CmdOK, Run, Rows
  <2>2. CASE /\ runs' = [runs EXCEPT ![r].changed = {}, ![r].phase = "rejected"]
             /\ Goto(p, "compare") /\ Now \in OpenPhases
    <3>1. /\ Rows(r) /\ runs'[r].bundle = runs[r].bundle
          /\ runs'[r].manifest = runs[r].manifest /\ runs'[r].changed = {}
          /\ Then = "rejected"
      BY <2>2 DEF SelfmodInv, SelfmodTypeOK, Run, Rows
    <3>2. Others(p) /\ SameWork(p) /\ cmd'[p].pc = "compare"
      BY <2>2, GotoFrame DEF SelfmodInv, SelfmodTypeOK, CmdOK
    <3>3. {} \in SUBSET FilesOf[r]
      OBVIOUS
    <3>4. QED
      BY <2>2, <3>1, <3>2, <3>3
  <2>3. CASE runs' = [runs EXCEPT ![r].changed = {}] /\ Goto(p, "release")
    <3>1. /\ Rows(r) /\ runs'[r].bundle = runs[r].bundle
          /\ runs'[r].manifest = runs[r].manifest /\ runs'[r].changed = {}
          /\ Then = Now
      BY <2>3 DEF SelfmodInv, SelfmodTypeOK, Run, Rows
    <3>2. Others(p) /\ SameWork(p) /\ cmd'[p].pc = "release"
      BY <2>3, GotoFrame DEF SelfmodInv, SelfmodTypeOK, CmdOK
    <3>3. {} \in SUBSET FilesOf[r]
      OBVIOUS
    <3>4. QED
      BY <3>1, <3>2, <3>3
  <2>4. QED
    BY <2>1, <2>2, <2>3 DEF Edit
<1>4. FilesFitRun(r)'
  BY <1>1, <1>2, <1>3 DEF FilesFitRun, Clean, Untouched
<1>5. PhaseFits(p, r)' /\ Progress(p, r)'
  BY <1>2, <1>3
  DEF PhaseFits, Progress, SameWork, RestoringPcs, EarlyPcs, AgentPcs, RejectingPcs
<1>6. Then \notin {"absent", "approved"}
        /\ (Now \in {"rejected", "restored"} => Then = Now)
  BY <1>2, <1>3 DEF OpenPhases, TerminalPhases
<1>7. QED
  BY <1>1, <1>2, <1>3, <1>4, <1>5, <1>6, AgentStep DEF AgentPcs, EarlyPcs, RejectingPcs

\* The steps that change no row, no file and no lock, on the way of an agent
\* or a rejection.
LEMMA QuietStep ==
    ASSUME SelfmodInv, DisjointRuns, NEW p \in Processes, NEW r \in Runs,
           cmd[p].run = r, cmd[p].pc \in AgentPcs \cup RejectingPcs,
           UNCHANGED <<runs, lock, live>>, Others(p),
           \/ /\ SameWork(p)
              /\ \/ cmd'[p].pc \in AgentPcs /\ cmd[p].kind = "agent"
                 \/ cmd'[p].pc \in RejectingPcs
           \/ cmd'[p].pc = "idle" /\ cmd'[p].kind = "none" /\ cmd'[p].run = NoRun,
           cmd'[p].run = r => PhaseFits(p, r)' /\ Progress(p, r)'
    PROVE  Rest'
<1>1. CommandsFit' /\ LockFits' /\ OneToucher'
  BY UnlockedCommands
<1>2. OneAgent' /\ NoWorkOnAbsent'
  BY SelfmodAssumption DEF SelfmodInv, OneAgent, NoWorkOnAbsent, Others, SameWork
<1>3. OnlyRun(r)
  BY DEF OnlyRun, Rows, Others, SameWork
<1>4. FilesFitRun(r)'
  BY DEF SelfmodInv, FilesFit, FilesFitRun, Clean, Deployed
<1>5. ASSUME NEW q \in Processes \ {p}, cmd'[q].run = r
      PROVE  PhaseFits(q, r)' /\ Progress(q, r)'
  BY <1>5 DEF Others, SelfmodInv, PhasesFit, PhaseFits, ProgressFits, Progress,
              Clean, Deployed
<1>6. QED
  BY <1>1, <1>2, <1>3, <1>4, <1>5, OneRunMatters DEF Rest

\* After a rejection the agent releases its run; an operator's command ends.
LEMMA EndOfRejectStep ==
    ASSUME SelfmodInv, DisjointRuns, NEW p \in Processes, NEW r \in Runs,
           cmd[p].run = r, cmd[p].pc \in RejectingPcs, EndOfReject(p),
           UNCHANGED <<runs, lock, live>>
    PROVE  Rest'
<1>1. Others(p)
  BY EndOfRejectFrame DEF SelfmodInv, SelfmodTypeOK, CmdOK
<1>2. \/ cmd[p].kind = "agent" /\ SameWork(p) /\ cmd'[p].pc = "release"
      \/ cmd'[p].pc = "idle" /\ cmd'[p].kind = "none" /\ cmd'[p].run = NoRun
  BY EndOfRejectFrame DEF SelfmodInv, SelfmodTypeOK, CmdOK
<1>3. ASSUME cmd'[p].run = r PROVE PhaseFits(p, r)' /\ Progress(p, r)'
  <2>1. cmd'[p].pc = "release"
    BY <1>2, <1>3, SelfmodAssumption
  <2>2. QED
    BY <2>1 DEF PhaseFits, Progress, RestoringPcs, EarlyPcs, RejectingPcs
<1>4. QED
  BY <1>1, <1>2, <1>3, QuietStep DEF AgentPcs

LEMMA ReleaseStep ==
    ASSUME SelfmodInv, DisjointRuns, NEW p \in Processes, NEW r \in Runs,
           cmd[p].run = r, Release(p, r)
    PROVE  Rest'
<1>1. /\ cmd[p].pc = "release" /\ UNCHANGED <<lock, live>>
      /\ Rows(r) /\ SameFiles(r) /\ runs'[r].phase = runs[r].phase
  BY DEF Release, SelfmodInv, SelfmodTypeOK, Run, Rows, SameFiles
<1>2. /\ Others(p) /\ cmd'[p].pc = "idle" /\ cmd'[p].kind = "none"
      /\ cmd'[p].run = NoRun
  BY DoneFrame DEF Release, SelfmodInv, SelfmodTypeOK, CmdOK
<1>3. CommandsFit' /\ LockFits' /\ OneToucher'
  BY <1>1, <1>2, UnlockedCommands DEF AgentPcs
<1>4. OneAgent' /\ NoWorkOnAbsent'
  <2>1. /\ runs[r].phase # "absent"
        /\ ~ (runs[r].phase = "proposed" /\ runs[r].bundle = "none")
    BY <1>1 DEF SelfmodInv, NoWorkOnAbsent, OneAgent, CommandsFit, AgentPcs
  <2>2. \A q \in Processes : \/ Worked(q)
                             \/ cmd'[q].run = NoRun /\ cmd'[q].kind = "none"
    BY <1>2 DEF Worked, Others
  <2>3. QED
    BY <1>1, <2>1, <2>2, AgentsKept DEF SameFiles
<1>5. OnlyRun(r)
  BY <1>1, <1>2 DEF OnlyRun, Others
<1>6. FilesFitRun(r)'
  BY <1>1 DEF SelfmodInv, FilesFit, FilesFitRun, Clean, Deployed, SameFiles
<1>7. ASSUME NEW q \in Processes, cmd'[q].run = r
      PROVE  PhaseFits(q, r)' /\ Progress(q, r)'
  BY <1>1, <1>2, <1>7, SelfmodAssumption
  DEF Others, SelfmodInv, PhasesFit, PhaseFits, ProgressFits, Progress, Clean,
      Deployed, SameFiles
<1>8. QED
  BY <1>3, <1>4, <1>5, <1>6, <1>7, OneRunMatters DEF Rest

LEMMA CompareStep ==
    ASSUME SelfmodInv, DisjointRuns, NEW p \in Processes, NEW r \in Runs,
           cmd[p].run = r, Compare(p, r)
    PROVE  Rest'
<1>1. cmd[p].pc = "compare" /\ UNCHANGED <<runs, lock, live>>
  BY DEF Compare
<1>2. runs[r].phase \in {"rejected", "restored"}
        /\ (\A f \in FilesOf[r] : runs[r].manifest[f] # r)
  BY <1>1 DEF SelfmodInv, PhasesFit, PhaseFits, FilesFit, FilesFitRun, RejectingPcs
<1>3. CASE EndOfReject(p)
  BY <1>1, <1>3, EndOfRejectStep DEF RejectingPcs
<1>4. CASE Schedule(p, FilesOf[r], "undo")
  <2>1. /\ Others(p) /\ SameWork(p) /\ cmd'[p].pc = "undo"
        /\ cmd'[p].todo = FilesOf[r]
    BY <1>4, ScheduleFrame DEF SelfmodInv, SelfmodTypeOK, CmdOK
  <2>2. PhaseFits(p, r)' /\ Progress(p, r)'
    BY <1>1, <1>2, <2>1 DEF PhaseFits, Progress, RestoringPcs, EarlyPcs, AgentPcs
  <2>3. QED
    BY <1>1, <2>1, <2>2, QuietStep DEF RejectingPcs
<1>5. CASE /\ Goto(p, "recheck")
           /\ ~ \E f \in FilesOf[r] : live[f] # runs[r].manifest[f]
  <2>1. Others(p) /\ SameWork(p) /\ cmd'[p].pc = "recheck"
    BY <1>5, GotoFrame DEF SelfmodInv, SelfmodTypeOK, CmdOK
  <2>2. PhaseFits(p, r)' /\ Progress(p, r)'
    BY <1>1, <1>2, <1>5, <2>1
    DEF PhaseFits, Progress, Clean, RestoringPcs, EarlyPcs, AgentPcs
  <2>3. QED
    BY <1>1, <2>1, <2>2, QuietStep DEF RejectingPcs
<1>6. QED
  BY <1>3, <1>4, <1>5 DEF Compare

\* The steps of a rejection that write a file or the row.
LEMMA RejectedAlone ==
    ASSUME SelfmodInv, NEW r \in Runs, runs[r].phase \in {"rejected", "restored"},
           NEW q \in Processes, cmd[q].run = r
    PROVE  cmd[q].pc \in AgentPcs \cup RejectingPcs \cup {"unlock"}
<1>1. cmd[q].pc \notin TouchingPcs \ {"unlock"}
  BY DEF SelfmodInv, CommandsFit, PhasesFit, PhaseFits, TouchingPcs, TouchingKinds,
         LockedPcs, RestoringPcs
<1>2. cmd[q].pc \notin {"idle", "dead"}
  BY SelfmodAssumption DEF SelfmodInv, CommandsFit
<1>3. QED
  BY <1>1, <1>2 DEF SelfmodInv, SelfmodTypeOK, Command, TouchingPcs, LockedPcs,
                    RejectingPcs

LEMMA UndoStep ==
    ASSUME SelfmodInv, DisjointRuns, NEW p \in Processes, NEW r \in Runs,
           cmd[p].run = r, Undo(p, r)
    PROVE  Rest'
<1>1. cmd[p].pc = "undo" /\ UNCHANGED <<runs, lock>>
  BY DEF Undo
<1>2. PICK f \in cmd[p].todo :
          /\ live' = [live EXCEPT ![f] = runs[r].manifest[f]]
          /\ Schedule(p, cmd[p].todo \ {f},
                      IF cmd[p].todo \ {f} = {} THEN "recheck" ELSE "undo")
  BY DEF Undo
<1>3. /\ Others(p) /\ SameWork(p) /\ cmd'[p].todo = cmd[p].todo \ {f}
      /\ cmd'[p].pc = IF cmd'[p].todo = {} THEN "recheck" ELSE "undo"
  BY <1>2, ScheduleFrame DEF SelfmodInv, SelfmodTypeOK, CmdOK
<1>4. /\ cmd[p].todo \subseteq FilesOf[r] /\ FilesFitRun(r)
      /\ \A g \in FilesOf[r] \ cmd[p].todo : live[g] # r
      /\ runs[r].manifest[f] # r /\ runs[r].phase \in {"rejected", "restored"}
  BY <1>1, <1>2 DEF SelfmodInv, ProgressFits, Progress, FilesFit, FilesFitRun,
                    PhasesFit, PhaseFits, RejectingPcs
<1>5. \A g \in FilesOf[r] : live'[g] = r => live[g] = r
  BY <1>2, <1>4, SelfmodAssumption DEF SelfmodInv, SelfmodTypeOK
<1>6. FilesFitRun(r)'
  BY <1>1, <1>4, <1>5 DEF FilesFitRun, Clean, Untouched
<1>7. CommandsFit' /\ LockFits' /\ OneToucher'
  BY <1>1, <1>3, UnlockedCommands DEF RejectingPcs
<1>8. OneAgent' /\ NoWorkOnAbsent'
  BY <1>1, <1>3 DEF SelfmodInv, OneAgent, NoWorkOnAbsent, Others, SameWork
<1>9. OnlyRun(r)
  BY <1>1, <1>2, <1>3, <1>4
  DEF OnlyRun, Rows, Others, SameWork, SelfmodInv, SelfmodTypeOK
<1>10. \A g \in FilesOf[r] \ (cmd[p].todo \ {f}) : live'[g] # r
  BY <1>2, <1>4, SelfmodAssumption DEF SelfmodInv, SelfmodTypeOK
<1>11. PhaseFits(p, r)' /\ Progress(p, r)'
  BY <1>1, <1>3, <1>4, <1>10
  DEF PhaseFits, Progress, Clean, RestoringPcs, EarlyPcs, AgentPcs, RejectingPcs
<1>12. ASSUME NEW q \in Processes \ {p}, cmd'[q].run = r
       PROVE  PhaseFits(q, r)' /\ Progress(q, r)'
  <2>1. cmd'[q] = cmd[q] /\ PhaseFits(q, r) /\ Progress(q, r)
    BY <1>3, <1>12 DEF Others, SelfmodInv, PhasesFit, ProgressFits
  <2>2. cmd[q].pc \in AgentPcs \cup RejectingPcs \cup {"unlock"}
    BY <1>4, <1>12, <2>1, RejectedAlone
  <2>3. PhaseFits(q, r)'
    BY <1>1, <2>1 DEF PhaseFits
  <2>4. Progress(q, r)'
    BY <1>1, <1>4, <1>5, <2>1, <2>2
    DEF Progress, Clean, AgentPcs, RejectingPcs
  <2>5. QED
    BY <2>3, <2>4
<1>13. QED
  BY <1>6, <1>7, <1>8, <1>9, <1>11, <1>12, OneRunMatters DEF Rest

LEMMA RecheckStep ==
    ASSUME SelfmodInv, DisjointRuns, NEW p \in Processes, NEW r \in Runs,
           cmd[p].run = r, Recheck(p, r)
    PROVE  Rest'
<1>1. cmd[p].pc = "recheck" /\ EndOfReject(p) /\ UNCHANGED <<lock, live>>
  BY DEF Recheck
<1>2. CASE UNCHANGED runs
  BY <1>1, <1>2, EndOfRejectStep DEF RejectingPcs
<1>3. CASE Phase(r, {"rejected"}, "restored")
  <2>1. /\ Rows(r) /\ SameFiles(r) /\ runs[r].phase = "rejected"
        /\ runs'[r].phase = "restored"
    BY <1>3, PhaseFrame DEF SelfmodInv, SelfmodTypeOK, RunsOK
  <2>2. Others(p)
    BY <1>1, EndOfRejectFrame DEF SelfmodInv, SelfmodTypeOK, CmdOK
  <2>3. \/ cmd[p].kind = "agent" /\ SameWork(p) /\ cmd'[p].pc = "release"
        \/ cmd'[p].pc = "idle" /\ cmd'[p].kind = "none" /\ cmd'[p].run = NoRun
    BY <1>1, EndOfRejectFrame DEF SelfmodInv, SelfmodTypeOK, CmdOK
  <2>4. Clean(r) /\ FilesFitRun(r)
    BY <1>1 DEF SelfmodInv, ProgressFits, Progress, FilesFit
  <2>5. FilesFitRun(r)'
    BY <1>1, <2>1, <2>4 DEF FilesFitRun, Clean, SameFiles
  <2>6. CommandsFit' /\ LockFits' /\ OneToucher'
    BY <1>1, <2>2, <2>3, UnlockedCommands DEF RejectingPcs, AgentPcs
  <2>7. OneAgent' /\ NoWorkOnAbsent'
    <3>1. \A q \in Processes : \/ Worked(q)
                               \/ cmd'[q].run = NoRun /\ cmd'[q].kind = "none"
      BY <2>2, <2>3 DEF Worked, Others, SameWork
    <3>2. QED
      BY <2>1, <3>1, AgentsKept
  <2>8. OnlyRun(r)
    BY <1>1, <2>1, <2>2, <2>3 DEF OnlyRun, Others, SameWork
  <2>9. ASSUME NEW q \in Processes, cmd'[q].run = r
        PROVE  PhaseFits(q, r)' /\ Progress(q, r)'
    <3>1. CASE q = p
      <4>1. cmd'[p].pc = "release"
        BY <2>3, <2>9, <3>1, SelfmodAssumption
      <4>2. QED
        BY <3>1, <4>1 DEF PhaseFits, Progress, RestoringPcs, EarlyPcs, RejectingPcs
    <3>2. CASE q # p
      <4>1. cmd'[q] = cmd[q] /\ cmd[q].run = r /\ PhaseFits(q, r) /\ Progress(q, r)
        BY <2>2, <2>9, <3>2 DEF Others, SelfmodInv, PhasesFit, ProgressFits
      <4>2. cmd[q].pc \in AgentPcs \cup RejectingPcs \cup {"unlock"}
        BY <2>1, <4>1, RejectedAlone
      <4>3. QED
        BY <1>1, <2>1, <4>1, <4>2
        DEF PhaseFits, Progress, Clean, SameFiles, RestoringPcs, EarlyPcs, AgentPcs,
            RejectingPcs
    <3>3. QED
      BY <3>1, <3>2
  <2>10. QED
    BY <2>5, <2>6, <2>7, <2>8, <2>9, OneRunMatters DEF Rest
<1>4. QED
  BY <1>2, <1>3 DEF Recheck

\* Operators, and the environment.

\* The plans, endings and prunings of operators change one row.
LEMMA RowStep ==
    ASSUME SelfmodInv, DisjointRuns, NEW r \in Runs, Rows(r),
           UNCHANGED <<lock, live, cmd>>, FilesFitRun(r)',
           runs'[r].phase # "absent",
           runs'[r].phase = "proposed" =>
               \/ runs[r].phase = "proposed" /\ runs'[r].bundle = runs[r].bundle
               \/ \A q \in Processes : cmd[q].run # r,
           \A q \in Processes :
               cmd[q].run = r => PhaseFits(q, r)' /\ Progress(q, r)'
    PROVE  Rest'
<1>1. CommandsFit' /\ LockFits' /\ OneToucher'
  BY DEF SelfmodInv, CommandsFit, LockFits, OneToucher
<1>2. OneAgent' /\ NoWorkOnAbsent'
  <2>1. OneAgent'
    BY DEF SelfmodInv, OneAgent, Rows, CommandsFit, AgentPcs, RejectingPcs,
           SelfmodTypeOK, Command
  <2>2. NoWorkOnAbsent'
    BY DEF SelfmodInv, NoWorkOnAbsent, Rows
  <2>3. QED
    BY <2>1, <2>2
<1>3. OnlyRun(r)
  BY DEF OnlyRun
<1>4. QED
  BY <1>1, <1>2, <1>3, OneRunMatters DEF Rest

LEMMA CreatePlanStep ==
    ASSUME SelfmodInv, DisjointRuns, NEW r \in Runs, CreatePlan(r)
    PROVE  Rest'
<1>1. /\ runs[r].phase = "absent" /\ UNCHANGED <<lock, live, cmd>> /\ Rows(r)
      /\ runs'[r] = [NewRun EXCEPT !.phase = "proposed", !.base = live,
                                   !.dirty = Dirty, !.start = head]
  BY DEF CreatePlan, SelfmodInv, SelfmodTypeOK, Rows
<1>2. /\ runs'[r].phase = "proposed" /\ runs'[r].bundle = "none"
      /\ runs'[r].manifest = [f \in Files |-> "original"] /\ runs'[r].changed = {}
  BY <1>1 DEF NewRun
<1>3. Clean(r)
  BY <1>1 DEF SelfmodInv, FilesFit, FilesFitRun, Untouched
<1>4. FilesFitRun(r)'
  BY <1>1, <1>2, <1>3, SelfmodAssumption DEF FilesFitRun, Clean
<1>5. \A q \in Processes : cmd[q].run # r
  BY <1>1 DEF SelfmodInv, NoWorkOnAbsent
<1>6. QED
  BY <1>1, <1>2, <1>4, <1>5, RowStep

LEMMA UnworkedPhaseStep ==
    ASSUME SelfmodInv, DisjointRuns, NEW r \in Runs,
           Approve(r) \/ Resume(r) \/ ReconcileInterrupted(r)
    PROVE  Rest'
<1> DEFINE Now == runs[r].phase  Then == runs'[r].phase
<1>1. /\ UNCHANGED <<lock, live, cmd>> /\ Rows(r) /\ SameFiles(r)
      /\ \/ Now = "reviewing" /\ Then = "approved"
         \/ Now = "interrupted" /\ Then = "editing"
         \/ Now \in {"editing", "testing", "reviewing"} /\ Then = "interrupted"
  <2>1. CASE Approve(r) \/ Resume(r)
    BY <2>1, PhaseFrame DEF Approve, Resume, SelfmodInv, SelfmodTypeOK, RunsOK
  <2>2. CASE ReconcileInterrupted(r)
    BY <2>2 DEF ReconcileInterrupted, SelfmodInv, SelfmodTypeOK, Run, Rows, SameFiles
  <2>3. QED
    BY <2>1, <2>2
<1>2. Clean(r) /\ FilesFitRun(r)
  BY <1>1 DEF SelfmodInv, FilesFit, FilesFitRun, Untouched
<1>3. FilesFitRun(r)'
  BY <1>1, <1>2 DEF FilesFitRun, Clean, SameFiles
<1>4. ASSUME NEW q \in Processes, cmd[q].run = r
      PROVE  PhaseFits(q, r)' /\ Progress(q, r)'
  <2>1. PhaseFits(q, r) /\ Progress(q, r)
    BY <1>4 DEF SelfmodInv, PhasesFit, ProgressFits
  <2>2. PhaseFits(q, r)'
    BY <1>1, <2>1 DEF PhaseFits, SameFiles
  <2>3. Progress(q, r)'
    BY <1>1, <1>2, <2>1 DEF Progress, Clean, Deployed, SameFiles
  <2>4. QED
    BY <2>2, <2>3
<1>5. QED
  BY <1>1, <1>3, <1>4, RowStep

\* A run that nobody deploys or restores, and whose deployer did not die.
LEMMA UndisturbedRun ==
    ASSUME SelfmodInv, Orderly, NEW r \in Runs, Undisturbed(r)
    PROVE  /\ lock.run # r
           /\ \A q \in Processes : cmd[q].run = r =>
                 cmd[q].pc \in AgentPcs \cup RejectingPcs
<1>1. \A q \in Processes : cmd[q].run = r => cmd[q].kind \notin TouchingKinds
  BY DEF Undisturbed, Touching, TouchingKinds
<1>2. lock.run # r
  <2>1. SUFFICES ASSUME lock.run = r PROVE FALSE
    OBVIOUS
  <2>2. lock.owner \in Processes /\ cmd[lock.owner].pc # "dead"
    BY <2>1, SelfmodAssumption
    DEF Undisturbed, Alive, SelfmodInv, SelfmodTypeOK, Free
  <2>3. cmd[lock.owner].pc \in LockedPcs /\ cmd[lock.owner].run = r
    BY <2>1, <2>2 DEF SelfmodInv, LockFits
  <2>4. QED
    BY <1>1, <2>2, <2>3 DEF SelfmodInv, CommandsFit, TouchingPcs
<1>3. \A q \in Processes : cmd[q].run = r => cmd[q].pc \notin {"idle", "dead"}
  BY SelfmodAssumption DEF SelfmodInv, CommandsFit
<1>4. QED
  BY <1>1, <1>2, <1>3
  DEF SelfmodInv, SelfmodTypeOK, Command, CommandsFit, TouchingPcs, LockedPcs,
      RejectingPcs

LEMMA CancelStep ==
    ASSUME SelfmodInv, DisjointRuns, Orderly, NEW r \in Runs, Cancel(r)
    PROVE  Rest'
<1>1. /\ UNCHANGED <<lock, live, cmd>> /\ Rows(r) /\ SameFiles(r)
      /\ runs[r].phase \in OpenPhases /\ runs'[r].phase = "cancelled"
  BY PhaseFrame DEF Cancel, SelfmodInv, SelfmodTypeOK, RunsOK
<1>2. FilesFitRun(r)'
  BY <1>1 DEF SelfmodInv, FilesFit, FilesFitRun, Clean, SameFiles, Untouched
<1>3. ASSUME NEW q \in Processes, cmd[q].run = r
      PROVE  PhaseFits(q, r)' /\ Progress(q, r)'
  <2>1. cmd[q].pc \in AgentPcs \cup RejectingPcs
    BY <1>3, UndisturbedRun DEF Cancel
  <2>2. PhaseFits(q, r) /\ Progress(q, r)
    BY <1>3 DEF SelfmodInv, PhasesFit, ProgressFits
  <2>3. cmd[q].pc \notin RejectingPcs
    BY <1>1, <2>2 DEF PhaseFits, OpenPhases, TerminalPhases
  <2>4. PhaseFits(q, r)'
    BY <1>1, <2>1, <2>2, <2>3
    DEF PhaseFits, SameFiles, AgentPcs, EarlyPcs, RejectingPcs, RestoringPcs
  <2>5. Progress(q, r)'
    BY <1>1, <2>1, <2>3 DEF Progress, AgentPcs, RejectingPcs
  <2>6. QED
    BY <2>4, <2>5
<1>4. QED
  BY <1>1, <1>2, <1>3, RowStep

LEMMA PruneBackupStep ==
    ASSUME SelfmodInv, DisjointRuns, Orderly, NEW r \in Runs, PruneBackup(r)
    PROVE  Rest'
<1>1. /\ UNCHANGED <<lock, live, cmd>> /\ Rows(r)
      /\ runs[r].phase \in TerminalPhases /\ runs'[r].phase = runs[r].phase
      /\ runs[r].bundle = "whole" /\ runs'[r].bundle = "none"
      /\ runs'[r].manifest = runs[r].manifest /\ runs'[r].changed = runs[r].changed
  BY DEF PruneBackup, SelfmodInv, SelfmodTypeOK, Run, Rows
<1>2. FilesFitRun(r)'
  BY <1>1 DEF SelfmodInv, FilesFit, FilesFitRun, Clean, TerminalPhases
<1>3. ASSUME NEW q \in Processes, cmd[q].run = r
      PROVE  PhaseFits(q, r)' /\ Progress(q, r)'
  BY <1>1, <1>3
  DEF SelfmodInv, PhasesFit, PhaseFits, ProgressFits, Progress, Clean, Deployed,
      TerminalPhases
<1>4. runs'[r].phase \notin {"absent", "proposed"}
  BY <1>1 DEF TerminalPhases
<1>5. QED
  BY <1>1, <1>2, <1>3, <1>4, RowStep

\* An idle process works for nobody.
LEMMA IdleFacts ==
    ASSUME SelfmodInv, NEW p \in Processes, cmd[p].pc \in {"idle", "dead"}
    PROVE  /\ cmd[p].run = NoRun
           /\ cmd[p].kind \notin TouchingKinds \cup {"agent"}
BY DEF SelfmodInv, CommandsFit, TouchingPcs, LockedPcs, AgentPcs, RejectingPcs

LEMMA StartRunStep ==
    ASSUME SelfmodInv, DisjointRuns, NEW p \in Processes, NEW r \in Runs,
           StartRun(p, r)
    PROVE  Rest'
<1>1. /\ Others(p) /\ cmd'[p].pc = "backup" /\ cmd'[p].kind = "agent"
      /\ cmd'[p].run = r /\ cmd[p].pc = "idle"
  BY BeginFrame DEF StartRun, SelfmodInv, SelfmodTypeOK, CmdOK
<1>2. /\ UNCHANGED <<lock, live>> /\ Rows(r)
      /\ runs[r].phase = "proposed" /\ runs'[r].phase = "proposed"
      /\ runs[r].bundle = "none" /\ runs'[r].bundle = "partial"
      /\ runs'[r].manifest = runs[r].manifest /\ runs'[r].changed = runs[r].changed
  BY DEF StartRun, SelfmodInv, SelfmodTypeOK, Run, Rows
<1>3. ASSUME NEW q \in Processes, cmd[q].run = r
      PROVE  cmd[q].kind # "agent"
  BY <1>2, <1>3 DEF SelfmodInv, OneAgent
<1>4. cmd[p].run = NoRun /\ cmd[p].kind \notin TouchingKinds \cup {"agent"}
  BY <1>1, IdleFacts
<1>5. CommandsFit'
  BY <1>1, SelfmodAssumption
  DEF SelfmodInv, CommandsFit, Others, TouchingPcs, TouchingKinds, LockedPcs,
      AgentPcs, RejectingPcs
<1>6. LockFits'
  BY <1>1, <1>2 DEF SelfmodInv, LockFits, Others, LockedPcs
<1>7. OneToucher'
  BY <1>1, <1>2 DEF SelfmodInv, OneToucher, Others, TouchingKinds
<1>8. OneAgent'
  <2>1. ASSUME NEW q \in Processes, cmd'[q].kind = "agent"
        PROVE  ~ (runs'[cmd'[q].run].phase = "proposed"
                    /\ runs'[cmd'[q].run].bundle = "none")
    <3>1. CASE q = p
      BY <1>1, <1>2, <3>1
    <3>2. CASE q # p
      <4>1. cmd'[q] = cmd[q] /\ cmd[q].kind = "agent" /\ cmd[q].run \in Runs
        BY <1>1, <2>1, <3>2
        DEF Others, SelfmodInv, SelfmodTypeOK, Command, CommandsFit, AgentPcs,
            RejectingPcs
      <4>2. runs'[cmd[q].run] = runs[cmd[q].run]
        BY <1>2, <1>3, <4>1 DEF Rows
      <4>3. QED
        BY <4>1, <4>2 DEF SelfmodInv, OneAgent
    <3>3. QED
      BY <3>1, <3>2
  <2>2. ASSUME NEW q \in Processes, NEW t \in Processes,
               cmd'[q].kind = "agent", cmd'[t].kind = "agent",
               cmd'[t].run = cmd'[q].run
        PROVE  q = t
    BY <1>1, <1>3, <2>2 DEF Others, SelfmodInv, OneAgent
  <2>3. QED
    BY <2>1, <2>2 DEF OneAgent
<1>9. NoWorkOnAbsent'
  BY <1>1, <1>2 DEF SelfmodInv, NoWorkOnAbsent, Others, Rows
<1>10. Clean(r) /\ FilesFitRun(r)
  BY <1>2 DEF SelfmodInv, FilesFit, FilesFitRun, Untouched
<1>11. FilesFitRun(r)'
  BY <1>2, <1>10 DEF FilesFitRun, Clean
<1>12. ASSUME NEW q \in Processes, cmd'[q].run = r
       PROVE  PhaseFits(q, r)' /\ Progress(q, r)'
  <2>1. CASE q = p
    BY <1>1, <1>2, <2>1
    DEF PhaseFits, Progress, RestoringPcs, EarlyPcs, AgentPcs, RejectingPcs
  <2>2. CASE q # p
    <3>1. cmd'[q] = cmd[q] /\ PhaseFits(q, r) /\ Progress(q, r) /\ cmd[q].run = r
      BY <1>1, <1>12, <2>2 DEF Others, SelfmodInv, PhasesFit, ProgressFits
    <3>2. PhaseFits(q, r)'
      BY <1>2, <3>1 DEF PhaseFits
    <3>3. cmd[q].pc # "copy"
      BY <1>2, <3>1 DEF PhaseFits
    <3>4. Progress(q, r)'
      BY <1>2, <1>10, <3>1, <3>3 DEF Progress, Clean, Deployed
    <3>5. QED
      BY <3>2, <3>4
  <2>3. QED
    BY <2>1, <2>2
<1>13. OnlyRun(r)
  BY <1>1, <1>2 DEF OnlyRun, Others
<1>14. QED
  BY <1>5, <1>6, <1>7, <1>8, <1>9, <1>11, <1>12, <1>13, OneRunMatters DEF Rest

\* A command begins for a run that nobody disturbs.
LEMMA BeginStep ==
    ASSUME SelfmodInv, DisjointRuns, Orderly, NEW p \in Processes, NEW r \in Runs,
           Undisturbed(r), UNCHANGED <<lock, live>>, NEW kind, NEW pc,
           Begin(p, kind, r, pc),
           \/ kind \in {"deploy", "rollback"} /\ pc = "lock"
           \/ kind = "reject" /\ pc = "compare",
           Rows(r), runs'[r].phase \notin {"absent", "proposed"},
           FilesFitRun(r)',
           ASSUME NEW q \in Processes, cmd'[q].run = r
           PROVE  PhaseFits(q, r)' /\ Progress(q, r)'
    PROVE  Rest'
<1>1. /\ Others(p) /\ cmd'[p].pc = pc /\ cmd'[p].kind = kind
      /\ cmd'[p].run = r /\ cmd[p].pc = "idle"
  BY BeginFrame DEF SelfmodInv, SelfmodTypeOK, CmdOK
<1>2. cmd[p].run = NoRun /\ cmd[p].kind \notin TouchingKinds \cup {"agent"}
  BY <1>1, IdleFacts
<1>3. ASSUME NEW q \in Processes, cmd[q].run = r
      PROVE  cmd[q].kind \notin TouchingKinds
  BY <1>3 DEF Undisturbed, Touching, TouchingKinds
<1>4. CommandsFit'
  BY <1>1, SelfmodAssumption
  DEF SelfmodInv, CommandsFit, Others, TouchingPcs, TouchingKinds, LockedPcs,
      AgentPcs, RejectingPcs
<1>5. LockFits'
  BY <1>1 DEF SelfmodInv, LockFits, Others, LockedPcs
<1>6. lock.run # r
  BY UndisturbedRun
<1>7. OneToucher'
  BY <1>1, <1>3, <1>6 DEF SelfmodInv, OneToucher, Others, TouchingKinds
<1>8. OneAgent' /\ NoWorkOnAbsent'
  <2>1. \A q \in Processes \ {p} : Worked(q)
    BY <1>1 DEF Others, Worked
  <2>2. cmd'[p].kind # "agent" /\ cmd'[p].run = r
    BY <1>1
  <2>3. \A q \in Processes : Worked(q) \/ (cmd'[q].kind # "agent" /\ cmd'[q].run = r)
    BY <2>1, <2>2
  <2>4. QED
    BY <2>3, AgentsKept
<1>9. OnlyRun(r)
  BY <1>1 DEF OnlyRun, Others
<1>10. QED
  BY <1>4, <1>5, <1>7, <1>8, <1>9, OneRunMatters DEF Rest

LEMMA StartDeployOrRollbackStep ==
    ASSUME SelfmodInv, DisjointRuns, Orderly, NEW p \in Processes, NEW r \in Runs,
           StartDeploy(p, r) \/ StartRollback(p, r)
    PROVE  Rest'
<1>1. PICK kind \in {"deploy", "rollback"} :
          /\ Begin(p, kind, r, "lock") /\ UNCHANGED <<runs, lock, live>>
          /\ runs[r].phase = IF kind = "deploy" THEN "approved" ELSE "deployed"
          /\ Undisturbed(r)
  BY DEF StartDeploy, StartRollback
<1>2. /\ Others(p) /\ cmd'[p].pc = "lock" /\ cmd'[p].kind = kind /\ cmd'[p].run = r
  BY <1>1, BeginFrame DEF SelfmodInv, SelfmodTypeOK, CmdOK
<1>3. FilesFitRun(r)'
  BY <1>1 DEF SelfmodInv, FilesFit, FilesFitRun, Clean, Deployed
<1>4. ASSUME NEW q \in Processes, cmd'[q].run = r
      PROVE  PhaseFits(q, r)' /\ Progress(q, r)'
  <2>1. CASE q = p
    BY <1>1, <1>2, <2>1
    DEF PhaseFits, Progress, RestoringPcs, EarlyPcs, AgentPcs, RejectingPcs
  <2>2. CASE q # p
    <3>1. cmd'[q] = cmd[q] /\ PhaseFits(q, r) /\ Progress(q, r)
      BY <1>2, <1>4, <2>2 DEF Others, SelfmodInv, PhasesFit, ProgressFits
    <3>2. QED
      BY <1>1, <3>1 DEF PhaseFits, Progress, Clean, Deployed
  <2>3. QED
    BY <2>1, <2>2
<1>5. Rows(r) /\ runs'[r].phase \notin {"absent", "proposed"}
  BY <1>1 DEF Rows
<1>6. QED
  BY <1>1, <1>3, <1>4, <1>5, BeginStep

LEMMA RejectStep ==
    ASSUME SelfmodInv, DisjointRuns, Orderly, NEW p \in Processes, NEW r \in Runs,
           Reject(p, r)
    PROVE  Rest'
<1>1. /\ UNCHANGED <<lock, live>> /\ Undisturbed(r) /\ Begin(p, "reject", r, "compare")
      /\ Rows(r) /\ SameFiles(r) /\ runs[r].phase \in OpenPhases
      /\ runs'[r].phase = "rejected"
  BY PhaseFrame DEF Reject, SelfmodInv, SelfmodTypeOK, RunsOK
<1>2. /\ Others(p) /\ cmd'[p].pc = "compare" /\ cmd'[p].kind = "reject"
      /\ cmd'[p].run = r
  BY <1>1, BeginFrame DEF SelfmodInv, SelfmodTypeOK, CmdOK
<1>3. FilesFitRun(r)'
  BY <1>1 DEF SelfmodInv, FilesFit, FilesFitRun, Clean, SameFiles, Untouched
<1>4. ASSUME NEW q \in Processes, cmd'[q].run = r
      PROVE  PhaseFits(q, r)' /\ Progress(q, r)'
  <2>1. CASE q = p
    BY <1>1, <1>2, <2>1
    DEF PhaseFits, Progress, RestoringPcs, EarlyPcs, AgentPcs, RejectingPcs
  <2>2. CASE q # p
    <3>1. cmd'[q] = cmd[q] /\ PhaseFits(q, r) /\ cmd[q].run = r
      BY <1>2, <1>4, <2>2 DEF Others, SelfmodInv, PhasesFit
    <3>2. cmd[q].pc \in AgentPcs
      BY <1>1, <3>1, UndisturbedRun DEF PhaseFits, OpenPhases, TerminalPhases
    <3>3. QED
      BY <1>1, <3>1, <3>2
      DEF PhaseFits, Progress, SameFiles, AgentPcs, EarlyPcs, RejectingPcs,
          RestoringPcs
  <2>3. QED
    BY <2>1, <2>2
<1>5. QED
  BY <1>1, <1>3, <1>4, BeginStep

LEMMA LifeStep ==
    ASSUME SelfmodInv, DisjointRuns, NEW p \in Processes, Die(p) \/ Restart(p)
    PROVE  Rest'
<1>1. /\ UNCHANGED <<runs, lock, live>> /\ Others(p)
      /\ cmd'[p].pc \in {"idle", "dead"} /\ cmd'[p].kind = "none"
      /\ cmd'[p].run = NoRun
      /\ cmd'[p].pc = "idle" => lock.owner # p
  <2>1. CASE Die(p)
    BY <2>1 DEF Die, Idle, Others, SelfmodInv, SelfmodTypeOK
  <2>2. CASE Restart(p)
    BY <2>2, DoneFrame DEF Restart, SelfmodInv, SelfmodTypeOK, CmdOK
  <2>3. QED
    BY <2>1, <2>2
<1>2. CommandsFit'
  BY <1>1 DEF SelfmodInv, CommandsFit, Others, TouchingPcs, TouchingKinds, LockedPcs,
              AgentPcs, RejectingPcs
<1>3. LockFits'
  BY <1>1 DEF SelfmodInv, LockFits, Others, LockedPcs
<1>4. OneToucher'
  BY <1>1 DEF SelfmodInv, OneToucher, Others, TouchingKinds
<1>5. OneAgent' /\ NoWorkOnAbsent'
  BY <1>1, SelfmodAssumption DEF SelfmodInv, OneAgent, NoWorkOnAbsent, Others
<1>6. FilesFit'
  BY <1>1 DEF SelfmodInv, FilesFit, FilesFitRun, Clean, Deployed
<1>7. ASSUME NEW q \in Processes, NEW r \in Runs, cmd'[q].run = r
      PROVE  PhaseFits(q, r)' /\ Progress(q, r)'
  <2>1. cmd'[q] = cmd[q] /\ PhaseFits(q, r) /\ Progress(q, r)
    BY <1>1, <1>7, SelfmodAssumption DEF Others, SelfmodInv, PhasesFit, ProgressFits
  <2>2. QED
    BY <1>1, <2>1 DEF PhaseFits, Progress, Clean, Deployed
<1>8. QED
  BY <1>2, <1>3, <1>4, <1>5, <1>6, <1>7 DEF Rest, PhasesFit, ProgressFits

LEMMA UserEditStep ==
    ASSUME SelfmodInv, NEW f \in Files, UserEdit(f)
    PROVE  Rest'
<1>1. /\ UNCHANGED <<runs, lock, cmd>>
      /\ live' = [live EXCEPT ![f] = "edited"]
  BY DEF UserEdit
<1>2. CommandsFit' /\ LockFits' /\ OneToucher' /\ OneAgent' /\ NoWorkOnAbsent'
  BY <1>1
  DEF SelfmodInv, CommandsFit, LockFits, OneToucher, OneAgent, NoWorkOnAbsent
<1>3. ASSUME NEW r \in Runs, NEW g \in Files
      PROVE  /\ live[g] # r => live'[g] # r
             /\ live[g] \in {r, "edited"} => live'[g] \in {r, "edited"}
  BY <1>1, SelfmodAssumption DEF SelfmodInv, SelfmodTypeOK
<1>4. ASSUME NEW r \in Runs
      PROVE  FilesOf[r] \subseteq Files /\ runs[r].changed \subseteq Files
  BY SelfmodAssumption DEF SelfmodInv, SelfmodTypeOK, Run
<1>5. FilesFit'
  BY <1>1, <1>3, <1>4 DEF SelfmodInv, FilesFit, FilesFitRun, Clean, Deployed
<1>6. PhasesFit'
  BY <1>1 DEF SelfmodInv, PhasesFit, PhaseFits
<1>7. ProgressFits'
  BY <1>1, <1>3, <1>4 DEF SelfmodInv, ProgressFits, Progress, Clean, Deployed
<1>8. QED
  BY <1>2, <1>5, <1>6, <1>7 DEF Rest

\* Exceptions of a command.
LEMMA ErrorStep ==
    ASSUME SelfmodInv, DisjointRuns, Orderly, NEW p \in Processes, Error(p)
    PROVE  Rest'
<1>1. UNCHANGED <<runs, lock, live>>
  BY DEF Error
<1>2. PICK r \in Runs : cmd[p].run = r
  BY DEF Error, SelfmodInv, SelfmodTypeOK, Command, CommandsFit
<1>3. CASE /\ cmd[p].pc \in {"copy", "commit", "record", "conclude", "health"}
           /\ Goto(p, "except")
  <2>1. Others(p) /\ SameWork(p) /\ cmd'[p].pc = "except"
    BY <1>3, GotoFrame DEF SelfmodInv, SelfmodTypeOK, CmdOK
  <2>2. FilesFitRun(r)'
    BY <1>1 DEF SelfmodInv, FilesFit, FilesFitRun, Clean, Deployed
  <2>3. PhaseFits(p, r)'
    BY <1>1, <1>2, <1>3, <2>1
    DEF SelfmodInv, PhasesFit, PhaseFits, SameWork, RestoringPcs, EarlyPcs,
        AgentPcs, RejectingPcs
  <2>4. Progress(p, r)'
    BY <2>1 DEF Progress
  <2>5. runs[r].phase \in RecoverablePhases
    BY <1>2, <1>3, LockedPhase DEF LockedPcs
  <2>6. QED
    BY <1>1, <1>2, <1>3, <2>1, <2>2, <2>3, <2>4, <2>5, LockedStep
    DEF LockedPcs, Rows
<1>4. CASE /\ cmd[p].pc \in {"check", "conflicts", "restore", "recommit", "finish"}
           /\ Goto(p, "unlock")
  <2>1. runs[r].phase = "approved" => cmd[p].pc = "check"
    BY <1>2, <1>4 DEF SelfmodInv, PhasesFit, PhaseFits, RestoringPcs
  <2>2. QED
    BY <1>1, <1>2, <1>4, <2>1, ToUnlock DEF LockedPcs
<1>5. CASE cmd[p].pc \in {"edit", "begin", "review"} /\ Goto(p, "failed")
  <2>1. Others(p) /\ SameWork(p) /\ cmd'[p].pc = "failed"
    BY <1>5, GotoFrame DEF SelfmodInv, SelfmodTypeOK, CmdOK
  <2>2. cmd[p].kind = "agent" /\ PhaseFits(p, r)
    BY <1>2, <1>5 DEF SelfmodInv, CommandsFit, PhasesFit, AgentPcs
  <2>3. PhaseFits(p, r)' /\ Progress(p, r)'
    BY <1>1, <1>5, <2>1, <2>2
    DEF PhaseFits, Progress, SameWork, RestoringPcs, EarlyPcs, AgentPcs, RejectingPcs
  <2>4. QED
    BY <1>1, <1>2, <1>5, <2>1, <2>2, <2>3, QuietStep DEF AgentPcs
<1>6. CASE cmd[p].pc \in {"undo", "recheck"} /\ EndOfReject(p)
  BY <1>1, <1>2, <1>6, EndOfRejectStep DEF RejectingPcs
<1>7. QED
  BY <1>3, <1>4, <1>5, <1>6 DEF Error

-----------------------------------------------------------------------------
LEMMA InvInit == SelfmodInit => SelfmodInv
<1> SUFFICES ASSUME SelfmodInit PROVE SelfmodInv
  OBVIOUS
<1>1. /\ \A p \in Processes : cmd[p].pc = "idle" /\ cmd[p].kind = "none"
                                /\ cmd[p].run = NoRun
      /\ lock.run = NoRun /\ lock.owner = NoProcess
      /\ \A f \in Files : live[f] = "original"
  BY DEF SelfmodInit, Idle, Free
<1>2. \A r \in Runs : /\ runs[r].phase = "absent" /\ runs[r].bundle = "none"
                      /\ runs[r].changed = {}
                      /\ runs[r].manifest = [f \in Files |-> "original"]
  BY DEF SelfmodInit, NewRun
<1>3. CommandsFit /\ LockFits /\ OneToucher /\ OneAgent /\ NoWorkOnAbsent
  BY <1>1, SelfmodAssumption
  DEF CommandsFit, LockFits, OneToucher, OneAgent, NoWorkOnAbsent, TouchingPcs,
      TouchingKinds, LockedPcs, AgentPcs, RejectingPcs
<1>4. PhasesFit /\ ProgressFits
  BY <1>1, SelfmodAssumption DEF PhasesFit, ProgressFits
<1>5. FilesFit
  BY <1>1, <1>2, SelfmodAssumption DEF FilesFit, FilesFitRun, Clean
<1>6. QED
  BY <1>3, <1>4, <1>5, TypeInit, HeldInit DEF SelfmodInv

LEMMA InvStep ==
    ASSUME SelfmodInv, DisjointRuns, Orderly, [SelfmodNext]_vars
    PROVE  SelfmodInv'
<1>1. SelfmodTypeOK' /\ LockHeld'
  BY TypeStep, HeldStep DEF SelfmodInv
<1>2. ASSUME UNCHANGED vars PROVE Rest'
  <2>1. CommandsFit' /\ LockFits' /\ OneToucher' /\ OneAgent' /\ NoWorkOnAbsent'
    BY <1>2 DEF vars, SelfmodInv, CommandsFit, LockFits, OneToucher, OneAgent,
                NoWorkOnAbsent
  <2>2. PhasesFit'
    BY <1>2 DEF vars, SelfmodInv, PhasesFit, PhaseFits
  <2>3. FilesFit'
    BY <1>2 DEF vars, SelfmodInv, FilesFit, FilesFitRun, Clean, Deployed
  <2>4. ProgressFits'
    BY <1>2 DEF vars, SelfmodInv, ProgressFits, Progress, Clean, Deployed
  <2>5. QED
    BY <2>1, <2>2, <2>3, <2>4 DEF Rest
<1>3. ASSUME Operator PROVE Rest'
  BY <1>3, CreatePlanStep, UnworkedPhaseStep, CancelStep, PruneBackupStep,
     StartRunStep, RejectStep, StartDeployOrRollbackStep
  DEF Operator
<1>4. ASSUME NEW p \in Processes, Step(p) PROVE Rest'
  <2>1. PICK r \in Runs : /\ cmd[p].run = r
                          /\ \/ Agent(p, r) \/ Rejection(p, r)
                             \/ Deployment(p, r) \/ Restoration(p, r)
    BY <1>4 DEF Step
  <2>2. CASE Agent(p, r)
    BY <2>1, <2>2, CreateBackupStep, EarlySteps, ClaimStep, EditStep, ReleaseStep
    DEF Agent
  <2>3. CASE Rejection(p, r)
    BY <2>1, <2>3, CompareStep, UndoStep, RecheckStep DEF Rejection
  <2>4. CASE Deployment(p, r)
    BY <2>1, <2>4, LockStep, CheckStep, CopyStep, CommitDeployedStep,
       RecordDeployedStep, ConcludeStep, HealthStep, ExceptStep
    DEF Deployment
  <2>5. CASE Restoration(p, r)
    BY <2>1, <2>5, ConflictsStep, RestoreStep, CommitRestoredStep,
       FinishRestoreStep, UnlockStep
    DEF Restoration
  <2>6. QED
    BY <2>1, <2>2, <2>3, <2>4, <2>5
<1>5. ASSUME NEW p \in Processes, Recover(p) \/ Error(p) \/ Die(p) \/ Restart(p)
      PROVE  Rest'
  BY <1>5, RecoverStep, ErrorStep, LifeStep
<1>6. ASSUME NEW f \in Files, UserEdit(f) PROVE Rest'
  BY <1>6, UserEditStep
<1>7. Rest' => SelfmodInv'
  BY <1>1 DEF Rest, SelfmodInv
<1>8. QED
  BY <1>2, <1>3, <1>4, <1>5, <1>6, <1>7 DEF SelfmodNext

\* A run that is settled has the files its phase says.
LEMMA InvImplies == SelfmodInv => FilesMatchPhase
BY DEF SelfmodInv, FilesFit, FilesFitRun, FilesMatchPhase, Settled, Clean, Deployed

\* When operators act in order and no two runs declare the same file, the
\* live files of a run with nothing under way are what its phase says, wherever
\* deployers die or fail, and however many there are.
THEOREM FilesFollowPhases ==
    ASSUME Orderly, DisjointRuns
    PROVE  SelfmodSpec => []FilesMatchPhase
<1>1. SelfmodInv /\ [SelfmodNext]_vars => SelfmodInv'
  BY InvStep
<1>2. QED
  BY <1>1, InvInit, InvImplies, PTL DEF SelfmodSpec
=============================================================================
