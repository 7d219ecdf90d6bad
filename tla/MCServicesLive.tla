--------------------------- MODULE MCServicesLive ---------------------------
\* Small instances of services of a host: two that recover what a dead process
\* held and the screen that follows the launcher's operations, under the
\* fairness of each, and training runs.  They share nothing, so a behaviour is
\* one of one of them.
EXTENDS LauncherOperations, Selfmod, TrainingRuns, AppSystem

CONSTANTS r1, f1, f2

VARIABLE part

liveVars == <<part, launcherVars, vars, trainingVars, appSystemVars>>

SamePids == [i \in Instances |-> i]
TwoFiles == [r \in Runs |-> {f1, f2}]

Launching(A) ==
    part = "launcher" /\ A /\ UNCHANGED <<part, vars, trainingVars, appSystemVars>>
Filing(A) ==
    /\ part = "files" /\ A
    /\ UNCHANGED <<part, launcherVars, trainingVars, appSystemVars>>
Training(A) ==
    part = "training" /\ A /\ UNCHANGED <<part, launcherVars, vars, appSystemVars>>
Showing(A) ==
    part = "screen" /\ A /\ UNCHANGED <<part, launcherVars, vars, trainingVars>>

LiveInit ==
    /\ part \in {"launcher", "files", "training", "screen"}
    /\ LauncherInit /\ SelfmodInit /\ TrainingInit /\ SystemInit

LiveNext ==
    \/ Launching(LauncherNext) \/ Filing(SelfmodNext) \/ Training(TrainingNext)
    \/ Showing(SystemNext)

LiveFairness ==
    /\ WF_liveVars(Launching(PassDeadline))
    /\ \A l \in Launchers : WF_liveVars(Launching(RecoveryStep(l)))
    /\ \A p \in Processes : /\ WF_liveVars(Filing(Step(p)))
                            /\ WF_liveVars(Filing(Recover(p)))
    /\ WF_liveVars(Showing(BeginPoll)) /\ WF_liveVars(Showing(CommandReturns))
    /\ \A e \in Epochs : WF_liveVars(Showing(WaitStep(e)))
    /\ \A r \in StatusReaders : WF_liveVars(Showing(ReaderStep(r)))

LiveSpec == LiveInit /\ [][LiveNext]_liveVars /\ LiveFairness

\* Whatever a dead process held, the deployment of files or an operation of
\* the launcher, is recovered, and the screen settles once the host is idle
\* (DeadDeployerRecovered of Selfmod, LockReleased of LauncherOperations,
\* OperationSettles of AppSystem).
ServicesSettle == DeadDeployerRecovered /\ LockReleased /\ OperationSettles
=============================================================================
