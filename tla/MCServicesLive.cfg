\* Two launchers and an operation; or one self-modification run over two
\* files, by two processes;
\* or two trainers, two run directories and three launches; or a screen and a
\* launcher with two operations.
CHECK_DEADLOCK FALSE
SPECIFICATION LiveSpec
CONSTANTS
    Instances = {1, 2}
    PidOf <- SamePids
    NoIdentity = NoIdentity
    Launchers = {1, 2}
    MaxOps = 1
    MaxMishaps = 2
    r1 = r1
    f1 = f1
    f2 = f2
    Runs = {r1}
    NoRun = NoRun
    Files = {f1, f2}
    FilesOf <- TwoFiles
    Processes = {p1, p2}
    NoProcess = NoProcess
    UsesGit = TRUE
    Orderly = TRUE
    MaxUpsets = 3
    Trainers = {t1, t2}
    NoTrainer = NoTrainer
    RunDirs = {d1, d2}
    NoDir = NoDir
    MaxLaunches = 3
    MaxHostOps = 2
    MaxEpochs = 3
    MaxStirs = 2
INVARIANTS SelfmodTypeOK OneDeployer FilesMatchPhase TrainingHonest WaitsAreReal
 
