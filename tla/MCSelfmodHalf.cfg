\* Operators who deploy again after a crash without asking for the status.
CHECK_DEADLOCK FALSE
SPECIFICATION SelfmodSpec
CONSTANTS
    r1 = r1
    f1 = f1
    f2 = f2
    Runs = {r1}
    NoRun = NoRun
    Files = {f1, f2}
    FilesOf <- TwoFiles
    Processes = {p1, p2}
    NoProcess = NoProcess
    UsesGit = TRUE
    Orderly = FALSE
    MaxUpsets = 1
INVARIANTS DeploymentAtomic
