\* Liveness: one run, one controller that may lose its lease.
CONSTANTS
    Runs = {r1}
    Owners = {o1}
    NoOwner = NoOwner
    NoRun = NoRun
    Keep = Keep
    MaxTasks = 3
    MaxFailures = 1
    MaxReplans = 1
    MaxTotalCycles = 2
    MaxCheckpoints = 1
    MaxCycles = 2
    Adaptive = TRUE
    PlannerTasks <- FewPlans
    ReplanTasks <- FewReplans
    ClockMayJump = TRUE
SPECIFICATION FairSpec
PROPERTIES
    RunsComeToRest
    ImplementsContract
