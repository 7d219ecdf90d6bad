\* Two controllers compete for one run while leases run out.
CONSTANTS
    Runs = {r1}
    Owners = {o1, o2}
    NoOwner = NoOwner
    NoRun = NoRun
    Keep = Keep
    MaxTasks = 3
    MaxFailures = 2
    MaxReplans = 0
    MaxTotalCycles = 2
    MaxCheckpoints = 1
    MaxCycles = 1
    Adaptive = FALSE
    PlannerTasks <- FewPlans
    ReplanTasks <- FewReplans
    ClockMayJump = TRUE
SYMMETRY OwnerSymmetry
SPECIFICATION Spec
INVARIANTS
    ControllerTypeOK
    SnapshotFresh
    OwnershipCoherent
PROPERTIES
    CancelFreezesLedger
