\* One controller at a time: every phase of the loop, plans, replans, crashes.
CONSTANTS
    Runs = {r1}
    Owners = {o1}
    NoOwner = NoOwner
    NoRun = NoRun
    Keep = Keep
    MaxTasks = 3
    MaxFailures = 2
    MaxReplans = 1
    MaxTotalCycles = 3
    MaxCheckpoints = 1
    MaxCycles = 2
    Adaptive = TRUE
    PlannerTasks <- AllPlans
    ReplanTasks <- AllReplans
    ClockMayJump = TRUE
SPECIFICATION Spec
INVARIANTS
    CompletionIsGrounded
    ReplansAreBounded
PROPERTIES
    AuditLedger
