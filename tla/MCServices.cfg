\* Two processes with the same id one after the other, and a third; three
\* threads, of which two record outcomes; two launchers; three commands on a
\* host of two process ids, of three processes, of which one ends by itself.
CHECK_DEADLOCK FALSE
SPECIFICATION ServicesSpec
CONSTANTS
    Instances = {1, 2, 3}
    PidOf <- ReusedPid
    NoIdentity = NoIdentity
    Workers <- SomeThreads
    Sessions = {s1}
    NoClaim = NoClaim
    NoWorker = NoWorker
    MaxTurns = 1
    MaxFaults = 3
    Recorders <- SomeThreads
    Interactions = {i1}
    NoToken = NoToken
    MaxCalls = 2
    MaxErrors = 2
    Launchers = {1, 3}
    MaxOps = 2
    MaxMishaps = 1
    Pids = {p1, p2}
    NoPid = NoPid
    Callers = {c1, c2}
    MaxBorn = 3
    MaxEnds = 1
    MaxCommands = 3
CONSTRAINT TwoRecord
INVARIANTS TurnOwnsSession ClaimsAreReclaimable LockCoversTrees
           
PROPERTIES LessonsSafe
