\* A fleet process with punctual beats, two inline masters, and a retention
\* that prunes referred rows; two controllers of one run; a lesson and two that are
\* added by three calls of the tools, with the model pulled anew once; three programs
\* on a bundle, of which one dies, with the model pulled anew.
CHECK_DEADLOCK FALSE
SPECIFICATION BackgroundSpec
CONSTANTS
    NoAgent = NoAgent
    NoOwner = NoOwner
    Agents = {m1, m2}
    Masters = {m1, m2}
    Team <- NoTeam
    Owners = {o1}
    MasterKinds = {"inline"}
    WorkerSlots = 1
    HeartbeatEvery = 1
    StaleAfter = 2
    Grace = 2
    Punctual = TRUE
    MaxRaises = 0
    Retention = 1
    MayExit = TRUE
    r1 = r1
    k1 = k1
    k2 = k2
    NoRun = NoRun
    NoController = NoController
    Unchanged = Unchanged
    Old = Old
    NewLessons = {n1, n2}
    Turns = {i1}
    Texts = {x, y, z}
    Original = x
    Restated = y
    Private = {z}
    Revisions = {v1, v2}
    Nothing = Nothing
    Damaged = Damaged
    Tools = {j1, j2}
    MaxCalls = 3
    MaxRetags = 1
    Builders = {b1, b2}
    Versions = {1, 2}
    Longer = {}
    Runtimes = {1, 2}
    MaxPrograms = 3
    MaxDeaths = 1
INVARIANTS ControlIsExclusive RecoveryLinked BundleSound
PROPERTIES CoveredWorkKept FinishedIsFinal 
