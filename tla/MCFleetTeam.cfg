\* One process, one master with two children on one slot, every order of beats, queries and cancels.
SPECIFICATION Spec
CONSTANTS
    NoAgent = NoAgent
    NoOwner = NoOwner
    Agents = {m1, c1, c2}
    Masters = {m1}
    Team <- TwoChildren
    Owners = {o1}
    MasterKinds = {"delegated", "background"}
    WorkerSlots = 1
    HeartbeatEvery = 0
    StaleAfter = 0
    Grace = 0
    Punctual = FALSE
    MaxRaises = 1
    Retention = 2
    MayExit = TRUE
    m1 = m1
    m2 = m2
    m3 = m3
    c1 = c1
    c2 = c2
INVARIANTS OrchestratorTypeOK CancelWins SubtreeCancelled  AuditIsGrounded
CHECK_DEADLOCK FALSE
