\* Two processes with background masters, crashes and one SQLite error, under fairness.
SPECIFICATION FairSpec
CONSTANTS
    NoAgent = NoAgent
    NoOwner = NoOwner
    Agents = {m1, c1}
    Masters = {m1}
    Team <- OneChild
    Owners = {o1, o2}
    MasterKinds = {"background"}
    WorkerSlots = 1
    HeartbeatEvery = 0
    StaleAfter = 0
    Grace = 0
    Punctual = FALSE
    MaxRaises = 1
    Retention = 2
    MayExit = FALSE
    m1 = m1
    m2 = m2
    m3 = m3
    c1 = c1
    c2 = c2
PROPERTIES FleetComesToRest
