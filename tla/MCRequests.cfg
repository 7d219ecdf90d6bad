\* An agent of three steps over two paths; three requests about two
\* conversations; three edits seen by two threads; two questions in three
\* threads; two servers; three turns by two threads of one session.
CHECK_DEADLOCK FALSE
SPECIFICATION RequestsSpec
CONSTANTS
    Paths = {p1, p2}
    Documents = {p2}
    NoPath = NoPath
    MaxSteps = 3
    MaxRequests = 3
    Conversations = {c1, c2}
    NoConversation = NoConversation
    StateLimit = 1
    RateLimit = 1
    Readers = {t1, t2}
    NoReader = NoReader
    MaxEdits = 3
    Broken = {2}
    Threads = {h1, h2, h3}
    MaxSends = 2
    MaxStored = 2
    Children = {s1, s2}
    NoChild = NoChild
    Outside = Outside
    Callers = {auto, button}
    AutoStart = auto
    Answerers = {k1, k2}
    MaxTurns = 3
    Window = 1
    MaxRatings = 1
INVARIANTS  ReloadsConverge  
PROPERTIES ConversationsSound
