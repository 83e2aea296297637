\* A client that leaves while the error for its last input waits for room.
CONSTANTS
    s1 = s1
    s2 = s2
    h1 = h1
    c1 = c1
    c2 = c2
    Socket = {s1}
    Rest = {}
    Call = {c1}
    MaxRuns = 1
    MaxTokens = 1
    EventCap = 1
    OutCap = 1
    Structured = TRUE
SPECIFICATION FairSpec
PROPERTY NeverWaitsForever
CHECK_DEADLOCK FALSE
