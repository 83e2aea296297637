\* A turn with two calls that ask at once; the client answers, cancels or leaves, or never does.
CONSTANTS
    s1 = s1
    s2 = s2
    h1 = h1
    c1 = c1
    c2 = c2
    Socket = {s1}
    Rest = {}
    Call = {c1, c2}
    MaxRuns = 1
    MaxTokens = 1
    EventCap = 1
    OutCap = 1
    Structured = FALSE
SPECIFICATION FairSpec
PROPERTIES TurnAnswered LeftIsReleased AskedIsDecided
CHECK_DEADLOCK FALSE
