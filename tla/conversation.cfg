\* A socket and a chat on one session, a run each, everything at any time.
CONSTANTS
    s1 = s1
    s2 = s2
    h1 = h1
    c1 = c1
    c2 = c2
    Socket = {s1}
    Rest = {h1}
    Call = {c1}
    MaxRuns = 2
    MaxTokens = 0
    EventCap = 1
    OutCap = 1
    Structured = TRUE
SPECIFICATION Spec
INVARIANTS GrantedByTheClient AnswersNeverBlock KeptWhileInUse EndsAreRecorded
CHECK_DEADLOCK FALSE
