\* Two turns of two iterations, interrupted anywhere; the session ends after them.
CONSTANTS
    read = read
    write = write
    ghost = ghost
    respond = respond
    NoTool = NoTool
    Tool = {read, write, ghost, respond}
    Unknown = {ghost}
    Safe = {read, respond}
    FinalTool = respond
    Reply <- Replies
    MaxIterations = 2
    MaxTurns = 2
SPECIFICATION FairSpec
INVARIANTS TypeOK AnsweredInOrder RefusedNeverRuns RiskyAlone ResultsAreTrue OutputIsValid
PROPERTY TurnEnds
