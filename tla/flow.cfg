\* Three processes on two records: interrupted, killed, failing, with files deleted in between.
CONSTANTS
    a = a
    b = b
    all = all
    none = none
    Id = {a, b, all}
    AllId = all
    Flows <- AllFlows
    Inputs <- InputFiles
    Prints <- Outputs
    Limits = {1}
    MaxStarts = 3
    MaxSamples = 1
    MaxEdits = 1
SPECIFICATION FairSpec
INVARIANTS UpToDate FinishedIsQuiet BudgetHolds
PROPERTY FlowEnds
CHECK_DEADLOCK FALSE
