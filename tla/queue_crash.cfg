\* Safety and the at-least-once promise through a crash, a shutdown and an I/O error.
CONSTANTS
    t1 = t1
    t2 = t2
    w1 = w1
    w2 = w2
    Task = {t1, t2}
    Damaged = {t2}
    Worker = {w1, w2}
    NoFile = NoFile
    MaxPending = 2
    MaxAttempts = 2
    Backoff = 1
    MinRun = 1
    MaxCrashes = 1
    MaxStops = 1
    MaxFaults = 1
    Horizon = 0
SPECIFICATION FairSpec
INVARIANTS TypeOK NothingLost OutcomeHonest NoOrphan
PROPERTIES AtLeastOnce EventuallyDecided
