\* A retry within the millisecond of the claimed name: backoff 0.
CONSTANTS
    t1 = t1
    t2 = t2
    w1 = w1
    w2 = w2
    Task = {t1}
    Damaged = {}
    Worker = {w1, w2}
    NoFile = NoFile
    MaxPending = 2
    MaxAttempts = 3
    Backoff = 0
    MinRun = 0
    MaxCrashes = 0
    MaxStops = 0
    MaxFaults = 0
    Horizon = 0
SPECIFICATION Spec
INVARIANT NothingLost
