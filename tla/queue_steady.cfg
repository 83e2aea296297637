\* No crash: two workers, two tasks that compete for one place, a shutdown.
CONSTANTS
    t1 = t1
    t2 = t2
    w1 = w1
    w2 = w2
    Task = {t1, t2}
    Damaged = {}
    Worker = {w1, w2}
    NoFile = NoFile
    MaxPending = 1
    MaxAttempts = 2
    Backoff = 1
    MinRun = 1
    MaxCrashes = 0
    MaxStops = 1
    MaxFaults = 0
    Horizon = 1
SPECIFICATION FairSpec
INVARIANTS DeliveredOnce RetryBudget
PROPERTIES ShutdownCompletes AdmissionReopens
