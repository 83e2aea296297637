SPECIFICATION Spec
CONSTANTS
    Runs = 3
    Goroutine = {"a", "b"}
    Work <- MCWork
    Outcomes = {"ok", "error"}
    Retention = 1
    Backends = {"jsonl", "sqlite"}
    Reader = {}
    MaxCrashes = 1
    MaxFaults = 1
INVARIANTS ListAgreesWithGet SinksAgree DiskIsThePast NewestKept
CHECK_DEADLOCK FALSE
