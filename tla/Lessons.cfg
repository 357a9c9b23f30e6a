CONSTANTS
    c1 = c1
    c2 = c2
    t1 = t1
    t2 = t2
    file = file
    MaxSessions = 2
    Callers <- MCCallers
    Sweeper = Sweeper
    NoOne = NoOne
    MaxReverts = 1
    LastWeek = 3
    MaxCallFaults = 1
    Transfers <- MCTransfers
    Uploads <- MCUploads
    MaxAttempts = 2
    WindowOpens = 1
    WindowCloses = 2
    MaxTroubles = 1
SPECIFICATION Spec
INVARIANTS
    HoursOnce
    CompletedIsCounted
    StreakEarned
    MissingIsReported
PROPERTIES
    StuckSessionsEnd
    TrashedIsKept
    TransferArrives
CHECK_DEADLOCK FALSE
