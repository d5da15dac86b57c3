SPECIFICATION Spec
CONSTANTS
    Owner = owner
    m1 = m1
    m2 = m2
    Mailmen <- TwoMailmen
    Kinds = {"handshake", "text", "group", "meta", "chunk", "update"}
    Minute = 2
    PerMinute = 1
    PoolBackoff = 1
    MaxRetries = 1
    MaxTasks = 2
    MaxTime = 3
    MaxCrashes = 1
CHECK_DEADLOCK FALSE
INVARIANT DeletedWasSent
INVARIANT OneSender
INVARIANT RateKept
