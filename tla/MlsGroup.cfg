\* Three accounts and two calls; two accounts, two calls, a message (with the key
\* update it may trigger) and a process that dies at any point; two accounts and
\* two calls of the user that meet those of the Download thread, with accounts
\* removed and invited again.
SPECIFICATION FairSpec
CONSTANTS
    Owner = o
    a = a
    b = b
    Member = {a, b, c}
    PersistFails = FALSE
    Limits <- GroupLimits
INVARIANTS
    OnlyRosterJoins
    NobodyStranded
    RemovedIsOut
    NoFork
PROPERTY
    AllCatchUp
CHECK_DEADLOCK FALSE
