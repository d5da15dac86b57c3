\* One message each way, one copy, one crash, and one body that is given up at
\* the first miss.
SPECIFICATION FairSpec
CONSTANTS
    Initiator = alice
    Responder = bob
    BatchSize = 2
    MaxTries = 1
    MaxSends = 1
    MaxDups = 1
    MaxMisses = 1
    MaxCrashes = 1
INVARIANTS RootsAgree
PROPERTIES OnlyEarlyMailLost Completes
CHECK_DEADLOCK FALSE
