\* One account of two children, authorized twice: one event of each kind, and
\* those that meet a change of the authorization.
CONSTANTS
    Roles = {"INBOX", "SendTask"}
    Scenarios = {{"edit", "die"}, {"edit", "pause"}, {"edit", "wedge"},
                 {"edit", "rescan"}, {"delete", "die", "others"},
                 {"delete", "wedge", "others"}, {"delete", "pause"}, {"spawn"}, {"orphan"}, {"edit", "revoke"}, {"time"}}
    Life = 2
    MaxIsolates = 3
    MaxGrants = 2
    MaxFaults = 1
SPECIFICATION FairSpec
INVARIANT OneChild
INVARIANT PausedIsQuiet
INVARIANT SendFresh
PROPERTY Settles
\* An account that was deleted has nothing left to do.
CHECK_DEADLOCK FALSE
