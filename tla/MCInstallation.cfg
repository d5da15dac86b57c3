\* Keys and secrets: two accounts with secrets where older releases kept them.
CONSTANTS
    Accounts = {a, b}
    Platforms = {"macos", "android", "windows"}
    Places = {"file", "item", "vault"}
    Scenarios = {{"crash"}, {"unreadable"}, {"locked", "store"}}
    MaxEdits = 1
    MaxFaults = 1
\* The database: a new profile and those of three older releases; one fault
\* while one opens, the core initialised twice, mail deleted, files lost, and
\* an archive restored on the same installation or a new one.
CONSTANTS
    Starts = {"none", "signal", "sender", "typed"}
    Histories = {{"fault", "again"}, {"fault", "move"}, {"mail"}, {"file", "move"}}
    FailIn = {"create", "add", "dedupe", "move", "drop", "pin", "look"}
    MaxRow = 3
    MaxEvents = 4
SPECIFICATION Behaviours
INVARIANT SecretKept
INVARIANT HistoryKept
INVARIANT LayoutComplete
 
PROPERTY NoIdTwice
