SPECIFICATION Spec
CONSTANTS
    Kinds = {"163", "qq", "outlook", "gmail"}
    Scenarios = {{"refuse", "crash"}, {"close", "silent", "no", "crash"},
                 {"mime", "busy", "rebuild"}, {"refuse", "mime"}, {"refuse"}}
    Chunk = 1
    MaxTries = 3
    MaxMails = 2
    MaxFaults = 3
PROPERTY NewMailStored
PROPERTY AllRead
