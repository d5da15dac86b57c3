SPECIFICATION Spec
CONSTANTS
    MaxFiles = 2
    Total = 2
    Scenarios = {{"crash", "late"}, {"edited", "unreadable", "group"}, {"unqueued", "late", "group"}, {"unqueued"}, {"retry", "answer", "late"}, {"one", "late"}}
    MaxFaults = 2
CHECK_DEADLOCK FALSE
INVARIANT DoneIsWhole
PROPERTY FileArrives
