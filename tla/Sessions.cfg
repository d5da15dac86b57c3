\* A conversation of two that is upgraded by one side, messages in it, and each
\* account on a new device; a group, its roster changed, and a new device.
SPECIFICATION Spec
CONSTANTS
    Creator = a
    Peer = b
    Guest = c
    MaxSends = 1
    MaxDevice = 2
    Scenarios = {{"upgrade", "talk"}, {"answer"}, {"upgrade", a}, {"upgrade", b}, {"upgrade", c, "talk"}, {"group", a}, {"upgrade", "remove"}, {"group", "remove", "talk"}, {"group", "remove", c}}
INVARIANT OneSession
INVARIANT OneIdentity
PROPERTY AllReady
CHECK_DEADLOCK FALSE
