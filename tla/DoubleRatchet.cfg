\* Five messages each way; a gap of more than two mails is refused.
CONSTANTS
    Initiator = alice
    Responder = bob
    MaxSkip = 2
    MaxSend = 5
SPECIFICATION Spec
INVARIANTS
    NoReplay
    NoMailLost
    NoKeyReuse
    RatchetInv
PROPERTIES
    TakesTurns
CHECK_DEADLOCK FALSE
