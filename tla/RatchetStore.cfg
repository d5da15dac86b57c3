\* The UI isolate encrypts while the Download isolate decrypts: undisturbed, a
\* crash between any two statements or a write that fails, a backup restored as
\* often as one likes.
CONSTANTS
    Initiator = alice
    Responder = bob
    MaxSkip = 2
    MaxSend = 3
    Encryptors = {ui}
    Decryptors = {download}
    Scenarios = {{}, {"crash", "busy"}, {"restore"}}
SPECIFICATION StoreSpec
INVARIANTS
    NoKeyTwice
PROPERTY
    ImplementsCalls
CONSTRAINT
    Unraced
CHECK_DEADLOCK FALSE
