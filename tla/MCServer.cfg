SPECIFICATION LiveSpec
CONSTANTS
    Managers = {internet}
    Handlers = {h1, h2}
    Limits = {1, 2}
    Punctual = TRUE
    NoHandler = NoHandler
INVARIANTS TypeOK ServesOnOpen NothingLost
PROPERTIES QueueIsFifo ShutdownTerminates ConnectionsReaped AcceptedEventually
