SPECIFICATION Spec
CONSTANTS
    Threads = {t1, t2}
    NSeats = 2
    IdCounter = IdCounter
    Settings = {}
    NoThread = NoThread
    Fail = Fail
    Succ = Succ
    film = film
    SharedCodes = FALSE
    MaxRequests = 4
    Requests <- CleanRequests
INVARIANT FreshCodeUnused
