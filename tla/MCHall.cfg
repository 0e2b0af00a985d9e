SPECIFICATION LiveSpec
CONSTANTS
    Threads = {t1, t2}
    NSeats = 2
    IdCounter = IdCounter
    Settings = {film}
    NoThread = NoThread
    Fail = Fail
    Succ = Succ
    film = film
    SharedCodes = TRUE
    MaxRequests = 3
    Requests <- HallRequests
PROPERTIES ImplementsReservations EveryRequestAnswered
