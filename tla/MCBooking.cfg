SPECIFICATION CrashSpec
CONSTANTS
    Threads = {t1, t2, t3}
    NSeats = 2
    IdCounter = IdCounter
    Settings = {}
    NoThread = NoThread
    Fail = Fail
    Succ = Succ
    film = film
    SharedCodes = FALSE
    MaxRequests = 4
    Requests <- BookingRequests
SYMMETRY ThreadSymmetry
INVARIANTS TypeOK LockInv ChecksStayTrue UniqueCodes   
PROPERTIES NoDoubleBooking
