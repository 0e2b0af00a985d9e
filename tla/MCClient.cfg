SPECIFICATION Spec
CONSTANTS
    Clients = {c1, c2}
    Seats = {0, 1, 2}
    Fail = Fail
    Succ = Succ
    MaxPresses = 4
SYMMETRY ClientSymmetry
INVARIANTS TypeOK OwnPicturesTrue OnlyBookingsFail BookedSeatsHeld BookedAsSelected
