SPECIFICATION Spec
CONSTANTS
    Clients = {c1, c2}
    Seats = {0, 1}
    Fail = Fail
    Succ = Succ
    MaxPresses = 3
SYMMETRY ClientSymmetry
INVARIANT CodeKept
