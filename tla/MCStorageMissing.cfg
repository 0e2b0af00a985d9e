SPECIFICATION Spec
CONSTANTS
    Threads = {t1, t2}
    Keys = {a, b}
    InFile <- FileOfA
    Values = {1, 2}
    TooLong = TooLong
    Records = {1, 2, 3, 4}
    NoThread = NoThread
    Fail = Fail
    Succ = Succ
    Racing = TRUE
    MaxCalls = 3
    a = a
    b = b
SYMMETRY ThreadSymmetry
INVARIANT StoredIsFound
