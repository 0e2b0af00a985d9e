SPECIFICATION Spec
CONSTANTS
    Threads = {t1, t2, t3}
    Keys = {a, b}
    InFile <- FileOfA
    Values = {1, 2}
    TooLong = TooLong
    Records = {1, 2, 3, 4, 5}
    NoThread = NoThread
    Fail = Fail
    Succ = Succ
    Racing = FALSE
    MaxCalls = 4
    a = a
    b = b
SYMMETRY ThreadSymmetry
INVARIANTS TypeOK KeysExclude StoredIsFound OneSlotPerKey
PROPERTIES ImplementsKeyValue
