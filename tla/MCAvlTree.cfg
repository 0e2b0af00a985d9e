SPECIFICATION Spec
CONSTANTS
    Keys = {1, 2, 3, 4, 5, 6, 7, 8, 9, 10, 11, 12}
    NoKey = NoKey
    Nodes = {n1, n2, n3, n4, n5, n6, n7, n8, n9, n10, n11, n12}
    Null = Null
    MaxKept = 11
    MaxProbed = 2
    Asked = {3, 4, 8, 10, 12}
    Files <- SomeFiles
CONSTRAINT NotLost
INVARIANTS SearchFinds DestroysEachOnce
CHECK_DEADLOCK FALSE
