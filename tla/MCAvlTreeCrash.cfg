SPECIFICATION Spec
CONSTANTS
    Keys = {1, 2, 3, 4, 5, 6, 7, 8, 9, 10, 11, 12}
    NoKey = NoKey
    Nodes = {n1, n2, n3, n4, n5, n6, n7, n8, n9, n10, n11, n12}
    Null = Null
    MaxKept = 11
    MaxProbed = 1
    Asked = {4, 8}
    Files <- TenKeys
INVARIANTS NeverCrashes
CHECK_DEADLOCK FALSE
