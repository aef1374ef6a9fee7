SPECIFICATION Spec
CONSTANTS
    c1 = c1
    c2 = c2
    c3 = c3
    c4 = c4
    s1 = s1
    s2 = s2
    s3 = s3
    s4 = s4
    Root = Root
    NoOne = NoOne
    Child <- MCChild
    Call <- MCCall
    MaxDepth = 3
    MaxChildren <- MCMaxChildren
    MaxAlive = 3
    MaxConcurrent = 2
    UsdCap = 2
    TreeCapMultiplier = 1
    MaxPrice = 1
    MaxRestarts = 1
SYMMETRY MCSymmetry
INVARIANTS TreeWithinLimits 
CHECK_DEADLOCK FALSE
