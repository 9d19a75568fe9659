SPECIFICATION Spec
CONSTANTS
    NumCores = 2
    x = x
    y = y
    a = a
    b = b
    p = p
    d = d
    i = i
    e = e
    g = g
    h = h
    Lines = {x, y}
    Uops = {a, b, e, p, d, i, g, h}
    UopCore <- MCUopCore
    UopLine <- MCUopLine
    UopKind <- MCUopKind
    After <- MCAfter
    Disabled = {3}
    MSHRSize = 2
    InSize <- MCInSize
    FillSize = 3
    WbSize = 1
    OutSize = 1
    Ways <- MCWays
    DramSize = 1
    MaxHeap = 4
    MaxRetry = 2
PROPERTIES
    WritebackNotLost
