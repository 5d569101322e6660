SPECIFICATION MCSpec
SYMMETRY NameSymmetry
CONSTANTS
    le = le
    br = br
    None = None
    Handle = {le, br}
    Classic = {br}
    Cid = {c1, c2}
    c1 = c1
    c2 = c2
    Ident = {i1, i2}
    i1 = i1
    i2 = i2
    Psm <- Services
    Size = {1}
    Late = TRUE
    MaxSetups = 2
    MaxFrames = 2
    MaxLost = 1
INVARIANT FramesIntact
INVARIANT OnlyFipsWhenTracked
INVARIANT AllFips
INVARIANT LateCaptureReturned
CHECK_DEADLOCK FALSE
