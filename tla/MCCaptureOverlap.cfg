SPECIFICATION Spec
CONSTANTS
    le = le
    br = br
    None = None
    Handle = {le, br}
    Classic = {br}
    Cid = {c1, c2}
    c1 = c1
    c2 = c2
    Ident = {i1, i2}
    i1 = i1
    i2 = i2
    Psm <- Services
    Size = {1}
    Late = FALSE
    MaxSetups = 2
    MaxFrames = 2
    MaxLost = 0
INVARIANT AllFipsOverlapping
CHECK_DEADLOCK FALSE
