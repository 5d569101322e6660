SPECIFICATION SummarySpec
CONSTANTS
    s1 = s1
    s2 = s2
    ghost = ghost
    Session = {s1, s2, ghost}
    Direction <- BothWays
    Keylogs <- Mixed
    MaxFrames = 5
INVARIANT SharesAddUp
INVARIANT DirectionsAddUp
INVARIANT OneGroupPerSession
CHECK_DEADLOCK FALSE
