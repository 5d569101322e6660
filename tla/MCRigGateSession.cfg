SPECIFICATION RigSpec
CONSTANTS
    ik = ik
    xk = xk
    NoKey = NoKey
    LinkHs = {ik}
    SessionHs = {xk}
    MinRatio = 6667
    MaxDatagrams = 3
    MaxCoalesced = 2
INVARIANT EveryLayer
CHECK_DEADLOCK FALSE
