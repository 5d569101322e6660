SPECIFICATION RunSpec
CONSTANTS
    n1 = n1
    n2 = n2
    Node = {n1, n2}
    Systemd = {n1}
    Reachable = {n1}
    Crashy = {n1}
    Flaky = {n2}
    SshNode = {n1}
    Scenarios <- Settings
CHECK_DEADLOCK FALSE
INVARIANT PulledKeysAreFresh
INVARIANT NodesDown
INVARIANT FreshAnswers
INVARIANT RecordersStopped
PROPERTY RunsByContract
PROPERTY RunEnds
PROPERTY ThreadsEnd
