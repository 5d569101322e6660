SPECIFICATION MCSpec
CONSTANTS
    n1 = n1
    n2 = n2
    Node = {n1, n2}
    Systemd = {n1}
    Reachable = {n1, n2}
    Crashy = {}
    Flaky = {n1}
    c1 = c1
    c2 = c2
    Commit = {c1, c2}
    Branch = Branch
    Local = {n2}
CHECK_DEADLOCK FALSE
INVARIANT DeployTypeOK
INVARIANT KeylogFresh
INVARIANT RunsWhatWasBuilt
INVARIANT OneVersion
