SPECIFICATION Spec
CONSTANTS
    mac = mac
    linux = linux
    esp = esp
    ble = ble
    zigble = zigble
    Node <- MCNode
    Fips <- MCFips
    Links <- MCLinks
    Plan <- MCPlan
    Rank <- MCRank
    Suffix <- MCSuffix
    Knowns <- MCKnowns
    Checks <- MCChecks
    Views <- MCViews
    Within = 1
    MaxPolls = 3
    MaxDisconnects = 1
    NameRank <- MCNameRank
    MaxRekeys = 0
    Keylogs <- MCKeylogs
CHECK_DEADLOCK FALSE
INVARIANT PassMeansUp
INVARIANT PassMeansKeys
INVARIANT DropsAreReported
PROPERTY KeepsContract
