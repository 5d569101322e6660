SPECIFICATION Spec
CONSTANTS
    mac = mac
    linux = linux
    esp = esp
    ble = ble
    zigble = zigble
    Node <- MCNode
    Fips <- MCFips
    Links <- MCLinks
    Plan <- OneScenario
    Rank <- MCRank
    Suffix <- MCSuffix
    Knowns <- MCKnowns
    Checks <- L2capChecks
    Views <- EspViews
    Within = 3
    MaxPolls = 6
    MaxDisconnects = 1
    NameRank <- MCNameRank
    MaxRekeys = 0
    Keylogs <- OneKeylog
CHECK_DEADLOCK FALSE
INVARIANT ReconnectsInTime
