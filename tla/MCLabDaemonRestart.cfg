SPECIFICATION Spec
CONSTANTS
    legit = legit
    rogue = rogue
    old = old
    labPort = labPort
    roguePort = roguePort
    Lead = legit
    LabPort = labPort
    Standard = Standard
    Nobody = Nobody
    Daemon = {legit}
    Port = {labPort}
    PortOf <- OnePort
    Foreign = {}
    Visible = {}
    Stale = {}
    Stubborn = {}
    MaxRestarts = 1
INVARIANT StandardRestored
CHECK_DEADLOCK FALSE
