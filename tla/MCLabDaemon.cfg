SPECIFICATION Spec
CONSTANTS
    legit = legit
    rogue = rogue
    old = old
    labPort = labPort
    roguePort = roguePort
    Lead = legit
    LabPort = labPort
    Standard = Standard
    Nobody = Nobody
    Daemon = {legit, rogue}
    Port = {labPort, roguePort}
    PortOf <- TwoPorts
    Foreign = {old}
    Visible = {old}
    Stale = {old}
    Stubborn = {legit, Standard}
    MaxRestarts = 1
INVARIANT TypeOK
INVARIANT ReadyIsMine
INVARIANT NeverBesideStandard
INVARIANT NoUninvitedStandard
PROPERTY TeardownRestores
PROPERTY SessionEnds
