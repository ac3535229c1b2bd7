CONSTANTS
    HandshakeUnits = 2
    Window = 1
    MaxUp = 4
    MaxDown = 3
SPECIFICATION FairSpec
INVARIANTS TypeOK NoDataLost
PROPERTIES UpStream DownStream LetsGo
CHECK_DEADLOCK FALSE
