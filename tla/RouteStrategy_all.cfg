CONSTANTS
    h1 = h1
    h2 = h2
    r1 = r1
    r2 = r2
    Setters = {h1, h2}
    Loaders = {r1, r2}
    DiskFails = TRUE
    MaxRequests = 3
    MaxCrashes = 1
SPECIFICATION FairSpec
INVARIANTS TypeOK NeverInvented LastSaveWins
PROPERTY Convergence
