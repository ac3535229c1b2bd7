CONSTANTS
    h1 = h1
    r1 = r1
    Setters = {h1}
    Loaders = {r1}
    DiskFails = FALSE
    MaxRequests = 1
    MaxCrashes = 0
SPECIFICATION Spec
INVARIANT PersistedInForce
