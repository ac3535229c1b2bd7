CONSTANTS
    Rules <- MCRules
    Builtin <- MCBuiltin
    Served <- MCServed
    Runs = {"r1", "r2"}
    DiskFails = TRUE
    MaxKills = 1
    DomainTexts <- MCDomainTexts
    IpTexts <- MCIpTexts
    Targets <- MCTargets
    Width = 4
    Lower <- MCLower
    MaxTexts = 2
    Domains <- MCDomains
    Names <- MCNames
    MaxEntries = 3
SPECIFICATION RulesSpec
INVARIANTS TypeOK IpListNeverEmpty  DirectIfListed SearchFinds
CHECK_DEADLOCK FALSE
