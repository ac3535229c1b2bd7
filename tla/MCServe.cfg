CONSTANTS
    Clients = {c1, c2}
    Hosts <- MCHosts
    Wants <- MCWants
    Starts <- MCStarts
    Confs <- MCConfs
    Reloads = 1
    FakeHosts = {h1, h2, h3, h4}
    Sizes = {1, 2, 3}
    Ranges = {1, 2, 4}
    Kinds = {"http", "redir", "mixed"}
    Users = {u1, u2}
    Asks <- MCAsks
    Ports = {0, 1, 2}
    Configured <- MCConfigured
    Raws <- MCRaws
    Updaters = {c}
    ProviderSetups <- MCProviderSetups
    Contents = {1, 2, 3}
    Good = {1, 2}
    NodesOf <- MCNodesOf
    Checks = {k1, k2}
    Slots = 1
    MaxHistory = 1
    MaxTicks = 1
    Dialers = {"c1", "c2"}
    Setters = {s1, s2}
    GroupSetups <- MCGroupSetups
    NameOf <- MCNameOf
    LeadsTo <- MCLeads
    Dests = {"d1", "d2"}
    Wait = 2
    InnerWait = 1
    Top = 5
SPECIFICATION ServeSpec
INVARIANTS
    ServeTypeOK  RecentRemembered ListenersServe 
     
  
CHECK_DEADLOCK FALSE
