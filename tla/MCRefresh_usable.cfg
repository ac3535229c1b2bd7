CONSTANTS
    s1 = s1
    s2 = s2
    s3 = s3
    n1 = n1
    n2 = n2
    c1 = c1
    Servers <- MCServers
    Nodes <- MCNodes
    Offers <- MCOffers
    Conversions <- MCConversions
    ConfigFiles <- AllFiles
    CronJobs = {"job"}
    Callers = {"force"}
    Handlers = {"g1"}
    NoText = NoText
SPECIFICATION MCSpec
INVARIANT OnlyUsableListed
