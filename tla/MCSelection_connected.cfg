CONSTANTS
    a1 = a1
    a2 = a2
    b1 = b1
    Nodes <- MCNodes
    Names <- MCNames
    NameOf <- MCNameOf
    Hosts = {"cn", "com"}
    RuleHosts = {"cn"}
    Lists <- SomeLists
    Selectors = {"h1", "h2"}
    Conns = {"c1"}
    NoName = NoName
    NoNode = NoNode
SPECIFICATION MCSpec
INVARIANT ConnectedMeansTested
