CONSTANTS
    Kinds <- MCKinds
    Caps = {1, 2}
    MaxBytes = 4
    MaxFrame = 3
    MaxSize = 2
    ChunkSize = 2
    Wrap = 3
    ObfsKinds <- MCObfs
    Writes = 4
    Sessions = {"s1", "s2"}
    SnellConns = {"c1", "c2"}
    PoolSize = 1
    MaxData = 1
    Keys = {"j", "k"}
    Packets = {"p1", "p2", "p3"}
    Sources <- MCSources
    NatConns = {"c1", "c2"}
    Requests = {r1, r2, r3}
    Questions <- MCQuestions
    Asked <- MCAsked
    Confs <- MCConfs
    Main = {m1, m2}
    Fallback = {f}
    Policy = {p}
    InConns = {"c1", "c2"}
    Starts <- MCStarts
    Auths <- MCAuths
    TTL = 1
    MaxTime = 2
SPECIFICATION CarrySpec
INVARIANTS
    CarryTypeOK  HandshakeFirst SocketsAccounted CallTellsTheTruth
     AssociationsSound AnswersSound 
PROPERTIES CarryEnds
CHECK_DEADLOCK FALSE
