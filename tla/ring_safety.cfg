SPECIFICATION Spec
CONSTANTS
    Base = 256
    Peers <- LaunchRing
    Succ <- LaunchSucc
    Pred <- LaunchPred
    Clients = {c1, c2, c3}
    Requests <- ValueRequests
    Gateways <- LaunchRing
    MayStop = {}
    None = None
    Garbage = Garbage
SYMMETRY Symmetry
CHECK_DEADLOCK FALSE
INVARIANTS
    LookupMissesOwner
    ProxyHitsOwner
    LookupUnderWay
    UnownedCircles
    StuckOnlyInProxyCycle
PROPERTY IsKVStore
