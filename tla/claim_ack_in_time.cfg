SPECIFICATION FairSpec
CONSTANTS
    Base = 256
    Peers <- LaunchRing
    Succ <- LaunchSucc
    Pred <- LaunchPred
    Clients = {c1, c2}
    Requests <- CrossRequests
    Gateways <- LaunchRing
    MayStop = {}
    None = None
    Garbage = Garbage
CHECK_DEADLOCK FALSE
PROPERTY OwnedAnswered
