SPECIFICATION FairSpec
CONSTANTS
    Base = 256
    Peers <- TestRing
    Succ <- TestSucc
    Pred <- TestPred
    Clients = {c1, c2, c3}
    Requests <- GatewayRequests
    Gateways = {53428}
    MayStop = {}
    None = None
    Garbage = Garbage
CHECK_DEADLOCK FALSE
PROPERTY OwnedAnswered
