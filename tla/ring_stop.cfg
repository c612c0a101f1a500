SPECIFICATION Spec
CONSTANTS
    Base = 256
    Peers <- LaunchRing
    Succ <- LaunchSucc
    Pred <- LaunchPred
    Clients = {c1, c2, c3}
    Requests <- MixedRequests
    Gateways <- LaunchRing
    MayStop = {138}
    None = None
    Garbage = Garbage
SYMMETRY Symmetry
CHECK_DEADLOCK FALSE
INVARIANTS
    TypeOK
    RequestInOnePlace
    AnswerIsOurs
