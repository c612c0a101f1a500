SPECIFICATION FairSpec
CONSTANTS
    Base = 2
    Junk = Junk
    Jobs <- AllJobs
    Stored <- StoredValues
    BufSize = 3
INVARIANTS
    TypeOK
    RequestIntact
    AnswerIntact
    BuffersHold
    OneConnection
PROPERTY ClientEnds
CHECK_DEADLOCK FALSE
