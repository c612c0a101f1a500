SPECIFICATION Spec
CONSTANTS
    BufSize = 12
    Scripts <- AllScripts
INVARIANTS
    TypeOK
    NoSpuriousReply
    FirstPieceAnswered
    SecondaryIntact
CHECK_DEADLOCK FALSE
