SPECIFICATION Spec
CONSTANTS
    Size = 3
    Bytes = {0, 1}
    Chunks <- MCChunks
    Word = 16
INVARIANTS
    TypeOK
    RoomAccounted
PROPERTY IsFifo
