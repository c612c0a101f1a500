SPECIFICATION FairSpec
CONSTANTS
    Conn = {a, b, l}
    Kind <- MixedKind
    BodyLen <- MixedBody
    HdrLen = 1
    Impatient = {a}
    None = None
    a = a
    b = b
    r = r
    l = l
CHECK_DEADLOCK FALSE
PROPERTIES
    PacketDelivered
    LeaverForgotten
