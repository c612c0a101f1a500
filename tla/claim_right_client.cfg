SPECIFICATION Spec
CONSTANTS
    Conn = {a, b, r}
    Kind <- FarKind
    BodyLen <- FarBody
    HdrLen = 1
    Impatient = {a}
    None = None
    a = a
    b = b
    r = r
    l = l
CHECK_DEADLOCK FALSE
INVARIANTS
    AnswerToAsker
