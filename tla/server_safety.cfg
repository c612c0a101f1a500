SPECIFICATION Spec
CONSTANTS
    Conn = {a, b, r}
    Kind <- FarKind
    BodyLen <- FarBody
    HdrLen = 2
    Impatient = {a}
    None = None
    a = a
    b = b
    r = r
    l = l
CHECK_DEADLOCK FALSE
INVARIANTS
    TypeOK
    ListMatchesFiles
    BytesAccounted
    WaitingClientKept
    PatientGetTheirs
    CrashNeedsLeaver
