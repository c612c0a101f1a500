SPECIFICATION Spec
CONSTANTS
    Key = {a1, a2, a3, a4, b1, b2}
    Val = {v1, v2}
    Even = {a1, a2, a3, a4}
    Odd = {b1, b2}
    Hash <- GroupHash
    Calls <- OneKeyTwoValues
    a1 = a1
    v1 = v1
    v2 = v2
    InitLog2 = 0
    Thresh = 2
    MaxLog2 = 3
    NULL = NULL
    Freed = Freed
SYMMETRY Groups
INVARIANTS
    TypeOK
    Intact
    ChainsBounded
PROPERTY IsMap
