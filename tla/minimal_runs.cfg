SPECIFICATION Spec
CONSTANTS
    Runner = {r1, r2}
    Execution = {x1, x2}
    MaxAttempts = 4
    MayLosePower = TRUE
SYMMETRY Symmetry
INVARIANTS
    TypeOK
    ReceiptIsLast
    ReturnedIsFinal
    SessionIsOwn
CHECK_DEADLOCK FALSE
