SPECIFICATION Spec
CONSTANTS
    ann = ann
    a1 = a1
    a2 = a2
    Users = {ann}
    Conns = {a1, a2}
    Owner <- MCOwner
    Workers = {w1}
    IngestBuffer = 1
    None = none
INVARIANT NoPanic
CHECK_DEADLOCK FALSE
