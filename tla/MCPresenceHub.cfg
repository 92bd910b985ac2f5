SPECIFICATION FairSpec
CONSTANTS
    ann = ann
    a1 = a1
    a2 = a2
    Users = {ann}
    Conns = {a1, a2}
    Owner <- MCOwner
    Workers = {w1}
    IngestBuffer = 1
    None = none
INVARIANTS
    TypeOK
    RegisteredIsServed
    ShutdownWaits
PROPERTIES
    LatestStaysRegistered
    EvictedEventually
    ShutdownReturns
CHECK_DEADLOCK FALSE
