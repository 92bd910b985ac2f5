SPECIFICATION FairSpec
CONSTANTS
    c1 = c1
    c2 = c2
    Calls = {c1, c2}
    Mixes <- Pairs
    MaxTokens = 5
INVARIANTS
    TypeOK
    RotationNeverStrands
    DeadStaysDead
    RevocationIsComplete
    SoleRefresherStaysSignedIn
PROPERTIES
    EveryCallEnds
    ServerSpec
CHECK_DEADLOCK FALSE
