SPECIFICATION FairSpec
CONSTANTS
    Disconnects = {d1, d2}
    Drains = {r1}
    Callers = {d1, d2, r1}
    Loops = {l1, l2}
    Sockets = {s1, s2, s3}
    MaxAttempt = 1
    MaxRebuilds = 3
    None = None
INVARIANTS
    TypeOK
    SessionIsWatched
    DownIsDown
    UpIsUp
PROPERTIES
    LoopsUnwind
CHECK_DEADLOCK FALSE
