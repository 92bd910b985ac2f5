SPECIFICATION Spec
CONSTANTS
    ann = ann
    bob = bob
    ask = ask
    x1 = x1
    x2 = x2
    tell = tell
    Users = {ann, bob}
    Writers = {x1, x2}
    WriterUser <- MCTwoRequests
    Present = {ann, bob}
    Following <- MCFollowing
    Requests <- MCPauses
    Verified = {ann, bob}
    Radii = {1, 2}
    DefaultRadius = 2
    Validity = 1
    MaxClock = 1
    InitialRows <- MCRows
    Jobs = {}
    JobUser <- MCNoJob
    JobKind <- MCNoJob
    Dist <- MCDist
    NoUser = nobody
    Padding = 1
INVARIANT RevocationSticks
CHECK_DEADLOCK FALSE
