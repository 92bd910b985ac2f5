SPECIFICATION Spec
CONSTANTS
    ann = ann
    bob = bob
    ask = ask
    x1 = x1
    x2 = x2
    tell = tell
    Users = {ann, bob}
    Writers = {x1}
    WriterUser <- MCWriterUser
    Present = {ann, bob}
    Following <- MCFollowing
    Requests <- MCRequests
    Verified = {ann, bob}
    Radii = {1, 2}
    DefaultRadius = 2
    Validity = 1
    MaxClock = 1
    InitialRows <- MCRows
    Jobs = {ask, tell}
    JobUser <- MCJobUser
    JobKind <- MCJobKind
    Dist <- MCDist
    NoUser = nobody
    Padding = 1
INVARIANTS
    TypeOK
    OnlyDiscoverable
    NamedByTrust
    AuditCoversDisclosure
CHECK_DEADLOCK FALSE
