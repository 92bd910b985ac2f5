SPECIFICATION FairSpec
CONSTANTS
    Frames = {f1, f2, f3}
    HubProcs = {w1, w2}
    Handler = handler
    OutboundBuffer = 2
    None = none
INVARIANTS
    TypeOK
    FlushedBeforeTeardown
    OnlyMidFlightAfterClose
    NoDoubleClose
PROPERTIES
    EventuallyReleased
    ChannelSpec
CHECK_DEADLOCK FALSE
