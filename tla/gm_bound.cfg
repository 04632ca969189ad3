\* gaddmap at the bound itself.
CONSTANTS
    Pids = {5}
    Frames = {0, 1, 2}
    GuestFrames = {1}
    VAs <- MCVAsBound
    Base <- MCBase
    Midpoint <- MCMidpoint
    Bound <- MCBound
    TableSpan <- MCTableSpan
SPECIFICATION Spec
INVARIANT MapsWithinBounds
CHECK_DEADLOCK FALSE
