\* A call for an app whose spawn failed and was torn down.
CONSTANTS
    Pids = {5}
    Frames = {0, 1, 2}
    GuestFrames = {1}
    VAs <- MCVAsBase
    Base <- MCBase
    Midpoint <- MCMidpoint
    Bound <- MCBound
    TableSpan <- MCTableSpan
SPECIFICATION Spec
INVARIANT NoUseAfterFree
CHECK_DEADLOCK FALSE
