\* gremovemap before any gaddmap reached the page-table page.
CONSTANTS
    Pids = {5}
    Frames = {0, 1, 2}
    GuestFrames = {1}
    VAs <- MCVAsBase
    Base <- MCBase
    Midpoint <- MCMidpoint
    Bound <- MCBound
    TableSpan <- MCTableSpan
SPECIFICATION Spec
INVARIANT NoNullDeref
CHECK_DEADLOCK FALSE
