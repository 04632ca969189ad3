\* Two apps sharing the guest's page table, one guest frame and a frame the
\* guest does not own; any sequence of gaddmap, gremovemap and gupdate_flags
\* with any arguments, the apps torn down or reaped at any point.
CONSTANTS
    Pids = {5, 6}
    Frames = {0, 1, 2}
    GuestFrames = {1}
    VAs <- MCVAs
    Base <- MCBase
    Midpoint <- MCMidpoint
    Bound <- MCBound
    TableSpan <- MCTableSpan
SPECIFICATION Spec
INVARIANT TypeOK
INVARIANT AppsMapOnlyGuestFrames
\* A kernel fault ends the run of the system.
CHECK_DEADLOCK FALSE
