\* init alone with three free frames: fork gets its stack, its table and
\* the code region's descriptor, and runs out at the code region's page.
CONSTANTS
    NPROC = 2
    NFRAMES = 12
    InitFree <- MCOutAtCodePage
    MaxExecs = 0  \* exec plays no part in the aliasing
    NOFILE = 1
    Files = {console}
SPECIFICATION Spec
INVARIANT NoFreeOfLivePage
CHECK_DEADLOCK FALSE
