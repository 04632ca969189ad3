\* init and two more slots, twelve free frames at boot and one exec: one
\* process can exec while another forks and runs out at its page table,
\* and the memory the exec frees lets that fork's copy go on.  The
\* aliasing of a later region is judged by pm_fork_alias.
CONSTANTS
    NPROC = 3
    NFRAMES = 18
    InitFree <- MCInitFree
    MaxExecs = 1
    NOFILE = 3
    Files = {console}
SPECIFICATION FairSpec
VIEW MCView
INVARIANT TypeOK
INVARIANT FramesExclusive
INVARIANT ZombiesReapable
PROPERTY LifecycleSpec
INVARIANT FileRefsMatch
PROPERTY OrphansReaped
\* A kernel fault ends the run of the system.
CHECK_DEADLOCK FALSE
